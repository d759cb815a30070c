------------------------ MODULE UnaryHandlers_proofs ------------------------
(***************************************************************************)
(* A failure of any chunker or detector that a unary handler asks is never *)
(* dropped: the request is answered with success exactly when nothing has  *)
(* failed, for all eight endpoints, every set of detectors, every reply of *)
(* the services and every order in which they answer.                      *)
(* And the detections of a response are exactly those that the detectors   *)
(* make at or above their thresholds: masks, chunkers, the order of the    *)
(* answers, the sort and the grouping by choice lose, repeat or misplace   *)
(* none.  Hence the LLM is asked only if no input detector objects.        *)
(***************************************************************************)
EXTENDS UnaryHandlers, FiniteSetTheorems, WellFoundedInduction, TLAPS

USE DEF NoError

\* What a call is made of, and its stages.
IsCall(call) ==
    /\ call = [type |-> call.type, inputs |-> call.inputs, detectors |-> call.detectors,
               stage |-> call.stage, left |-> call.left, chunks |-> call.chunks,
               errors |-> call.errors, todo |-> call.todo, found |-> call.found,
               error |-> call.error]
    /\ call.errors = [d \in DOMAIN call.detectors |-> call.errors[d]]
    /\ call.stage \in {"chunk", "detect", "ok", "error"}

\* The failures of the chunk tasks of a call.
TaskErrors(call) == {call.errors[d] : d \in DOMAIN call.detectors} \ {NoError}

Ended(call) == call.stage \in {"ok", "error"}

\* A failure of a call that the handler has yet to see.
Failing(call) == call.stage = "error" \/ (call.stage = "chunk" /\ TaskErrors(call) # {})

\* The errors there are: each has a status that the service answers with.
IsError(e) == e.kind = "request" \/ e \in {Validation, NotFound}

\* The calls are those of the input and of the choices of the output.
Shape ==
    \A k \in DOMAIN calls :
        /\ IsCall(calls[k])
        /\ k[1] = "input" \/ (k[1] = "output" /\ k[2] \in Nat)

\* Only while the handler waits is a call under way, and it goes on only from calls
\* that succeeded.
Waiting ==
    /\ pc \in {"validate", "detectors", "input", "await input", "tokenize", "generate", "output",
               "await output", "done", "panicked"}
    /\ pc \in {"validate", "detectors", "input"} => DOMAIN calls = {}
    /\ pc \in {"done", "panicked"} => \A k \in DOMAIN calls : Ended(calls[k])
    /\ pc = "await input" => DOMAIN calls = {InputCall}
    /\ pc \in {"tokenize", "generate", "output"} => \A k \in DOMAIN calls : calls[k].stage = "ok"
    /\ pc = "await output" => \A k \in DOMAIN calls : k[1] = "input" => calls[k].stage = "ok"

\* What a call reports has failed.
Recorded ==
    /\ \A e \in failed : IsError(e)
    /\ \A k \in DOMAIN calls :
         /\ TaskErrors(calls[k]) \subseteq failed
         /\ calls[k].stage = "error" => calls[k].error \in failed

\* Until the response, a failure is kept in a call.
Remembered == pc # "done" /\ failed # {} => \E k \in DOMAIN calls : Failing(calls[k])

\* The choices of the LLM are numbered.
Numbered == DOMAIN choices \subseteq Nat

Inv == Shape /\ Waiting /\ Recorded /\ Remembered /\ ErrorsAnswered
-----------------------------------------------------------------------------
(* Errors and calls.                                                       *)

\* Every error is answered with a code that is passed on, or with 500.
LEMMA ErrorStatus ==
    ASSUME NEW e, IsError(e)
    PROVE  Status(e) \in PassedOn \union {500} /\ Status(e) # 200
<1>1. Status(e) \in PassedOn \union {500}
  <2>1. CASE e.kind = "request"
    BY <2>1, Zenon DEF Status
  <2>2. CASE e = Validation
    <3>1. Status(e) = 422
      BY <2>2 DEF Status, Validation
    <3> QED
      BY <3>1 DEF PassedOn
  <2>3. CASE e = NotFound
    <3>1. Status(e) = 404
      BY <2>3 DEF Status, NotFound
    <3> QED
      BY <3>1 DEF PassedOn
  <2> QED
    BY <2>1, <2>2, <2>3 DEF IsError
<1>2. 200 \notin PassedOn \union {500}
  BY DEF PassedOn
<1> QED
  BY <1>1, <1>2

LEMMA RequestErrors ==
    /\ \A code : IsError(RequestFailed(code)) /\ RequestFailed(code) # NoError
    /\ IsError(Validation) /\ IsError(NotFound)
  BY DEF IsError, RequestFailed, Validation, NotFound

LEMMA NewCallFacts ==
    ASSUME NEW type, NEW inputs, NEW detectors
    PROVE  LET call == NewCall(type, inputs, detectors)
           IN  /\ IsCall(call) /\ call.stage \in {"chunk", "detect"}
               /\ TaskErrors(call) = {}
  BY DEF NewCall, IsCall, TaskErrors

\* The step of a single call k.
Moves(k) ==
    /\ k \in DOMAIN calls
    /\ DOMAIN calls' = DOMAIN calls
    /\ \A j \in DOMAIN calls : j # k => calls'[j] = calls[j]
    /\ pc' = pc /\ response' = response
    /\ IsCall(calls[k])'
    /\ ~Ended(calls[k])

\* It is one of three kinds: nothing fails and nothing that failed is forgotten;
\* a service fails and the call keeps it; an error of a task becomes the call's.
Smoothly(k) ==
    /\ failed' = failed
    /\ TaskErrors(calls[k])' = TaskErrors(calls[k])
    /\ calls[k].stage' # "error"
    /\ Failing(calls[k]) => Failing(calls[k])'

Fails(k) ==
    /\ Failing(calls[k])'
    /\ \E e : /\ IsError(e)
              /\ failed' = failed \union {e}
              /\ TaskErrors(calls[k])' \subseteq TaskErrors(calls[k]) \union {e}
              /\ calls[k].stage' = "error" => calls[k].error' = e

Reports(k) ==
    /\ failed' = failed
    /\ TaskErrors(calls[k])' = TaskErrors(calls[k])
    /\ calls[k].stage' = "error" /\ calls[k].error' \in TaskErrors(calls[k])

CallStep(k) == Moves(k) /\ (Smoothly(k) \/ Fails(k) \/ Reports(k))

\* A step of a call that leaves its detectors and the errors of its tasks alone.
LEMMA SameErrors ==
    ASSUME NEW k \in DOMAIN calls, IsCall(calls[k]), ~Ended(calls[k]),
           NEW left, NEW chunks, NEW stage \in {"chunk", "detect", "ok", "error"},
           NEW todo, NEW found, NEW error,
           DOMAIN calls' = DOMAIN calls,
           \A j \in DOMAIN calls : j # k => calls'[j] = calls[j],
           calls'[k] = [type |-> calls[k].type, inputs |-> calls[k].inputs, detectors |-> calls[k].detectors,
               stage |-> stage, left |-> left, chunks |-> chunks, errors |-> calls[k].errors,
               todo |-> todo, found |-> found, error |-> error],
           pc' = pc, response' = response
    PROVE  /\ Moves(k) /\ TaskErrors(calls[k])' = TaskErrors(calls[k])
           /\ calls[k].stage' = stage /\ calls[k].error' = error
<1>1. /\ calls'[k].stage = stage /\ calls'[k].error = error
      /\ calls'[k].detectors = calls[k].detectors /\ calls'[k].errors = calls[k].errors
  OBVIOUS
<1>2. calls[k].errors = [d \in DOMAIN calls[k].detectors |-> calls[k].errors[d]]
  BY DEF IsCall
<1>3. calls'[k].errors = [d \in DOMAIN calls'[k].detectors |-> calls'[k].errors[d]]
  BY <1>1, <1>2, Zenon
<1>4. IsCall(calls[k])'
  BY <1>1, <1>3 DEF IsCall
<1>5. TaskErrors(calls[k])' = TaskErrors(calls[k])
  BY <1>1 DEF TaskErrors
<1> QED
  BY <1>1, <1>4, <1>5 DEF Moves

LEMMA ChunkReplyStep ==
    ASSUME Shape, NEW k \in DOMAIN calls, NEW d \in DOMAIN calls[k].detectors, ChunkReply(k, d)
    PROVE  CallStep(k)
<1>1. PICK i \in InFlight(calls[k], d) :
         calls' = [calls EXCEPT
            ![k].left[d] = @ \ {i},
            ![k].chunks[d] = @ \o chunk(Chunker[d], calls[k].inputs[i][1], calls[k].inputs[i][2])]
  BY DEF ChunkReply
<1>2. PICK left, chunks : calls' = [calls EXCEPT ![k].left = left, ![k].chunks = chunks]
  BY <1>1
<1>3. /\ DOMAIN calls' = DOMAIN calls /\ \A j \in DOMAIN calls : j # k => calls'[j] = calls[j]
      /\ calls'[k] = [calls[k] EXCEPT !.left = left, !.chunks = chunks]
  BY <1>2
<1>4. /\ IsCall(calls[k]) /\ calls[k].stage = "chunk" /\ pc' = pc /\ response' = response
      /\ failed' = failed
  BY DEF ChunkReply, Chunking, Shape
<1>5. calls'[k] = [type |-> calls[k].type, inputs |-> calls[k].inputs, detectors |-> calls[k].detectors,
               stage |-> calls[k].stage, left |-> left, chunks |-> chunks,
               errors |-> calls[k].errors, todo |-> calls[k].todo, found |-> calls[k].found,
               error |-> calls[k].error]
  BY <1>3, <1>4 DEF IsCall
<1>6. /\ Moves(k) /\ TaskErrors(calls[k])' = TaskErrors(calls[k]) /\ calls[k].stage' = "chunk"
  BY <1>3, <1>4, <1>5, SameErrors, ZenonT(30) DEF Ended
<1> QED
  BY <1>4, <1>6 DEF CallStep, Smoothly, Failing

LEMMA ChunkFailsStep ==
    ASSUME Shape, NEW k \in DOMAIN calls, NEW d \in DOMAIN calls[k].detectors, ChunkFails(k, d)
    PROVE  CallStep(k)
<1>1. PICK e : /\ IsError(e) /\ e # NoError
               /\ calls' = [calls EXCEPT ![k].errors[d] = e]
               /\ failed' = failed \union {e}
  BY RequestErrors, Zenon DEF ChunkFails
<1>2. IsCall(calls[k]) /\ calls[k].stage = "chunk" /\ pc' = pc /\ response' = response
  BY DEF ChunkFails, Chunking, Shape
<1>3. /\ DOMAIN calls' = DOMAIN calls /\ \A j \in DOMAIN calls : j # k => calls'[j] = calls[j]
      /\ calls'[k] = [calls[k] EXCEPT !.errors = [calls[k].errors EXCEPT ![d] = e]]
  BY <1>1
<1>4. /\ calls'[k] = [type |-> calls[k].type, inputs |-> calls[k].inputs, detectors |-> calls[k].detectors,
               stage |-> calls[k].stage, left |-> calls[k].left, chunks |-> calls[k].chunks,
               errors |-> [calls[k].errors EXCEPT ![d] = e], todo |-> calls[k].todo, found |-> calls[k].found,
               error |-> calls[k].error]
  BY <1>2, <1>3 DEF IsCall
<1>5. /\ calls'[k].detectors = calls[k].detectors /\ calls'[k].stage = "chunk"
      /\ calls'[k].errors = [calls[k].errors EXCEPT ![d] = e]
  BY <1>2, <1>4
<1>6. calls[k].errors = [x \in DOMAIN calls[k].detectors |-> calls[k].errors[x]]
  BY <1>2 DEF IsCall
<1>7. /\ calls'[k].errors[d] = e
      /\ \A x \in DOMAIN calls[k].detectors : x # d => calls'[k].errors[x] = calls[k].errors[x]
      /\ calls'[k].errors = [x \in DOMAIN calls[k].detectors |-> calls'[k].errors[x]]
  BY <1>5, <1>6
<1>8. IsCall(calls[k])'
  BY <1>4, <1>5, <1>7 DEF IsCall
<1>9. e \in TaskErrors(calls[k])' /\ TaskErrors(calls[k])' \subseteq TaskErrors(calls[k]) \union {e}
  BY <1>1, <1>5, <1>7, SMTT(20) DEF TaskErrors
<1>10. Fails(k)
  BY <1>1, <1>5, <1>9 DEF Fails, Failing
<1> QED
  BY <1>2, <1>3, <1>8, <1>10 DEF CallStep, Moves, Ended

LEMMA ChunksDoneStep ==
    ASSUME Shape, NEW k \in DOMAIN calls, ChunksDone(k)
    PROVE  CallStep(k)
<1>1. /\ IsCall(calls[k]) /\ calls[k].stage = "chunk" /\ ~Ended(calls[k])
      /\ pc' = pc /\ response' = response /\ failed' = failed
  BY DEF ChunksDone, Shape, Ended
<1>2. CASE TaskErrors(calls[k]) # {}
  <2>1. PICK e \in TaskErrors(calls[k]) : calls' = [calls EXCEPT ![k].stage = "error", ![k].error = e]
    BY <1>2 DEF ChunksDone, TaskErrors
  <2>2. /\ DOMAIN calls' = DOMAIN calls /\ \A j \in DOMAIN calls : j # k => calls'[j] = calls[j]
        /\ calls'[k] = [calls[k] EXCEPT !.stage = "error", !.error = e]
    BY <2>1
  <2>3. calls'[k] = [type |-> calls[k].type, inputs |-> calls[k].inputs, detectors |-> calls[k].detectors,
               stage |-> "error", left |-> calls[k].left, chunks |-> calls[k].chunks,
               errors |-> calls[k].errors, todo |-> calls[k].todo, found |-> calls[k].found,
               error |-> e]
    BY <1>1, <2>2 DEF IsCall
  <2>4. /\ Moves(k) /\ TaskErrors(calls[k])' = TaskErrors(calls[k])
        /\ calls[k].stage' = "error" /\ calls[k].error' = e
    BY <1>1, <2>2, <2>3, SameErrors
  <2> QED
    BY <1>1, <2>1, <2>4 DEF CallStep, Reports
<1>3. CASE TaskErrors(calls[k]) = {}
  <2>1. PICK chunks : calls' = [calls EXCEPT ![k].stage = "detect", ![k].chunks = chunks]
    BY <1>3 DEF ChunksDone, TaskErrors
  <2>2. /\ DOMAIN calls' = DOMAIN calls /\ \A j \in DOMAIN calls : j # k => calls'[j] = calls[j]
        /\ calls'[k] = [calls[k] EXCEPT !.stage = "detect", !.chunks = chunks]
    BY <2>1
  <2>3. calls'[k] = [type |-> calls[k].type, inputs |-> calls[k].inputs, detectors |-> calls[k].detectors,
               stage |-> "detect", left |-> calls[k].left, chunks |-> chunks,
               errors |-> calls[k].errors, todo |-> calls[k].todo, found |-> calls[k].found,
               error |-> calls[k].error]
    BY <1>1, <2>2 DEF IsCall
  <2>4. /\ Moves(k) /\ TaskErrors(calls[k])' = TaskErrors(calls[k]) /\ calls[k].stage' = "detect"
    BY <1>1, <2>2, <2>3, SameErrors
  <2> QED
    BY <1>1, <1>3, <2>4 DEF CallStep, Smoothly, Failing
<1> QED
  BY <1>2, <1>3

LEMMA DetectorReplyStep ==
    ASSUME Shape, NEW k \in DOMAIN calls, NEW d, DetectorReply(k, d)
    PROVE  CallStep(k)
<1>1. /\ IsCall(calls[k]) /\ calls[k].stage = "detect" /\ ~Ended(calls[k])
      /\ pc' = pc /\ response' = response /\ failed' = failed
  BY DEF DetectorReply, Shape, Ended
<1> DEFINE all == IF calls[k].type = "contents" THEN detect_text_contents(d, calls[k].chunks[d])
                   ELSE detect_text(d, calls[k].inputs[1][2])
            more == calls[k].found \o Kept(d, calls[k].detectors[d], all)
            last == calls[k].todo = {d}
            stage == IF last THEN "ok" ELSE "detect"
            todo == calls[k].todo \ {d}
            found == IF last /\ calls[k].type = "contents" THEN SortedByStart(more) ELSE more
<1>2. calls' = [calls EXCEPT ![k].todo = @ \ {d}, ![k].stage = IF last THEN "ok" ELSE @, ![k].found = found]
  BY DEF DetectorReply
<1> HIDE DEF found
<1>3. /\ DOMAIN calls' = DOMAIN calls /\ \A j \in DOMAIN calls : j # k => calls'[j] = calls[j]
      /\ calls'[k] = [[[calls[k] EXCEPT !.todo = todo] EXCEPT !.stage = stage] EXCEPT !.found = found]
  BY <1>1, <1>2 DEF IsCall
<1>4. stage \in {"chunk", "detect", "ok", "error"} /\ stage # "error"
  OBVIOUS
<1> HIDE DEF stage, todo
<1>5. calls'[k] = [type |-> calls[k].type, inputs |-> calls[k].inputs, detectors |-> calls[k].detectors,
               stage |-> stage, left |-> calls[k].left, chunks |-> calls[k].chunks,
               errors |-> calls[k].errors, todo |-> todo, found |-> found,
               error |-> calls[k].error]
  BY <1>1, <1>3 DEF IsCall
<1>6. /\ Moves(k) /\ TaskErrors(calls[k])' = TaskErrors(calls[k]) /\ calls[k].stage' = stage
  BY <1>1, <1>3, <1>4, <1>5, SameErrors, ZenonT(30)
<1> QED
  BY <1>1, <1>4, <1>6 DEF CallStep, Smoothly, Failing

LEMMA DetectorFailsStep ==
    ASSUME Shape, NEW k \in DOMAIN calls, NEW d, DetectorFails(k, d)
    PROVE  CallStep(k)
<1>1. /\ IsCall(calls[k]) /\ calls[k].stage = "detect" /\ ~Ended(calls[k])
      /\ pc' = pc /\ response' = response
  BY DEF DetectorFails, Shape, Ended
<1>2. PICK e : /\ IsError(e) /\ failed' = failed \union {e}
               /\ calls' = [calls EXCEPT ![k].stage = "error", ![k].error = e]
  BY RequestErrors, Zenon DEF DetectorFails
<1>3. /\ DOMAIN calls' = DOMAIN calls /\ \A j \in DOMAIN calls : j # k => calls'[j] = calls[j]
      /\ calls'[k] = [calls[k] EXCEPT !.stage = "error", !.error = e]
  BY <1>2
<1>4. calls'[k] = [type |-> calls[k].type, inputs |-> calls[k].inputs, detectors |-> calls[k].detectors,
               stage |-> "error", left |-> calls[k].left, chunks |-> calls[k].chunks,
               errors |-> calls[k].errors, todo |-> calls[k].todo, found |-> calls[k].found,
               error |-> e]
  BY <1>1, <1>3 DEF IsCall
<1>5. /\ Moves(k) /\ TaskErrors(calls[k])' = TaskErrors(calls[k])
      /\ calls[k].stage' = "error" /\ calls[k].error' = e
  BY <1>1, <1>3, <1>4, SameErrors
<1>6. Fails(k)
  BY <1>2, <1>5 DEF Fails, Failing
<1> QED
  BY <1>5, <1>6 DEF CallStep
-----------------------------------------------------------------------------
(* A step of a call keeps the invariant.                                   *)

LEMMA CallStepInv ==
    ASSUME Inv, NEW k, CallStep(k)
    PROVE  Inv'
<1>1. /\ k \in DOMAIN calls /\ DOMAIN calls' = DOMAIN calls /\ pc' = pc /\ response' = response
      /\ \A j \in DOMAIN calls : j # k => calls'[j] = calls[j]
      /\ IsCall(calls[k])' /\ ~Ended(calls[k])
  BY DEF CallStep, Moves
<1>2. pc \in {"await input", "await output"}
  <2>1. calls[k].stage # "ok" /\ DOMAIN calls # {}
    BY <1>1 DEF Ended
  <2> QED
    BY <1>1, <2>1 DEF Inv, Waiting
<1>3. Shape'
  BY <1>1 DEF Inv, Shape
<1>4. Waiting'
  <2>1. pc = "await output" => k[1] # "input"
    BY <1>1 DEF Inv, Waiting, Ended
  <2> QED
    BY <1>1, <1>2, <2>1 DEF Inv, Waiting
<1>5. /\ failed \subseteq failed' /\ \A e \in failed' : IsError(e)
      /\ TaskErrors(calls[k])' \subseteq failed'
      /\ calls[k].stage' = "error" => calls[k].error' \in failed'
      /\ Failing(calls[k]) => Failing(calls[k])'
      /\ failed' # {} => failed # {} \/ Failing(calls[k])'
  <2>1. TaskErrors(calls[k]) \subseteq failed /\ \A e \in failed : IsError(e)
    BY <1>1 DEF Inv, Recorded
  <2>2. CASE Smoothly(k)
    BY <2>1, <2>2 DEF Smoothly
  <2>3. CASE Fails(k)
    BY <2>1, <2>3 DEF Fails
  <2>4. CASE Reports(k)
    BY <2>1, <2>4 DEF Reports, Failing
  <2> QED
    BY <2>2, <2>3, <2>4 DEF CallStep
<1>6. Recorded'
  <2> SUFFICES ASSUME NEW j \in DOMAIN calls
               PROVE  /\ TaskErrors(calls'[j]) \subseteq failed'
                      /\ calls'[j].stage = "error" => calls'[j].error \in failed'
    BY <1>1, <1>5 DEF Recorded
  <2>1. CASE j = k
    BY <1>5, <2>1
  <2>2. CASE j # k
    BY <1>1, <1>5, <2>2 DEF Inv, Recorded
  <2> QED
    BY <2>1, <2>2
<1>7. Remembered'
  <2> SUFFICES ASSUME failed' # {}
               PROVE  \E j \in DOMAIN calls : Failing(calls'[j])
    BY <1>1 DEF Remembered
  <2>1. CASE Failing(calls[k])'
    BY <1>1, <2>1
  <2>2. CASE ~Failing(calls[k])'
    <3>1. PICK j \in DOMAIN calls : Failing(calls[j])
      BY <1>2, <1>5, <2>2 DEF Inv, Remembered
    <3>2. j # k
      BY <1>5, <2>2, <3>1
    <3> QED
      BY <1>1, <3>1, <3>2
  <2> QED
    BY <2>1, <2>2
<1>8. ErrorsAnswered'
  BY <1>1, <1>2 DEF ErrorsAnswered
<1> QED
  BY <1>3, <1>4, <1>6, <1>7, <1>8 DEF Inv
-----------------------------------------------------------------------------
(* The steps of the handler.                                               *)

\* An error ends the request once no call is under way.
LEMMA FailInv ==
    ASSUME Inv, NEW e, IsError(e), Fail(e), calls' = calls, \A k \in DOMAIN calls : Ended(calls[k])
    PROVE  Inv'
<1>1. pc' = "done" /\ failed' = failed \union {e} /\ response' = [NoResponse EXCEPT !.status = Status(e)]
  BY DEF Fail
<1>2. Shape' /\ Waiting' /\ Remembered'
  BY <1>1 DEF Inv, Shape, Waiting, Remembered
<1>3. Recorded'
  BY <1>1 DEF Inv, Recorded
<1>4. response'.status = Status(e) /\ response'.input = <<>> /\ response'.output = <<>>
  BY <1>1 DEF NoResponse
<1>5. ErrorsAnswered'
  <2>1. Status(e) \in PassedOn \union {500} /\ Status(e) # 200
    BY ErrorStatus
  <2>2. e \in failed' /\ failed' # {}
    BY <1>1
  <2> QED
    BY <1>4, <2>1, <2>2 DEF ErrorsAnswered
<1> QED
  BY <1>2, <1>3, <1>5 DEF Inv

\* The handler goes on; no call changes and nothing fails.
LEMMA GoesOnInv ==
    ASSUME Inv, pc # "done", Waiting', pc' # "done", UNCHANGED <<calls, failed>>
    PROVE  Inv'
<1>1. Shape' /\ Recorded' /\ Remembered'
  BY DEF Inv, Shape, Recorded, Remembered
<1>2. ErrorsAnswered'
  BY DEF ErrorsAnswered
<1> QED
  BY <1>1, <1>2 DEF Inv

\* A response is sent when nothing has failed.
LEMMA SucceedsInv ==
    ASSUME Inv, pc' = "done", UNCHANGED <<calls, failed>>, failed = {},
           \A k \in DOMAIN calls : Ended(calls[k]), response'.status = 200
    PROVE  Inv'
<1>1. Shape' /\ Recorded' /\ Remembered' /\ Waiting'
  BY DEF Inv, Shape, Recorded, Remembered, Waiting
<1>2. ErrorsAnswered'
  BY DEF ErrorsAnswered
<1> QED
  BY <1>1, <1>2 DEF Inv

\* A call that is not failing: it succeeded, or it has just been made.
LEMMA NothingFailed ==
    ASSUME Inv, pc # "done", \A k \in DOMAIN calls : calls[k].stage = "ok"
    PROVE  failed = {}
  BY DEF Inv, Remembered, Failing

LEMMA ValidateInv ==
    ASSUME Inv, Validate
    PROVE  Inv'
<1>1. pc = "validate" /\ calls' = calls /\ DOMAIN calls = {}
  BY DEF Validate, Inv, Waiting
<1>2. CASE Fail(Validation)
  BY <1>1, <1>2, FailInv, RequestErrors
<1>3. CASE pc' = "detectors" /\ failed' = failed
  <2>1. Waiting'
    BY <1>1, <1>3 DEF Waiting
  <2> QED
    BY <1>1, <1>3, <2>1, GoesOnInv
<1> QED
  BY <1>2, <1>3 DEF Validate

LEMMA ValidateDetectorsInv ==
    ASSUME Inv, ValidateDetectors
    PROVE  Inv'
<1>1. pc = "detectors" /\ calls' = calls /\ DOMAIN calls = {}
  BY DEF ValidateDetectors, Inv, Waiting
<1>2. ASSUME NEW e \in {Validation, NotFound}, Fail(e)
      PROVE  Inv'
  BY <1>1, <1>2, FailInv, RequestErrors
<1>3. CASE pc' \in {"input", "generate", "output"} /\ failed' = failed
  <2>1. Waiting'
    BY <1>1, <1>3 DEF Waiting
  <2> QED
    BY <1>1, <1>3, <2>1, GoesOnInv
<1>4. \A detectors, types : DetectorErrors(detectors, types) \subseteq {Validation, NotFound}
  BY DEF DetectorErrors
<1> QED
  BY <1>2, <1>3, <1>4 DEF ValidateDetectors

LEMMA InputDetectionInv ==
    ASSUME Inv, InputDetection
    PROVE  Inv'
<1>1. pc = "input" /\ DOMAIN calls = {}
  BY DEF InputDetection, Inv, Waiting
<1>2. CASE Fail(Validation) /\ calls' = calls
  BY <1>1, <1>2, FailInv, RequestErrors
<1>3. CASE /\ pc' = "await input" /\ UNCHANGED <<failed, response>>
           /\ calls' = [k \in {InputCall} |-> NewCall("contents", apply_masks(req.text, req.masks), req.input)]
  <2>1. PICK call : call = NewCall("contents", apply_masks(req.text, req.masks), req.input)
    OBVIOUS
  <2>2. IsCall(call) /\ call.stage \in {"chunk", "detect"} /\ TaskErrors(call) = {}
    BY <2>1, NewCallFacts
  <2>3. DOMAIN calls' = {InputCall} /\ calls'[InputCall] = call
    BY <1>3, <2>1
  <2>4. failed = {}
    BY <1>1 DEF Inv, Remembered
  <2>5. Shape'
    BY <2>2, <2>3 DEF Shape, InputCall
  <2>6. Waiting'
    BY <1>3, <2>3 DEF Waiting, InputCall
  <2>7. Recorded' /\ Remembered' /\ ErrorsAnswered'
    BY <1>3, <2>2, <2>3, <2>4 DEF Recorded, Remembered, ErrorsAnswered
  <2> QED
    BY <2>5, <2>6, <2>7 DEF Inv
<1> QED
  BY <1>2, <1>3 DEF InputDetection

LEMMA InputDoneInv ==
    ASSUME Inv, InputDone
    PROVE  Inv'
<1>1. pc = "await input" /\ DOMAIN calls = {InputCall} /\ calls' = calls /\ Ended(calls[InputCall])
  BY DEF InputDone, Inv, Waiting, Ended
<1>2. CASE calls[InputCall].stage = "error"
  <2>1. Fail(calls[InputCall].error) /\ IsError(calls[InputCall].error)
    BY <1>1, <1>2 DEF InputDone, Inv, Recorded
  <2> QED
    BY <1>1, <2>1, FailInv
<1>3. CASE calls[InputCall].stage # "error"
  <2>1. pc' \in {"tokenize", "generate"} /\ UNCHANGED <<calls, failed>>
    BY <1>3 DEF InputDone
  <2>2. Waiting'
    BY <1>1, <1>3, <2>1 DEF Waiting, Ended
  <2> QED
    BY <1>1, <2>1, <2>2, GoesOnInv
<1> QED
  BY <1>2, <1>3

LEMMA PanicInv ==
    ASSUME Inv, Panic
    PROVE  Inv'
<1>1. Waiting'
  BY DEF Panic, Inv, Waiting, Ended
<1> QED
  BY <1>1, GoesOnInv DEF Panic

LEMMA TokenizeInv ==
    ASSUME Inv, Tokenize
    PROVE  Inv'
<1>1. pc = "tokenize" /\ calls' = calls /\ \A k \in DOMAIN calls : calls[k].stage = "ok" /\ Ended(calls[k])
  BY DEF Tokenize, Inv, Waiting, Ended
<1>2. ASSUME NEW code, Fail(RequestFailed(code))
      PROVE  Inv'
  BY <1>1, <1>2, FailInv, RequestErrors
<1>3. CASE /\ pc' = "done" /\ failed' = failed
           /\ response' = [NoResponse EXCEPT !.status = 200, !.input = calls[InputCall].found,
                                             !.warnings = {"unsuitable input"}]
  <2>1. response'.status = 200
    BY <1>3 DEF NoResponse
  <2> QED
    BY <1>1, <1>3, <2>1, NothingFailed, SucceedsInv
<1> QED
  BY <1>2, <1>3 DEF Tokenize

LEMMA GenerateInv ==
    ASSUME Inv, Generate
    PROVE  Inv'
<1>1. pc = "generate" /\ calls' = calls /\ \A k \in DOMAIN calls : calls[k].stage = "ok" /\ Ended(calls[k])
  BY DEF Generate, Inv, Waiting, Ended
<1>2. ASSUME NEW code, Fail(RequestFailed(code))
      PROVE  Inv'
  BY <1>1, <1>2, FailInv, RequestErrors
<1>3. CASE pc' = "output" /\ failed' = failed
  <2>1. Waiting'
    BY <1>1, <1>3 DEF Waiting
  <2> QED
    BY <1>1, <1>3, <2>1, GoesOnInv
<1> QED
  BY <1>2, <1>3 DEF Generate

\* Some call that fails is the first of those that do: choices are numbered.
LEMMA FirstFailure ==
    ASSUME Shape, NEW k \in OutputCalls, calls[k].stage = "error"
    PROVE  FirstErrors(OutputCalls) # {}
<1> DEFINE places == {x[2] : x \in {y \in OutputCalls : calls[y].stage = "error"}}
<1>1. places \subseteq Nat /\ places # {}
  BY DEF Shape, OutputCalls
<1>2. PICK n \in places : \A m \in places : ~(<<m, n>> \in OpToRel(<, Nat))
  BY <1>1, NatLessThanWellFounded, WFMin
<1>3. \A m \in places : n <= m
  <2>1. ASSUME NEW m \in places, m < n
        PROVE  <<m, n>> \in OpToRel(<, Nat)
    BY <1>1, <2>1 DEF OpToRel
  <2>2. \A m \in places : m \in Nat /\ n \in Nat
    BY <1>1
  <2> HIDE DEF places
  <2>3. ASSUME NEW m \in places
        PROVE  n <= m
    <3>1. ~(m < n)
      BY <1>2, <2>1, Zenon
    <3> QED
      BY <2>2, <3>1
  <2> QED
    BY <2>3
<1>4. PICK x \in OutputCalls : calls[x].stage = "error" /\ x[2] = n
  OBVIOUS
<1>5. \A y \in OutputCalls : calls[y].stage = "error" => x[2] <= y[2]
  BY <1>3, <1>4
<1> QED
  BY <1>4, <1>5 DEF FirstErrors

LEMMA OutputDetectionInv ==
    ASSUME Inv, Numbered, OutputDetection
    PROVE  Inv'
<1>1. pc = "output" /\ pc' = "await output" /\ failed' = failed /\ \A k \in DOMAIN calls : calls[k].stage = "ok"
  BY DEF OutputDetection, Inv, Waiting
<1>2. PICK asked :
        /\ \A k \in asked : k[1] = "output" /\ k[2] \in DOMAIN Outputs
        /\ calls' = [k \in DOMAIN calls \union asked |->
                        IF k \in DOMAIN calls THEN calls[k]
                        ELSE NewCall(k[3], <<<<0, Outputs[k[2]].text>>>>, Group(k[3]))]
  BY DEF OutputDetection
<1>3. \A k \in asked : k[2] \in Nat
  BY <1>2 DEF Outputs, Numbered
<1>4. /\ DOMAIN calls' = DOMAIN calls \union asked
      /\ \A k \in DOMAIN calls : calls'[k] = calls[k]
      /\ \A k \in asked \ DOMAIN calls :
             /\ IsCall(calls'[k]) /\ calls'[k].stage \in {"chunk", "detect"}
             /\ TaskErrors(calls'[k]) = {}
  BY <1>2, NewCallFacts
<1>5. failed = {}
  BY <1>1, NothingFailed
<1>6. Shape'
  BY <1>2, <1>3, <1>4 DEF Inv, Shape
<1>7. Waiting'
  <2>1. ASSUME NEW k \in DOMAIN calls', k[1] = "input"
        PROVE  calls'[k].stage = "ok"
    <3>1. k \in DOMAIN calls
      BY <1>2, <1>4, <2>1
    <3> QED
      BY <1>1, <1>4, <3>1
  <2> QED
    BY <1>1, <2>1 DEF Waiting
<1>8. Recorded'
  <2> SUFFICES ASSUME NEW k \in DOMAIN calls'
               PROVE  TaskErrors(calls'[k]) \subseteq failed /\ calls'[k].stage # "error"
    BY <1>1, <1>5 DEF Recorded
  <2>1. CASE k \in DOMAIN calls
    BY <1>1, <1>4, <2>1 DEF Inv, Recorded
  <2>2. CASE k \notin DOMAIN calls
    BY <1>4, <2>2
  <2> QED
    BY <2>1, <2>2
<1>9. Remembered' /\ ErrorsAnswered'
  BY <1>1, <1>5 DEF Remembered, ErrorsAnswered
<1> QED
  BY <1>6, <1>7, <1>8, <1>9 DEF Inv

LEMMA OutputDoneInv ==
    ASSUME Inv, OutputDone
    PROVE  Inv'
<1>1. /\ pc = "await output" /\ calls' = calls
      /\ \A k \in OutputCalls : Ended(calls[k])
      /\ \A k \in DOMAIN calls : k[1] = "input" => calls[k].stage = "ok"
  BY DEF OutputDone, Inv, Waiting, Ended
<1>2. \A k \in DOMAIN calls : Ended(calls[k])
  BY <1>1 DEF Inv, Shape, OutputCalls, Ended
<1>3. CASE FirstErrors(OutputCalls) # {}
  <2>1. PICK e \in FirstErrors(OutputCalls) : Fail(e)
    BY <1>3 DEF OutputDone
  <2>2. PICK k \in OutputCalls : calls[k].stage = "error" /\ e = calls[k].error
    BY DEF FirstErrors
  <2>3. IsError(e)
    BY <2>2 DEF Inv, Recorded, OutputCalls
  <2> QED
    BY <1>1, <1>2, <2>1, <2>3, FailInv
<1>4. CASE FirstErrors(OutputCalls) = {}
  <2>1. \A k \in DOMAIN calls : ~Failing(calls[k])
    <3> SUFFICES ASSUME NEW k \in DOMAIN calls, calls[k].stage = "error" PROVE FALSE
      BY <1>2 DEF Failing, Ended
    <3>1. k \in OutputCalls
      BY <1>1 DEF Inv, Shape, OutputCalls
    <3> QED
      BY <1>4, <3>1, FirstFailure DEF Inv
  <2>2. failed = {}
    BY <1>1, <2>1 DEF Inv, Remembered
  <2>3. pc' = "done" /\ failed' = failed /\ response'.status = 200
    <3>1. PICK input, output, warnings :
            response' = [status |-> 200, input |-> input, output |-> output, warnings |-> warnings]
      BY <1>4, Zenon DEF OutputDone
    <3>2. pc' = "done" /\ failed' = failed
      BY <1>4 DEF OutputDone
    <3> QED
      BY <3>1, <3>2
  <2> QED
    BY <1>1, <1>2, <2>2, <2>3, SucceedsInv
<1> QED
  BY <1>3, <1>4
-----------------------------------------------------------------------------
LEMMA InitInv ==
    ASSUME Init
    PROVE  Inv /\ Numbered
  BY DEF Init, Inv, Shape, Waiting, Recorded, Remembered, ErrorsAnswered, Numbered

LEMMA NextNumbered ==
    ASSUME Numbered, [Next]_vars
    PROVE  Numbered'
<1>1. CASE choices' = choices
  BY <1>1 DEF Numbered
<1>2. CASE Generate
  BY <1>1, <1>2, ReplyAssumption DEF Generate, Numbered
<1>3. ASSUME Validate \/ ValidateDetectors \/ InputDetection \/ InputDone \/ Panic \/ Tokenize
             \/ OutputDetection \/ OutputDone \/ UNCHANGED vars
      PROVE  choices' = choices
  BY <1>3, Zenon DEF Validate, ValidateDetectors, InputDetection, InputDone, Panic, Tokenize,
                     OutputDetection, OutputDone, vars
<1>4. ASSUME NEW k, NEW d, ChunksDone(k) \/ ChunkReply(k, d) \/ ChunkFails(k, d)
                           \/ DetectorReply(k, d) \/ DetectorFails(k, d)
      PROVE  choices' = choices
  BY <1>4, Zenon DEF ChunksDone, ChunkReply, ChunkFails, DetectorReply, DetectorFails
<1> QED
  BY <1>1, <1>2, <1>3, <1>4, Zenon DEF Next

LEMMA NextInv ==
    ASSUME Inv, Numbered, [Next]_vars
    PROVE  Inv'
<1>1. CASE UNCHANGED vars
  <2>1. calls' = calls /\ failed' = failed /\ pc' = pc /\ response' = response
    BY <1>1 DEF vars
  <2>2. Shape' /\ Waiting'
    BY <2>1 DEF Inv, Shape, Waiting
  <2>4. ErrorsAnswered'
    BY <2>1 DEF Inv, ErrorsAnswered
  <2>3. Recorded' /\ Remembered'
    BY <2>1 DEF Inv, Recorded, Remembered
  <2> QED
    BY <2>2, <2>3, <2>4 DEF Inv
<1>2. ASSUME NEW k \in DOMAIN calls, ChunksDone(k)
      PROVE  Inv'
  BY <1>2, ChunksDoneStep, CallStepInv DEF Inv
<1>3. ASSUME NEW k \in DOMAIN calls, NEW d \in DOMAIN calls[k].detectors,
             ChunkReply(k, d) \/ ChunkFails(k, d) \/ DetectorReply(k, d) \/ DetectorFails(k, d)
      PROVE  Inv'
  <2>1. CallStep(k)
    BY <1>3, ChunkReplyStep, ChunkFailsStep, DetectorReplyStep, DetectorFailsStep DEF Inv
  <2> QED
    BY <2>1, CallStepInv
<1> QED
  BY <1>1, <1>2, <1>3, ValidateInv, ValidateDetectorsInv, InputDetectionInv, InputDoneInv,
     PanicInv, TokenizeInv, GenerateInv, OutputDetectionInv, OutputDoneInv DEF Next

\* However the chunkers and detectors that a handler asks concurrently answer or fail,
\* and whichever of them it hears of first, a request is answered with success exactly
\* when none of them failed, and otherwise with the status of one of the failures.
THEOREM ErrorsAlwaysAnswered == Spec => []ErrorsAnswered
<1>1. Init => Inv /\ Numbered
  BY InitInv
<1>2. Inv /\ Numbered /\ [Next]_vars => Inv' /\ Numbered'
  BY NextInv, NextNumbered
<1>3. Inv => ErrorsAnswered
  BY DEF Inv
<1> QED
  BY <1>1, <1>2, <1>3, PTL DEF Spec
-----------------------------------------------------------------------------
(* Sequences.                                                              *)

\* A set of numbers has a least element.
LEMMA Least ==
    ASSUME NEW B, B \subseteq Nat, B # {}
    PROVE  \E n \in B : \A m \in B : n <= m
<1>1. PICK n \in B : \A m \in B : ~(<<m, n>> \in OpToRel(<, Nat))
  BY NatLessThanWellFounded, WFMin
<1>2. ASSUME NEW m \in B
      PROVE  n <= m
  <2>1. m \in Nat /\ n \in Nat
    OBVIOUS
  <2>2. m < n => <<m, n>> \in OpToRel(<, Nat)
    BY <2>1 DEF OpToRel
  <2>3. ~(m < n)
    BY <1>1, <2>2, Zenon
  <2> QED
    BY <2>1, <2>3
<1> QED
  BY <1>2

\* f joins the first elements of s, one after the other.
Joins(f, s, n) == f = [i \in 1..n |-> IF i = 1 THEN s[i] ELSE f[i - 1] \o s[i]]

\* The joins of the first elements of a sequence of sequences exist.
LEMMA JoinsExists ==
    ASSUME NEW s, NEW n \in Nat
    PROVE  \E f : Joins(f, s, n)
<1> DEFINE Bad == {m \in Nat : ~\E f : Joins(f, s, m)}
<1>1. ASSUME Bad # {} PROVE FALSE
  <2>1. PICK m \in Bad : \A k \in Bad : m <= k
    <3>1. Bad \subseteq Nat
      OBVIOUS
    <3> HIDE DEF Bad
    <3> QED
      BY <1>1, <3>1, Least
  <2>2. m \in Nat /\ ~\E f : Joins(f, s, m)
    BY <2>1
  <2>3. CASE m = 0
    <3>1. Joins([i \in {} |-> 0], s, m)
      BY <2>3 DEF Joins
    <3> QED
      BY <2>2, <3>1
  <2>4. CASE m # 0
    <3>1. m - 1 \in Nat /\ ~(m <= m - 1)
      BY <2>2, <2>4
    <3>2. PICK g : Joins(g, s, m - 1)
      BY <2>1, <3>1
    <3> DEFINE f == [i \in 1..m |-> IF i < m THEN g[i] ELSE IF i = 1 THEN s[i] ELSE g[i - 1] \o s[i]]
    <3>3. ASSUME NEW i \in 1..m
          PROVE  f[i] = IF i = 1 THEN s[i] ELSE f[i - 1] \o s[i]
      <4>1. CASE i < m
        <5>1. i \in 1..(m - 1)
          BY <2>2, <4>1
        <5>2. f[i] = g[i] /\ (i # 1 => f[i - 1] = g[i - 1])
          BY <2>2, <4>1
        <5>3. g[i] = IF i = 1 THEN s[i] ELSE g[i - 1] \o s[i]
          BY <3>2, <5>1 DEF Joins
        <5> QED
          BY <5>2, <5>3
      <4>2. CASE ~(i < m)
        <5>1. i # 1 => f[i - 1] = g[i - 1]
          BY <2>2, <4>2
        <5> QED
          BY <4>2, <5>1
      <4> QED
        BY <4>1, <4>2
    <3>4. Joins(f, s, m)
      <4>1. f = [i \in 1..m |-> f[i]]
        OBVIOUS
      <4> HIDE DEF f
      <4> QED
        BY <3>3, <4>1 DEF Joins
    <3> QED
      BY <2>2, <3>4
  <2> QED
    BY <2>3, <2>4
<1> QED
  BY <1>1

\* FlattenSeq is the last of them.
LEMMA FlattenJoins ==
    ASSUME NEW s, NEW n \in Nat, n > 0, Len(s) = n
    PROVE  \E g : Joins(g, s, n) /\ FlattenSeq(s) = g[n]
<1>1. \E f : Joins(f, s, n)
  BY JoinsExists
<1> DEFINE R(g) == g = [i \in 1..n |-> IF i = 1 THEN s[i] ELSE g[i-1] \o s[i]]
<1>2. \E f : R(f)
  BY <1>1 DEF Joins
<1>3. R(CHOOSE g : R(g))
  BY <1>2, Zenon
<1>4. FlattenSeq(s) = (CHOOSE g : R(g))[n]
  BY DEF FlattenSeq
<1> QED
  BY <1>3, <1>4 DEF Joins

\* What holds of the first element, and of longer and longer joins, holds of the whole.
LEMMA FlattenInduct ==
    ASSUME NEW s, NEW n \in Nat, n > 0, Len(s) = n, NEW G, s[1] \in G[1],
           \A m \in 2..n : \A a \in G[m - 1] : a \o s[m] \in G[m]
    PROVE  FlattenSeq(s) \in G[n]
<1>1. PICK g : Joins(g, s, n) /\ FlattenSeq(s) = g[n]
  BY FlattenJoins
<1> DEFINE Bad == {m \in 1..n : g[m] \notin G[m]}
<1>2. Bad = {}
  <2> SUFFICES ASSUME Bad # {} PROVE FALSE
    OBVIOUS
  <2>1. Bad \subseteq Nat
    OBVIOUS
  <2>2. PICK m \in Bad : \A k \in Bad : m <= k
    <3> HIDE DEF Bad
    <3> QED
      BY <2>1, Least
  <2>3. m \in 1..n /\ g[m] \notin G[m]
    BY <2>2
  <2>4. g[m] = IF m = 1 THEN s[m] ELSE g[m - 1] \o s[m]
    BY <1>1, <2>3 DEF Joins
  <2>5. CASE m = 1
    BY <2>3, <2>4, <2>5
  <2>6. CASE m # 1
    <3>1. m \in 2..n /\ m - 1 \in 1..n /\ ~(m <= m - 1)
      BY <2>3, <2>6
    <3>2. g[m - 1] \in G[m - 1]
      BY <2>2, <3>1
    <3>3. g[m - 1] \o s[m] \in G[m]
      BY <3>1, <3>2
    <3> QED
      BY <2>3, <2>4, <2>6, <3>3
  <2> QED
    BY <2>5, <2>6
<1>3. n \in 1..n
  OBVIOUS
<1> QED
  BY <1>1, <1>2, <1>3

\* Nothing, flattened.
LEMMA FlattenNothing ==
    ASSUME NEW s, Len(s) = 0
    PROVE  FlattenSeq(s) = s
  BY Zenon DEF FlattenSeq

\* What two sequences joined have.
LEMMA Joined ==
    ASSUME NEW S, NEW s \in Seq(S), NEW t \in Seq(S)
    PROVE  /\ s \o t \in Seq(S) /\ Len(s) \in Nat /\ Len(t) \in Nat /\ Len(s \o t) = Len(s) + Len(t)
           /\ \A i \in 1..Len(s) : (s \o t)[i] = s[i]
           /\ \A i \in 1..Len(s \o t) : i > Len(s) => i - Len(s) \in 1..Len(t) /\ (s \o t)[i] = t[i - Len(s)]
           /\ \A i \in 1..Len(t) : Len(s) + i \in 1..Len(s \o t) /\ (s \o t)[Len(s) + i] = t[i]
  OBVIOUS

\* s is the f[x] for x in X, each once, in some order.
Numbering(from, s, X, f) ==
    /\ from \in [1..Len(s) -> X]
    /\ \A n \in 1..Len(s) : s[n] = f[from[n]]
    /\ \A m, n \in 1..Len(s) : from[m] = from[n] => m = n
    /\ \A x \in X : \E n \in 1..Len(s) : from[n] = x

Lists(s, X, f) == s \in Seq(Range(f)) /\ X \subseteq DOMAIN f /\ \E from : Numbering(from, s, X, f)

\* The empty list lists nothing.
LEMMA ListsNothing ==
    ASSUME NEW f
    PROVE  Lists(<<>>, {}, f)
<1>1. <<>> \in Seq(Range(f)) /\ Len(<<>>) = 0 /\ 1..0 = {}
  OBVIOUS
<1>2. Numbering([n \in {} |-> n], <<>>, {}, f)
  BY <1>1 DEF Numbering
<1> QED
  BY <1>1, <1>2 DEF Lists

\* A list of one.
LEMMA ListsOne ==
    ASSUME NEW f, NEW x \in DOMAIN f
    PROVE  Lists(<<f[x]>>, {x}, f)
<1>1. f[x] \in Range(f)
  BY DEF Range
<1>2. PICK s : s = <<f[x]>>
  OBVIOUS
<1>3. s \in Seq(Range(f)) /\ Len(s) = 1 /\ s[1] = f[x] /\ 1..1 = {1}
  BY <1>1, <1>2
<1>4. PICK from : from = [n \in 1..1 |-> x]
  OBVIOUS
<1>5. Numbering(from, s, {x}, f)
  BY <1>3, <1>4 DEF Numbering
<1> QED
  BY <1>2, <1>3, <1>5 DEF Lists

\* Lists of disjoint sets, joined.
LEMMA ListsJoined ==
    ASSUME NEW f, NEW X, NEW Y, NEW s, NEW t, Lists(s, X, f), Lists(t, Y, f), X \intersect Y = {}
    PROVE  Lists(s \o t, X \union Y, f)
<1>1. PICK S : S = Range(f)
  OBVIOUS
<1>2. s \in Seq(S) /\ t \in Seq(S)
  BY <1>1 DEF Lists
<1>3. PICK u : u = s \o t
  OBVIOUS
<1>4. /\ u \in Seq(S) /\ Len(s) \in Nat /\ Len(t) \in Nat /\ Len(u) = Len(s) + Len(t)
      /\ \A i \in 1..Len(s) : u[i] = s[i]
      /\ \A i \in 1..Len(u) : i > Len(s) => i - Len(s) \in 1..Len(t) /\ u[i] = t[i - Len(s)]
      /\ \A i \in 1..Len(t) : Len(s) + i \in 1..Len(u) /\ u[Len(s) + i] = t[i]
  BY <1>2, <1>3, Joined
<1>5. PICK a, b : Numbering(a, s, X, f) /\ Numbering(b, t, Y, f)
  BY DEF Lists
<1>6. PICK k \in Nat, l \in Nat : k = Len(s) /\ l = Len(t)
  BY <1>4
<1>7. PICK from : from = [i \in 1..(k + l) |-> IF i <= k THEN a[i] ELSE b[i - k]]
  OBVIOUS
<1>8. ASSUME NEW i \in 1..(k + l)
      PROVE  /\ i <= k => i \in 1..k /\ from[i] = a[i] /\ a[i] \in X /\ u[i] = s[i]
             /\ ~(i <= k) => i - k \in 1..l /\ from[i] = b[i - k] /\ b[i - k] \in Y /\ u[i] = t[i - k]
  <2>1. a \in [1..k -> X] /\ b \in [1..l -> Y]
    BY <1>5, <1>6 DEF Numbering
  <2>2. CASE i <= k
    BY <1>4, <1>6, <1>7, <2>1, <2>2
  <2>3. CASE ~(i <= k)
    BY <1>4, <1>6, <1>7, <2>1, <2>3
  <2> QED
    BY <2>2, <2>3
<1>9. ASSUME NEW i \in 1..(k + l)
      PROVE  from[i] \in X \union Y /\ u[i] = f[from[i]]
  <2>1. (\A n \in 1..k : s[n] = f[a[n]]) /\ \A n \in 1..l : t[n] = f[b[n]]
    BY <1>5, <1>6 DEF Numbering
  <2> QED
    BY <1>8, <2>1
<1>10. ASSUME NEW i \in 1..(k + l), NEW j \in 1..(k + l), from[i] = from[j]
       PROVE  i = j
  <2>1. CASE i <= k /\ j <= k
    BY <1>5, <1>6, <1>8, <1>10, <2>1 DEF Numbering
  <2>2. CASE ~(i <= k) /\ ~(j <= k)
    <3>1. i - k = j - k
      BY <1>5, <1>6, <1>8, <1>10, <2>2 DEF Numbering
    <3> QED
      BY <3>1
  <2>3. CASE (i <= k) # (j <= k)
    BY <1>8, <1>10, <2>3
  <2> QED
    BY <2>1, <2>2, <2>3
<1>11. ASSUME NEW x \in X \union Y
       PROVE  \E i \in 1..(k + l) : from[i] = x
  <2>1. CASE x \in X
    <3>1. PICK i \in 1..k : a[i] = x
      BY <1>5, <1>6, <2>1 DEF Numbering
    <3>2. i \in 1..(k + l) /\ i <= k
      OBVIOUS
    <3> QED
      BY <1>8, <3>1, <3>2
  <2>2. CASE x \in Y
    <3>1. PICK i \in 1..l : b[i] = x
      BY <1>5, <1>6, <2>2 DEF Numbering
    <3>2. k + i \in 1..(k + l) /\ ~(k + i <= k) /\ (k + i) - k = i
      OBVIOUS
    <3> QED
      BY <1>8, <3>1, <3>2
  <2> QED
    BY <2>1, <2>2
<1>12. from \in [1..(k + l) -> X \union Y]
  BY <1>7, <1>9
<1>13. Numbering(from, u, X \union Y, f)
  BY <1>4, <1>6, <1>9, <1>10, <1>11, <1>12 DEF Numbering
<1>14. X \union Y \subseteq DOMAIN f
  BY DEF Lists
<1> QED
  BY <1>1, <1>3, <1>4, <1>13, <1>14 DEF Lists

\* Lists of disjoint sets, flattened.
LEMMA ListsFlattened ==
    ASSUME NEW f, NEW n \in Nat, NEW s, s = [i \in 1..n |-> s[i]], NEW part,
           \A i \in 1..n : Lists(s[i], part[i], f),
           \A i, j \in 1..n : i # j => part[i] \intersect part[j] = {}
    PROVE  Lists(FlattenSeq(s), UNION {part[i] : i \in 1..n}, f)
<1>1. Len(s) = n
  OBVIOUS
<1>2. CASE n = 0
  <2>1. s = <<>> /\ UNION {part[i] : i \in 1..n} = {}
    BY <1>2
  <2> QED
    BY <1>1, <1>2, <2>1, FlattenNothing, ListsNothing
<1>3. CASE n > 0
  <2> DEFINE upto(m) == UNION {part[i] : i \in 1..m}
             G == [m \in 1..n |-> {a \in Seq(Range(f)) : Lists(a, upto(m), f)}]
  <2>1. s[1] \in G[1]
    <3>1. 1 \in 1..n /\ upto(1) = part[1]
      BY <1>3
    <3>2. Lists(s[1], upto(1), f)
      BY <3>1
    <3> HIDE DEF upto
    <3> QED
      BY <3>1, <3>2 DEF Lists
  <2>2. ASSUME NEW m \in 2..n, NEW a \in G[m - 1]
        PROVE  a \o s[m] \in G[m]
    <3>1. m - 1 \in 1..n /\ m \in 1..n
      OBVIOUS
    <3>2. Lists(a, upto(m - 1), f)
      BY <2>2, <3>1
    <3>3. upto(m - 1) \intersect part[m] = {} /\ upto(m - 1) \union part[m] = upto(m)
      <4>1. \A i \in 1..m : i = m \/ i \in 1..(m - 1)
        OBVIOUS
      <4>2. \A i \in 1..(m - 1) : i \in 1..n /\ i # m /\ i \in 1..m
        OBVIOUS
      <4> QED
        BY <3>1, <4>1, <4>2
    <3> HIDE DEF upto
    <3>4. Lists(a \o s[m], upto(m), f)
      <4>1. Lists(s[m], part[m], f)
        BY <3>1
      <4>2. Lists(a \o s[m], upto(m - 1) \union part[m], f)
        BY <3>2, <3>3, <4>1, ListsJoined
      <4> QED
        BY <3>3, <4>2
    <3> QED
      BY <3>1, <3>4 DEF Lists
  <2>3. FlattenSeq(s) \in G[n]
    <3> HIDE DEF G
    <3> QED
      BY <1>1, <1>3, <2>1, <2>2, FlattenInduct
  <2>4. n \in 1..n
    BY <1>3
  <2> QED
    BY <2>3, <2>4
<1> QED
  BY <1>2, <1>3

\* Those of a list that are in a set, in order.
LEMMA ListsKept ==
    ASSUME NEW f, NEW X, NEW s, Lists(s, X, f), NEW good
    PROVE  Lists(FlattenSeq([i \in DOMAIN s |-> IF s[i] \in good THEN <<s[i]>> ELSE <<>>]),
                 {x \in X : f[x] \in good}, f)
<1>1. PICK from : Numbering(from, s, X, f)
  BY DEF Lists
<1>2. PICK n \in Nat : n = Len(s) /\ DOMAIN s = 1..n
  BY DEF Lists
<1>3. PICK u : u = [i \in 1..n |-> IF s[i] \in good THEN <<s[i]>> ELSE <<>>]
  OBVIOUS
<1>4. PICK part : part = [i \in 1..n |-> IF s[i] \in good THEN {from[i]} ELSE {}]
  OBVIOUS
<1>5. u = [i \in 1..n |-> u[i]]
  BY <1>3
<1>6. ASSUME NEW i \in 1..n
      PROVE  from[i] \in X /\ from[i] \in DOMAIN f /\ s[i] = f[from[i]]
  BY <1>1, <1>2 DEF Numbering, Lists
<1>7. ASSUME NEW i \in 1..n
      PROVE  Lists(u[i], part[i], f)
  <2>1. CASE s[i] \in good
    <3>1. u[i] = <<f[from[i]]>> /\ part[i] = {from[i]}
      BY <1>3, <1>4, <1>6, <2>1
    <3> QED
      BY <1>6, <3>1, ListsOne
  <2>2. CASE s[i] \notin good
    <3>1. u[i] = <<>> /\ part[i] = {}
      BY <1>3, <1>4, <2>2
    <3> QED
      BY <3>1, ListsNothing
  <2> QED
    BY <2>1, <2>2
<1>8. ASSUME NEW i \in 1..n, NEW j \in 1..n, i # j
      PROVE  part[i] \intersect part[j] = {}
  <2>1. from[i] # from[j]
    BY <1>1, <1>2, <1>8 DEF Numbering
  <2> QED
    BY <1>4, <2>1
<1>9. UNION {part[i] : i \in 1..n} = {x \in X : f[x] \in good}
  <2>1. ASSUME NEW x \in X, f[x] \in good
        PROVE  \E i \in 1..n : x \in part[i]
    <3>1. PICK i \in 1..n : from[i] = x
      BY <1>1, <1>2 DEF Numbering
    <3>2. s[i] \in good
      BY <1>6, <2>1, <3>1
    <3> QED
      BY <1>4, <3>1, <3>2
  <2>2. ASSUME NEW i \in 1..n, NEW x \in part[i]
        PROVE  x \in X /\ f[x] \in good
    BY <1>4, <1>6, <2>2
  <2> QED
    BY <2>1, <2>2
<1>10. Lists(FlattenSeq(u), UNION {part[i] : i \in 1..n}, f)
  BY <1>5, <1>7, <1>8, ListsFlattened
<1> QED
  BY <1>2, <1>3, <1>9, <1>10

\* A list of other things that correspond to those of s.
LEMMA ListsMoved ==
    ASSUME NEW f, NEW X, NEW s, Lists(s, X, f), NEW g, NEW phi, \A x \in X : phi[x] \in DOMAIN g,
           \A x, y \in X : phi[x] = phi[y] => x = y,
           NEW t, t = [i \in DOMAIN s |-> t[i]],
           \A i \in DOMAIN s : \A x \in X : s[i] = f[x] => t[i] = g[phi[x]]
    PROVE  Lists(t, {phi[x] : x \in X}, g)
<1>1. PICK from : Numbering(from, s, X, f)
  BY DEF Lists
<1>2. PICK n \in Nat : n = Len(s) /\ DOMAIN s = 1..n
  BY DEF Lists
<1>3. t = [i \in 1..n |-> t[i]] /\ Len(t) = n
  BY <1>2
<1>4. ASSUME NEW i \in 1..n
      PROVE  from[i] \in X /\ t[i] = g[phi[from[i]]] /\ phi[from[i]] \in DOMAIN g
  BY <1>1, <1>2 DEF Numbering
<1>5. PICK h : h = [i \in 1..n |-> phi[from[i]]]
  OBVIOUS
<1>6. PICK Y : Y = {phi[x] : x \in X}
  OBVIOUS
<1>7. t \in Seq(Range(g))
  <2>1. \A i \in 1..n : t[i] \in Range(g)
    BY <1>4 DEF Range
  <2> QED
    BY <1>3, <2>1
<1>8. h \in [1..n -> Y] /\ \A i \in 1..n : t[i] = g[h[i]]
  BY <1>4, <1>5, <1>6
<1>9. ASSUME NEW i \in 1..n, NEW j \in 1..n, h[i] = h[j]
      PROVE  i = j
  <2>1. from[i] = from[j]
    BY <1>4, <1>5, <1>9
  <2> QED
    BY <1>1, <1>2, <2>1 DEF Numbering
<1>10. ASSUME NEW y \in Y
       PROVE  \E i \in 1..n : h[i] = y
  <2>1. PICK x \in X : y = phi[x]
    BY <1>6
  <2>2. PICK i \in 1..n : from[i] = x
    BY <1>1, <1>2 DEF Numbering
  <2> QED
    BY <1>5, <2>1, <2>2
<1>11. Numbering(h, t, Y, g)
  BY <1>3, <1>8, <1>9, <1>10 DEF Numbering
<1>12. Y \subseteq DOMAIN g
  BY <1>6
<1> QED
  BY <1>6, <1>7, <1>11, <1>12 DEF Lists

\* t has the elements of s in the order h.
Permutes(h, s, t, n) ==
    /\ n = Len(s) /\ h \in [1..n -> 1..n]
    /\ \A i, j \in 1..n : h[i] = h[j] => i = j
    /\ \A i \in 1..n : \E j \in 1..n : h[j] = i
    /\ t = [i \in 1..n |-> t[i]]
    /\ \A i \in 1..n : t[i] = s[h[i]]

\* A list in another order lists the same.
LEMMA ListsPermuted ==
    ASSUME NEW f, NEW X, NEW s, Lists(s, X, f), NEW n \in Nat, NEW h, NEW t, Permutes(h, s, t, n)
    PROVE  Lists(t, X, f)
<1>1. /\ n = Len(s) /\ h \in [1..n -> 1..n]
      /\ \A i, j \in 1..n : h[i] = h[j] => i = j
      /\ \A i \in 1..n : \E j \in 1..n : h[j] = i
      /\ t = [i \in 1..n |-> t[i]]
      /\ \A i \in 1..n : t[i] = s[h[i]]
  BY DEF Permutes
<1>2. PICK from : Numbering(from, s, X, f)
  BY <1>1 DEF Lists
<1>3. s \in Seq(Range(f)) /\ X \subseteq DOMAIN f
  BY <1>1 DEF Lists
<1>4. t \in Seq(Range(f)) /\ Len(t) = n
  BY <1>1, <1>3
<1>5. PICK g : g = [i \in 1..n |-> from[h[i]]]
  BY <1>1
<1>6. /\ from \in [1..n -> X] /\ (\A i \in 1..n : s[i] = f[from[i]])
      /\ (\A i, j \in 1..n : from[i] = from[j] => i = j) /\ (\A x \in X : \E i \in 1..n : from[i] = x)
  BY <1>1, <1>2 DEF Numbering
<1>7. g \in [1..n -> X] /\ \A i \in 1..n : t[i] = f[g[i]]
  BY <1>1, <1>5, <1>6
<1>8. ASSUME NEW i \in 1..n, NEW j \in 1..n, g[i] = g[j]
      PROVE  i = j
  <2>1. h[i] \in 1..n /\ h[j] \in 1..n /\ from[h[i]] = from[h[j]]
    BY <1>1, <1>5, <1>8
  <2>2. h[i] = h[j]
    BY <1>1, <1>6, <2>1
  <2> QED
    BY <1>1, <2>2
<1>9. ASSUME NEW x \in X
      PROVE  \E i \in 1..n : g[i] = x
  <2>1. PICK j \in 1..n : from[j] = x
    BY <1>1, <1>6
  <2>2. PICK i \in 1..n : h[i] = j
    BY <1>1
  <2> QED
    BY <1>1, <1>5, <2>1, <2>2
<1>10. Numbering(g, t, X, f)
  BY <1>1, <1>4, <1>7, <1>8, <1>9 DEF Numbering
<1> QED
  BY <1>1, <1>3, <1>4, <1>10 DEF Lists

\* A one-to-one map of a list's positions reaches all of them.
LEMMA InjectsOnto ==
    ASSUME NEW n \in Nat, NEW h \in [1..n -> 1..n], \A i, j \in 1..n : h[i] = h[j] => i = j
    PROVE  \A i \in 1..n : \E j \in 1..n : h[j] = i
<1>1. IsFiniteSet(1..n)
  BY FS_Interval
<1>2. h \in Injection(1..n, 1..n)
  BY DEF Injection, IsInjective
<1>3. h \in Surjection(1..n, 1..n)
  BY <1>1, <1>2, FS_Injection
<1> QED
  BY <1>3 DEF Surjection
-----------------------------------------------------------------------------
(* The sort.                                                               *)

Before(start, i, j) == start[i] < start[j] \/ (start[i] = start[j] /\ i < j)

Sorts(h, start, n) == h \in [1..n -> 1..n] /\ \A i, j \in 1..n : i < j => Before(start, h[i], h[j])

\* One more element has a place among those sorted so far.
LEMMA SortsMore ==
    ASSUME NEW n \in Nat, n > 0, NEW start \in [1..n -> Int], NEW h, Sorts(h, start, n - 1)
    PROVE  \E g : Sorts(g, start, n)
<1> DEFINE after == {i \in 1..n : i = n \/ Before(start, n, h[i])}
<1>1. n \in after /\ after \subseteq Nat
  OBVIOUS
<1>2. PICK k \in after : \A i \in after : k <= i
  <2> HIDE DEF after
  <2> QED
    BY <1>1, Least
<1>3. k \in 1..n /\ (k # n => Before(start, n, h[k])) /\ \A i \in 1..n : i < k => ~Before(start, n, h[i])
  BY <1>2
<1>4. PICK g : g = [i \in 1..n |-> IF i < k THEN h[i] ELSE IF i = k THEN n ELSE h[i - 1]]
  OBVIOUS
<1> HIDE DEF after
<1>5. /\ \A i \in 1..(n - 1) : h[i] \in 1..(n - 1) /\ h[i] \in 1..n /\ h[i] # n /\ start[h[i]] \in Int
      /\ start[n] \in Int /\ n \in 1..n
  <2>1. start[n] \in Int /\ n \in 1..n
    OBVIOUS
  <2>2. h \in [1..(n - 1) -> 1..(n - 1)]
    BY DEF Sorts
  <2>3. \A i \in 1..(n - 1) : i \in 1..n /\ i # n /\ start[i] \in Int
    OBVIOUS
  <2> QED
    BY <2>1, <2>2, <2>3
<1>6. \A i \in 1..n : g[i] \in 1..n
  BY <1>3, <1>4, <1>5
<1>7. ASSUME NEW i \in 1..(n - 1), i < k PROVE Before(start, h[i], n)
  BY <1>3, <1>5, <1>7 DEF Before
<1>8. ASSUME NEW i \in 1..(n - 1), k <= i PROVE Before(start, n, h[i])
  <2>1. k # n /\ k \in 1..(n - 1) /\ Before(start, n, h[k])
    BY <1>3, <1>8
  <2>2. CASE i = k
    BY <2>1, <2>2
  <2>3. CASE i # k
    <3>1. Before(start, h[k], h[i])
      BY <1>8, <2>1, <2>3 DEF Sorts
    <3> QED
      BY <1>5, <2>1, <3>1 DEF Before
  <2> QED
    BY <2>2, <2>3
<1>9. ASSUME NEW i \in 1..n, NEW j \in 1..n, i < j
      PROVE  Before(start, g[i], g[j])
  <2>1. CASE j < k
    <3>1. g[i] = h[i] /\ g[j] = h[j] /\ i \in 1..(n - 1) /\ j \in 1..(n - 1)
      BY <1>3, <1>4, <1>9, <2>1
    <3> QED
      BY <1>9, <3>1 DEF Sorts
  <2>2. CASE j = k
    <3>1. g[i] = h[i] /\ g[j] = n /\ i \in 1..(n - 1) /\ i < k
      BY <1>3, <1>4, <1>9, <2>2
    <3> QED
      BY <1>7, <3>1
  <2>3. CASE j > k
    <3>1. g[j] = h[j - 1] /\ j - 1 \in 1..(n - 1) /\ k <= j - 1
      BY <1>3, <1>4, <1>9, <2>3
    <3>2. CASE i < k
      <4>1. g[i] = h[i] /\ i \in 1..(n - 1) /\ i < j - 1
        BY <1>3, <1>4, <1>9, <2>3, <3>2
      <4> QED
        BY <3>1, <4>1 DEF Sorts
    <3>3. CASE i = k
      <4>1. g[i] = n
        BY <1>4, <3>3
      <4> QED
        BY <1>8, <3>1, <4>1
    <3>4. CASE i > k
      <4>1. g[i] = h[i - 1] /\ i - 1 \in 1..(n - 1) /\ i - 1 < j - 1
        BY <1>3, <1>4, <1>9, <3>4
      <4> QED
        BY <3>1, <4>1 DEF Sorts
    <3> QED
      BY <1>3, <3>2, <3>3, <3>4
  <2> QED
    BY <1>3, <2>1, <2>2, <2>3
<1>10. g \in [1..n -> 1..n]
  BY <1>4, <1>6
<1>11. Sorts(g, start, n)
  BY <1>9, <1>10 DEF Sorts
<1> QED
  BY <1>11

\* Every list can be sorted: the order that SortedByStart chooses exists.
LEMMA SortExists ==
    ASSUME NEW n \in Nat, NEW start \in [1..n -> Int]
    PROVE  \E h : Sorts(h, start, n)
<1> DEFINE Bad == {m \in 0..n : ~\E h : Sorts(h, start, m)}
<1>1. Bad = {}
  <2> SUFFICES ASSUME Bad # {} PROVE FALSE
    OBVIOUS
  <2>1. Bad \subseteq Nat
    OBVIOUS
  <2>2. PICK m \in Bad : \A k \in Bad : m <= k
    <3> HIDE DEF Bad
    <3> QED
      BY <2>1, Least
  <2>3. m \in 0..n /\ ~\E h : Sorts(h, start, m)
    BY <2>2
  <2>4. CASE m = 0
    <3>1. Sorts([i \in {} |-> i], start, m)
      BY <2>4 DEF Sorts
    <3> QED
      BY <2>3, <3>1
  <2>5. CASE m # 0
    <3>1. m - 1 \in 0..n /\ ~(m <= m - 1) /\ m \in Nat /\ m > 0
      BY <2>3, <2>5
    <3>2. PICK h : Sorts(h, start, m - 1)
      BY <2>2, <3>1
    <3>3. PICK part : part = [i \in 1..m |-> start[i]]
      OBVIOUS
    <3>4. part \in [1..m -> Int] /\ \A i \in 1..m : part[i] = start[i]
      BY <2>3, <3>3
    <3>5. Sorts(h, part, m - 1)
      <4>1. \A i \in 1..(m - 1) : i \in 1..m
        BY <3>1
      <4>2. h \in [1..(m - 1) -> 1..(m - 1)]
        BY <3>2, Zenon DEF Sorts
      <4>3. \A i \in 1..(m - 1) : part[h[i]] = start[h[i]]
        BY <3>4, <4>1, <4>2
      <4>4. ASSUME NEW i \in 1..(m - 1), NEW j \in 1..(m - 1), i < j
            PROVE  Before(part, h[i], h[j])
        <5>1. Before(start, h[i], h[j])
          BY <3>2, <4>4, Zenon DEF Sorts
        <5> QED
          BY <4>3, <5>1 DEF Before
      <4> QED
        BY <4>2, <4>4, Zenon DEF Sorts
    <3>6. PICK g : Sorts(g, part, m)
      BY <3>1, <3>4, <3>5, SortsMore
    <3>7. Sorts(g, start, m)
      <4>1. g \in [1..m -> 1..m]
        BY <3>6 DEF Sorts
      <4>2. \A i \in 1..m : part[g[i]] = start[g[i]]
        BY <3>4, <4>1
      <4>3. ASSUME NEW i \in 1..m, NEW j \in 1..m, i < j
            PROVE  Before(start, g[i], g[j])
        <5>1. Before(part, g[i], g[j])
          BY <3>6, <4>3 DEF Sorts
        <5> QED
          BY <4>2, <5>1 DEF Before
      <4> QED
        BY <4>1, <4>3 DEF Sorts
    <3> QED
      BY <2>3, <3>7
  <2> QED
    BY <2>4, <2>5
<1>2. n \in 0..n
  OBVIOUS
<1> QED
  BY <1>1, <1>2

\* The sort keeps what is in the list, and orders it.
LEMMA ListsSorted ==
    ASSUME NEW f, NEW X, NEW s, Lists(s, X, f), \A x \in DOMAIN f : f[x].start \in Int
    PROVE  /\ Lists(SortedByStart(s), X, f)
           /\ \A i, j \in DOMAIN SortedByStart(s) : i < j => SortedByStart(s)[i].start <= SortedByStart(s)[j].start
<1>1. PICK n \in Nat : n = Len(s) /\ DOMAIN s = 1..n
  BY DEF Lists
<1>2. PICK start : start = [i \in 1..n |-> s[i].start]
  OBVIOUS
<1>3. start \in [1..n -> Int]
  <2>1. \A i \in 1..n : s[i] \in Range(f)
    BY <1>1 DEF Lists
  <2>2. \A i \in 1..n : s[i].start \in Int
    BY <2>1 DEF Range
  <2> QED
    BY <1>2, <2>2
<1> DEFINE Order(h) == \A i, j \in DOMAIN s : i < j =>
                s[h[i]].start < s[h[j]].start \/ (s[h[i]].start = s[h[j]].start /\ h[i] < h[j])
           order == CHOOSE h \in [DOMAIN s -> DOMAIN s] : Order(h)
<1>4. SortedByStart(s) = [i \in DOMAIN s |-> s[order[i]]]
  BY Zenon DEF SortedByStart
<1>5. Sorts(order, start, n)
  <2>1. ASSUME NEW h \in [1..n -> 1..n]
        PROVE  Order(h) <=> Sorts(h, start, n)
    <3>1. \A i \in 1..n : h[i] \in 1..n /\ start[h[i]] = s[h[i]].start
      BY <1>2
    <3>2. ASSUME NEW i \in 1..n, NEW j \in 1..n
          PROVE  Before(start, h[i], h[j]) <=>
                    s[h[i]].start < s[h[j]].start \/ (s[h[i]].start = s[h[j]].start /\ h[i] < h[j])
      BY <3>1, Zenon DEF Before
    <3> QED
      BY <1>1, <3>2, Zenon DEF Sorts
  <2>2. \E h \in [1..n -> 1..n] : Order(h)
    <3>1. PICK h : Sorts(h, start, n)
      BY <1>3, SortExists
    <3>2. h \in [1..n -> 1..n]
      BY <3>1 DEF Sorts
    <3> HIDE DEF Order
    <3> QED
      BY <2>1, <3>1, <3>2
  <2>3. \E h \in [DOMAIN s -> DOMAIN s] : Order(h)
    <3> HIDE DEF Order
    <3> QED
      BY <1>1, <2>2
  <2> HIDE DEF Order
  <2>4. order \in [DOMAIN s -> DOMAIN s] /\ Order(order)
    BY <2>3, Zenon
  <2> HIDE DEF order
  <2> QED
    BY <1>1, <2>1, <2>4
<1> HIDE DEF order
<1>6. SortedByStart(s) = [i \in 1..n |-> s[order[i]]]
  BY <1>1, <1>4
<1>7. order \in [1..n -> 1..n] /\ \A i, j \in 1..n : order[i] = order[j] => i = j
  <2>1. order \in [1..n -> 1..n]
    BY <1>5 DEF Sorts
  <2>2. ASSUME NEW i \in 1..n, NEW j \in 1..n, i < j
        PROVE  order[i] # order[j]
    <3>1. Before(start, order[i], order[j])
      BY <1>5, <2>2 DEF Sorts
    <3>2. order[i] \in 1..n /\ start[order[i]] \in Int
      BY <1>3, <2>1
    <3> QED
      BY <3>1, <3>2 DEF Before
  <2>3. \A i, j \in 1..n : i < j \/ j < i \/ i = j
    OBVIOUS
  <2> QED
    BY <2>1, <2>2, <2>3
<1>8. \A i \in 1..n : \E j \in 1..n : order[j] = i
  BY <1>7, InjectsOnto
<1>9. Lists(SortedByStart(s), X, f)
  <2>1. PICK h, t : h = order /\ t = SortedByStart(s)
    OBVIOUS
  <2>2. n = Len(s) /\ h \in [1..n -> 1..n]
    BY <1>1, <1>7, <2>1
  <2>3. \A i, j \in 1..n : h[i] = h[j] => i = j
    BY <1>7, <2>1
  <2>4. \A i \in 1..n : \E j \in 1..n : h[j] = i
    BY <1>8, <2>1
  <2>5. t = [i \in 1..n |-> t[i]] /\ \A i \in 1..n : t[i] = s[h[i]]
    BY <1>6, <2>1
  <2>6. Permutes(h, s, t, n)
    BY <2>2, <2>3, <2>4, <2>5 DEF Permutes
  <2>7. Lists(t, X, f)
    BY <2>6, ListsPermuted
  <2> QED
    BY <2>1, <2>7
<1>10. ASSUME NEW i \in 1..n, NEW j \in 1..n, i < j
       PROVE  s[order[i]].start <= s[order[j]].start
  <2>1. Before(start, order[i], order[j])
    BY <1>5, <1>10 DEF Sorts
  <2>2. order[i] \in 1..n /\ order[j] \in 1..n
    BY <1>7
  <2>3. start[order[i]] \in Int /\ start[order[j]] \in Int
    BY <1>3, <2>2
  <2>4. start[order[i]] <= start[order[j]]
    BY <2>1, <2>3 DEF Before
  <2> QED
    BY <1>2, <2>2, <2>4
<1> QED
  BY <1>6, <1>9, <1>10
-----------------------------------------------------------------------------
(* Texts and chunks.  A spot of a text T is the number of an input and a   *)
(* position in T; P is the set of the spots that are detected on.          *)

\* What a piece of a text has.
LEMMA Sliced ==
    ASSUME NEW S, NEW text \in Seq(S), NEW start \in Nat, NEW end \in Nat
    PROVE  /\ slice_codepoints(text, start, end) \in Seq(S) /\ Len(slice_codepoints(text, start, end)) \in Nat
           /\ \A r \in 1..Len(slice_codepoints(text, start, end)) :
                slice_codepoints(text, start, end)[r] = text[start + r]
           /\ \A p \in Int : start <= p =>
                (p < start + Len(slice_codepoints(text, start, end)) <=> p < end /\ p < Len(text))
<1>1. PICK n \in Nat : n = Len(text)
  OBVIOUS
<1>2. PICK last \in Nat : last = (IF end < n THEN end ELSE n) /\ last <= n
  <2>1. (IF end < n THEN end ELSE n) \in Nat /\ (IF end < n THEN end ELSE n) <= n
    OBVIOUS
  <2> QED
    BY <2>1
<1> DEFINE piece == SubSeq(text, start + 1, last)
<1>3. slice_codepoints(text, start, end) = piece
  BY <1>1, <1>2 DEF slice_codepoints
<1>4. /\ piece \in Seq(S) /\ Len(piece) = IF start < last THEN last - start ELSE 0
      /\ \A i \in 1..Len(piece) : piece[i] = text[start + i]
  <2>1. CASE start < last
    <3>1. start + 1 \in 1..(Len(text) + 1) /\ last \in start..Len(text)
      BY <1>1, <1>2, <2>1
    <3>2. piece \in Seq(S) /\ Len(piece) = last - start /\ \A i \in 1..(last - start) : piece[i] = text[start + i]
      BY <1>1, <1>2, <2>1, <3>1
    <3> HIDE DEF piece
    <3> QED
      BY <2>1, <3>2
  <2>2. CASE ~(start < last)
    <3>1. piece = <<>>
      BY <1>1, <1>2, <2>2
    <3> QED
      BY <2>2, <3>1
  <2> QED
    BY <2>1, <2>2
<1> HIDE DEF piece
<1>5. ASSUME NEW p \in Int, start <= p PROVE p < start + Len(piece) <=> p < end /\ p < n
  BY <1>1, <1>2, <1>4, <1>5
<1>6. Len(piece) \in Nat
  BY <1>4
<1> QED
  BY <1>1, <1>3, <1>4, <1>5, <1>6

\* The text of input i, at its offset, has the spots of P with that number.
Placed(i, offset, text, P, T) ==
    /\ i \in Nat /\ offset \in Nat /\ text \in Seq(ToSet(T))
    /\ \A r \in 1..Len(text) : text[r] = T[offset + r]
    /\ {x \in P : x[1] = i} = {i} \X (offset..(offset + Len(text) - 1))

\* A block is a chunk with the number of the input it is from.
Pieces(T) == Nat \X [start : Nat, text : Seq(ToSet(T))]
ChunkOf(T) == [b \in Pieces(T) |-> b[2]]
Cover(b) == {b[1]} \X (b[2].start..(b[2].start + Len(b[2].text) - 1))

\* The blocks divide the spots of P in the inputs I among them.
Divides(B, I, P, T) ==
    /\ \A b \in B : b[1] \in I /\ Cover(b) \subseteq P /\ \A r \in 1..Len(b[2].text) : b[2].text[r] = T[b[2].start + r]
    /\ \A b, c \in B : b # c => Cover(b) \intersect Cover(c) = {}
    /\ \A x \in P : x[1] \in I => \E b \in B : x \in Cover(b)

Chunked(chunks, I, P, T) == \E B : Lists(chunks, B, ChunkOf(T)) /\ Divides(B, I, P, T)

\* No input, no chunks.
LEMMA ChunkedNothing ==
    ASSUME NEW P, NEW T
    PROVE  Chunked(<<>>, {}, P, T)
<1>1. Divides({}, {}, P, T)
  BY DEF Divides
<1> QED
  BY <1>1, ListsNothing DEF Chunked

\* The chunks of some inputs and those of others make the chunks of both.
LEMMA ChunkedJoined ==
    ASSUME NEW P, NEW T, NEW I, NEW J, NEW s, NEW t, Chunked(s, I, P, T), Chunked(t, J, P, T), I \intersect J = {}
    PROVE  Chunked(s \o t, I \union J, P, T)
<1>1. PICK B : Lists(s, B, ChunkOf(T)) /\ Divides(B, I, P, T)
  BY DEF Chunked
<1>2. PICK C : Lists(t, C, ChunkOf(T)) /\ Divides(C, J, P, T)
  BY DEF Chunked
<1>3. \A b \in B : \A c \in C : b[1] # c[1] /\ b # c /\ Cover(b) \intersect Cover(c) = {}
  <2> SUFFICES ASSUME NEW b \in B, NEW c \in C PROVE b[1] # c[1] /\ b # c /\ Cover(b) \intersect Cover(c) = {}
    OBVIOUS
  <2>1. b[1] \in I /\ c[1] \in J
    BY <1>1, <1>2 DEF Divides
  <2> QED
    BY <2>1 DEF Cover
<1>4. Lists(s \o t, B \union C, ChunkOf(T))
  BY <1>1, <1>2, <1>3, ListsJoined
<1>5. Divides(B \union C, I \union J, P, T)
  <2>1. ASSUME NEW b \in B \union C
        PROVE  /\ b[1] \in I \union J /\ Cover(b) \subseteq P
               /\ \A r \in 1..Len(b[2].text) : b[2].text[r] = T[b[2].start + r]
    BY <1>1, <1>2 DEF Divides
  <2>2. ASSUME NEW b \in B \union C, NEW c \in B \union C, b # c
        PROVE  Cover(b) \intersect Cover(c) = {}
    <3>1. CASE b \in B /\ c \in B
      BY <1>1, <2>2, <3>1 DEF Divides
    <3>2. CASE b \in C /\ c \in C
      BY <1>2, <2>2, <3>2 DEF Divides
    <3>3. CASE b \in B /\ c \in C
      BY <1>3, <3>3
    <3>4. CASE b \in C /\ c \in B
      BY <1>3, <3>4
    <3> QED
      BY <3>1, <3>2, <3>3, <3>4
  <2>3. ASSUME NEW x \in P, x[1] \in I \union J
        PROVE  \E b \in B \union C : x \in Cover(b)
    BY <1>1, <1>2, <2>3 DEF Divides
  <2> QED
    BY <2>1, <2>2, <2>3 DEF Divides
<1> QED
  BY <1>4, <1>5 DEF Chunked

\* The chunks of an input have its spots, each once, whichever the chunker.
LEMMA ChunkedInput ==
    ASSUME NEW P, NEW T, NEW i, NEW offset, NEW text, Placed(i, offset, text, P, T), NEW chunker
    PROVE  Chunked(chunk(chunker, offset, text), {i}, P, T)
<1>1. PICK C : C = ToSet(T)
  OBVIOUS
<1>2. /\ i \in Nat /\ offset \in Nat /\ text \in Seq(C)
      /\ \A r \in 1..Len(text) : text[r] = T[offset + r]
      /\ {x \in P : x[1] = i} = {i} \X (offset..(offset + Len(text) - 1))
  BY <1>1 DEF Placed
<1>3. CASE chunker = "whole_doc_chunker"
  <2>1. PICK c : c = Chunk(offset, text)
    OBVIOUS
  <2>2. chunk(chunker, offset, text) = <<c>>
    BY <1>3, <2>1 DEF chunk, whole_doc_chunk
  <2>3. c \in [start : Nat, text : Seq(C)] /\ c.start = offset /\ c.text = text
    BY <1>2, <2>1 DEF Chunk
  <2>4. PICK b : b = <<i, c>>
    OBVIOUS
  <2>5. b \in DOMAIN ChunkOf(T) /\ ChunkOf(T)[b] = c /\ b[1] = i /\ b[2] = c
    BY <1>1, <1>2, <2>3, <2>4 DEF ChunkOf, Pieces
  <2>6. Lists(<<c>>, {b}, ChunkOf(T))
    BY <2>5, ListsOne
  <2>7. Cover(b) = {x \in P : x[1] = i}
    BY <1>2, <2>3, <2>5 DEF Cover
  <2>8. Divides({b}, {i}, P, T)
    BY <1>2, <2>3, <2>5, <2>7 DEF Divides
  <2> QED
    BY <2>2, <2>6, <2>8 DEF Chunked
<1>4. CASE chunker # "whole_doc_chunker"
  <2>1. PICK n \in Nat : n = Len(text)
    BY <1>2
  <2>2. PICK m \in Nat : m = (n + 1) \div 2
    <3>1. (n + 1) \div 2 \in Nat
      OBVIOUS
    <3> QED
      BY <3>1
  <2> DEFINE piece(j) == slice_codepoints(text, 2 * (j - 1), 2 * j)
  <2>3. PICK chunks : chunks = [j \in 1..m |-> Chunk(2 * (j - 1) + offset, piece(j))]
    OBVIOUS
  <2>4. chunk(chunker, offset, text) = chunks
    <3>1. Tokens(text) = [j \in 1..m |-> Chunk(2 * (j - 1), piece(j))]
      BY <2>1, <2>2 DEF Tokens
    <3>2. chunk(chunker, offset, text) = AtOffset(offset, Tokens(text))
      BY <1>4 DEF chunk
    <3> HIDE DEF piece
    <3>3. AtOffset(offset, [j \in 1..m |-> Chunk(2 * (j - 1), piece(j))]) = chunks
      BY <2>3 DEF AtOffset, Chunk
    <3> QED
      BY <3>1, <3>2, <3>3
  <2>5. ASSUME NEW j \in 1..m
        PROVE  /\ piece(j) \in Seq(C) /\ Len(piece(j)) \in Nat
               /\ \A r \in 1..Len(piece(j)) : piece(j)[r] = text[2 * (j - 1) + r]
               /\ \A p \in Int : 2 * (j - 1) <= p => (p < 2 * (j - 1) + Len(piece(j)) <=> p < 2 * j /\ p < n)
    <3>1. PICK a \in Nat, z \in Nat : a = 2 * (j - 1) /\ z = 2 * j
      <4>1. 2 * (j - 1) \in Nat /\ 2 * j \in Nat
        OBVIOUS
      <4> QED
        BY <4>1
    <3>2. piece(j) = slice_codepoints(text, a, z)
      BY <3>1
    <3> QED
      BY <1>2, <2>1, <3>1, <3>2, Sliced
  <2> HIDE DEF piece
  <2>6. ASSUME NEW j \in 1..m
        PROVE  /\ chunks[j] \in [start : Nat, text : Seq(C)]
               /\ chunks[j].start = offset + 2 * (j - 1) /\ chunks[j].text = piece(j)
    <3>1. PICK a \in Nat : a = 2 * (j - 1) + offset
      <4>1. 2 * (j - 1) + offset \in Nat
        BY <1>2
      <4> QED
        BY <4>1
    <3>2. chunks[j] = Chunk(a, piece(j))
      BY <2>3, <3>1
    <3>3. chunks[j] = [start |-> a, text |-> piece(j)]
      BY <3>2 DEF Chunk
    <3> QED
      BY <1>2, <2>5, <3>1, <3>3
  <2>7. PICK from, B : from = [j \in 1..m |-> <<i, chunks[j]>>] /\ B = {<<i, chunks[j]>> : j \in 1..m}
    OBVIOUS
  <2>8. ASSUME NEW j \in 1..m
        PROVE  /\ from[j] \in Pieces(T) /\ from[j] \in B /\ from[j][1] = i
               /\ from[j][2] = chunks[j] /\ ChunkOf(T)[from[j]] = chunks[j]
    BY <1>1, <1>2, <2>6, <2>7 DEF ChunkOf, Pieces
  <2>9. ASSUME NEW j \in 1..m, NEW x
        PROVE  x \in Cover(from[j]) <=> \E p \in 0..(n - 1) : x = <<i, offset + p>> /\ 2 * (j - 1) <= p /\ p < 2 * j
    <3>1. Cover(from[j]) = {i} \X ((offset + 2 * (j - 1))..(offset + 2 * (j - 1) + Len(piece(j)) - 1))
      BY <2>6, <2>8 DEF Cover
    <3>2. /\ Len(piece(j)) \in Nat
          /\ \A p \in Int : 2 * (j - 1) <= p => (p < 2 * (j - 1) + Len(piece(j)) <=> p < 2 * j /\ p < n)
      BY <2>5
    <3>3. ASSUME NEW p \in 0..(n - 1), x = <<i, offset + p>>, 2 * (j - 1) <= p, p < 2 * j
          PROVE  x \in Cover(from[j])
      <4>1. offset + p \in (offset + 2 * (j - 1))..(offset + 2 * (j - 1) + Len(piece(j)) - 1)
        BY <1>2, <2>1, <3>2, <3>3
      <4> QED
        BY <3>1, <3>3, <4>1
    <3>4. ASSUME x \in Cover(from[j])
          PROVE  \E p \in 0..(n - 1) : x = <<i, offset + p>> /\ 2 * (j - 1) <= p /\ p < 2 * j
      <4>1. PICK q \in (offset + 2 * (j - 1))..(offset + 2 * (j - 1) + Len(piece(j)) - 1) : x = <<i, q>>
        BY <3>1, <3>4
      <4>2. PICK p \in Int : p = q - offset
        BY <1>2, <3>2
      <4>3. 2 * (j - 1) <= p /\ p < 2 * (j - 1) + Len(piece(j))
        BY <1>2, <3>2, <4>1, <4>2
      <4>4. p < 2 * j /\ p < n
        BY <3>2, <4>3
      <4>5. p \in 0..(n - 1) /\ offset + p = q
        BY <1>2, <3>2, <4>1, <4>2, <4>3, <4>4
      <4> QED
        BY <4>1, <4>3, <4>4, <4>5
    <3> QED
      BY <3>3, <3>4
  <2>10. ASSUME NEW j \in 1..m, NEW k \in 1..m, j # k
         PROVE  chunks[j] # chunks[k] /\ Cover(from[j]) \intersect Cover(from[k]) = {}
    <3>1. chunks[j] # chunks[k]
      <4>1. offset + 2 * (j - 1) # offset + 2 * (k - 1)
        BY <1>2, <2>10
      <4> QED
        BY <2>6, <4>1
    <3>2. ASSUME NEW x \in Cover(from[j]), x \in Cover(from[k])
          PROVE  FALSE
      <4>1. PICK p \in 0..(n - 1) : x = <<i, offset + p>> /\ 2 * (j - 1) <= p /\ p < 2 * j
        BY <2>9, <3>2
      <4>2. PICK q \in 0..(n - 1) : x = <<i, offset + q>> /\ 2 * (k - 1) <= q /\ q < 2 * k
        BY <2>9, <3>2
      <4>3. offset + p = offset + q
        BY <4>1, <4>2
      <4>4. p = q
        BY <1>2, <4>3
      <4> QED
        BY <2>10, <4>1, <4>2, <4>4
    <3> QED
      BY <3>1, <3>2
  <2>11. Lists(chunks, B, ChunkOf(T))
    <3>1. Len(chunks) = m /\ chunks = [j \in 1..m |-> chunks[j]]
      BY <2>3
    <3>2. \A j \in 1..m : chunks[j] \in Range(ChunkOf(T))
      BY <2>8 DEF Range, ChunkOf
    <3>3. chunks \in Seq(Range(ChunkOf(T)))
      BY <3>1, <3>2
    <3>4. \A j, k \in 1..m : from[j] = from[k] => j = k
      BY <2>8, <2>10
    <3>5. Numbering(from, chunks, B, ChunkOf(T))
      <4>1. from \in [1..m -> B]
        BY <2>7
      <4>2. \A b \in B : \E j \in 1..m : from[j] = b
        BY <2>7
      <4> QED
        BY <2>8, <3>1, <3>4, <4>1, <4>2 DEF Numbering
    <3>6. B \subseteq DOMAIN ChunkOf(T)
      <4>1. \A b \in B : \E j \in 1..m : b = from[j]
        BY <2>7
      <4> QED
        BY <2>8, <4>1 DEF ChunkOf
    <3> QED
      BY <3>3, <3>5, <3>6 DEF Lists
  <2>12. \A b \in B : \E j \in 1..m : b = from[j]
    BY <2>7
  <2>13. ASSUME NEW j \in 1..m
         PROVE  /\ from[j][1] \in {i} /\ Cover(from[j]) \subseteq P
                /\ \A r \in 1..Len(from[j][2].text) : from[j][2].text[r] = T[from[j][2].start + r]
    <3>1. Cover(from[j]) \subseteq P
      <4> SUFFICES ASSUME NEW x \in Cover(from[j]) PROVE x \in P
        OBVIOUS
      <4>1. PICK p \in 0..(n - 1) : x = <<i, offset + p>>
        BY <2>9
      <4>2. offset + p \in offset..(offset + Len(text) - 1)
        BY <1>2, <2>1
      <4>3. x \in {i} \X (offset..(offset + Len(text) - 1))
        BY <4>1, <4>2
      <4> QED
        BY <1>2, <4>3
    <3>2. ASSUME NEW r \in 1..Len(piece(j))
          PROVE  piece(j)[r] = T[(offset + 2 * (j - 1)) + r]
      <4>1. piece(j)[r] = text[2 * (j - 1) + r] /\ Len(piece(j)) \in Nat
        BY <2>5
      <4>2. PICK p \in Int : p = 2 * (j - 1) + r - 1
        BY <4>1
      <4>3. 2 * (j - 1) <= p /\ p < 2 * (j - 1) + Len(piece(j))
        BY <4>1, <4>2
      <4>4. p < n
        BY <2>5, <4>3
      <4>5. 2 * (j - 1) + r \in 1..n
        BY <4>1, <4>2, <4>4
      <4>6. text[2 * (j - 1) + r] = T[offset + (2 * (j - 1) + r)]
        BY <1>2, <2>1, <4>5
      <4>7. offset + (2 * (j - 1) + r) = (offset + 2 * (j - 1)) + r
        BY <1>2, <4>1
      <4> QED
        BY <4>1, <4>6, <4>7
    <3> QED
      BY <2>6, <2>8, <3>1, <3>2
  <2>14. ASSUME NEW x \in P, x[1] = i
         PROVE  \E j \in 1..m : x \in Cover(from[j])
    <3>1. x \in {i} \X (offset..(offset + n - 1))
      BY <1>2, <2>1, <2>14
    <3>2. PICK q \in offset..(offset + n - 1) : x = <<i, q>>
      BY <3>1
    <3>3. PICK p \in 0..(n - 1) : q = offset + p
      <4>1. q - offset \in 0..(n - 1) /\ q = offset + (q - offset)
        BY <1>2
      <4> QED
        BY <4>1
    <3>4. PICK j \in 1..m : 2 * (j - 1) <= p /\ p < 2 * j
      <4>1. p \div 2 + 1 \in 1..m /\ 2 * ((p \div 2 + 1) - 1) <= p /\ p < 2 * (p \div 2 + 1)
        BY <2>2
      <4> QED
        BY <4>1
    <3> QED
      BY <2>9, <3>2, <3>3, <3>4
  <2>15. Divides(B, {i}, P, T)
    <3>1. ASSUME NEW b \in B, NEW c \in B, b # c
          PROVE  Cover(b) \intersect Cover(c) = {}
      <4>1. PICK j \in 1..m, k \in 1..m : b = from[j] /\ c = from[k]
        BY <2>12
      <4> QED
        BY <2>10, <3>1, <4>1
    <3>2. ASSUME NEW b \in B
          PROVE  /\ b[1] \in {i} /\ Cover(b) \subseteq P
                 /\ \A r \in 1..Len(b[2].text) : b[2].text[r] = T[b[2].start + r]
      BY <2>12, <2>13
    <3>3. ASSUME NEW x \in P, x[1] \in {i}
          PROVE  \E b \in B : x \in Cover(b)
      BY <2>8, <2>14, <3>3
    <3> QED
      BY <3>1, <3>2, <3>3 DEF Divides
  <2> QED
    BY <2>4, <2>11, <2>15 DEF Chunked
<1> QED
  BY <1>3, <1>4

\* The inputs of a call have all of P.
Split(inputs, P, T) ==
    /\ \A i \in DOMAIN inputs : Placed(i, inputs[i][1], inputs[i][2], P, T)
    /\ \A x \in P : x[1] \in DOMAIN inputs

\* Without masks there is one input, the whole text.
LEMMA WholeSplit ==
    ASSUME NEW T, T \in Seq(ToSet(T))
    PROVE  Split(<<<<0, T>>>>, Whole(T), T)
<1>1. PICK n \in Nat : n = Len(T)
  OBVIOUS
<1>2. PICK inputs : inputs = <<<<0, T>>>>
  OBVIOUS
<1>3. DOMAIN inputs = {1} /\ inputs[1] = <<0, T>>
  BY <1>2
<1>4. inputs[1][1] = 0 /\ inputs[1][2] = T
  BY <1>3
<1>5. \A r \in 1..Len(T) : T[r] = T[0 + r]
  BY <1>1
<1>6. Whole(T) = {1} \X (0..(n - 1)) /\ 0 + n - 1 = n - 1
  BY <1>1 DEF Whole
<1>7. {x \in Whole(T) : x[1] = 1} = {1} \X (0..(0 + Len(T) - 1))
  BY <1>1, <1>6
<1>8. Placed(1, 0, T, Whole(T), T)
  BY <1>5, <1>7 DEF Placed
<1>9. \A x \in Whole(T) : x[1] \in DOMAIN inputs
  BY <1>3, <1>6
<1> QED
  BY <1>2, <1>3, <1>4, <1>8, <1>9 DEF Split

\* The masks make inputs of what they select.
LEMMA MasksSplit ==
    ASSUME NEW r \in Requests
    PROVE  Split(apply_masks(r.text, r.masks), Covered(r), r.text)
<1>1. PICK T, C, masks : T = r.text /\ C = ToSet(T) /\ masks = r.masks
  OBVIOUS
<1>2. T \in Seq(C) /\ masks \in Seq(Nat \X Nat)
  BY <1>1, RequestAssumption
<1>3. PICK n \in Nat : n = Len(T)
  BY <1>2
<1>4. CASE masks = <<>>
  <2>1. apply_masks(r.text, r.masks) = <<<<0, T>>>> /\ Covered(r) = Whole(T)
    BY <1>1, <1>4 DEF apply_masks, Covered
  <2> QED
    BY <1>1, <1>2, <2>1, WholeSplit
<1>5. CASE masks # <<>>
  <2>1. PICK inputs : inputs = apply_masks(T, masks)
    OBVIOUS
  <2>2. inputs = [i \in DOMAIN masks |-> <<masks[i][1], slice_codepoints(T, masks[i][1], masks[i][2])>>]
    BY <1>5, <2>1 DEF apply_masks
  <2>3. PICK P : P = Covered(r)
    OBVIOUS
  <2>4. P = {x \in (DOMAIN masks) \X (0..(n - 1)) : x[2] >= masks[x[1]][1] /\ x[2] < masks[x[1]][2]}
    BY <1>1, <1>3, <1>5, <2>3 DEF Covered
  <2>5. ASSUME NEW i \in DOMAIN inputs
        PROVE  Placed(i, inputs[i][1], inputs[i][2], P, T)
    <3>1. i \in DOMAIN masks /\ i \in Nat
      BY <1>2, <2>2
    <3>2. masks[i] \in Nat \X Nat
      BY <1>2, <3>1
    <3>3. PICK a \in Nat, z \in Nat : a = masks[i][1] /\ z = masks[i][2]
      BY <3>2
    <3>4. PICK text : text = slice_codepoints(T, a, z)
      OBVIOUS
    <3>5. inputs[i][1] = a /\ inputs[i][2] = text
      BY <2>2, <3>1, <3>3, <3>4
    <3>6. /\ text \in Seq(C) /\ Len(text) \in Nat
          /\ \A p \in 1..Len(text) : text[p] = T[a + p]
          /\ \A p \in Int : a <= p => (p < a + Len(text) <=> p < z /\ p < n)
      BY <1>2, <1>3, <3>4, Sliced
    <3>7. ASSUME NEW x, x \in P, x[1] = i
          PROVE  x \in {i} \X (a..(a + Len(text) - 1))
      <4>1. PICK p \in 0..(n - 1) : x = <<i, p>>
        BY <2>4, <3>7
      <4>2. a <= p /\ p < z /\ p < n
        BY <2>4, <3>3, <3>7, <4>1
      <4>3. p \in a..(a + Len(text) - 1)
        BY <3>6, <4>2
      <4> QED
        BY <4>1, <4>3
    <3>8. ASSUME NEW p \in a..(a + Len(text) - 1)
          PROVE  <<i, p>> \in P
      <4>1. p \in Int /\ a <= p /\ p < a + Len(text)
        BY <3>6
      <4>2. p < z /\ p < n
        BY <3>6, <4>1
      <4>3. p \in 0..(n - 1) /\ p >= masks[i][1] /\ p < masks[i][2]
        BY <3>3, <4>1, <4>2
      <4> QED
        BY <2>4, <3>1, <4>3
    <3>9. {x \in P : x[1] = i} = {i} \X (a..(a + Len(text) - 1))
      BY <3>7, <3>8
    <3>10. Placed(i, a, text, P, T)
      BY <1>1, <3>1, <3>6, <3>9 DEF Placed
    <3> QED
      BY <3>5, <3>10
  <2>6. \A x \in P : x[1] \in DOMAIN inputs
    BY <2>2, <2>4
  <2> QED
    BY <1>1, <2>1, <2>3, <2>5, <2>6 DEF Split
<1> QED
  BY <1>4, <1>5
-----------------------------------------------------------------------------
(* Detections.                                                             *)

\* What the detectors D can say of the spots P of T, and what they score.
Family(D, P, T) == [x \in (DOMAIN D) \X P |-> DetectionOf(T, x)]
Scored(d, P, T) == {x \in {d} \X P : Score[d][T[x[2][2] + 1]] > 0}

\* What is reported by the detectors E.
ReportedBy(E, D, T, P) == {x \in Reported(D, T, P) : x[1] \in E}

\* What a detector server finds in a text.
FoundIn(d, text) ==
    [r \in 1..Len(text) |-> [detector |-> d, start |-> r - 1, char |-> text[r], score |-> Score[d][text[r]]]]

\* The detector server's answer on a text.
LEMMA DetectionsListed ==
    ASSUME NEW S, NEW text \in Seq(S), NEW d
    PROVE  Lists(Detections(d, text), {r \in 1..Len(text) : Score[d][text[r]] > 0}, FoundIn(d, text))
<1>1. PICK n \in Nat : n = Len(text)
  OBVIOUS
<1>2. PICK f : f = FoundIn(d, text)
  OBVIOUS
<1>3. f = [r \in 1..n |-> [detector |-> d, start |-> r - 1, char |-> text[r], score |-> Score[d][text[r]]]]
  BY <1>1, <1>2 DEF FoundIn
<1>4. DOMAIN f = 1..n /\ \A r \in 1..n : f[r] \in Range(f) /\ f[r].score = Score[d][text[r]]
  BY <1>3 DEF Range
<1>5. f \in Seq(Range(f)) /\ Len(f) = n
  BY <1>3, <1>4
<1>6. Numbering([r \in 1..n |-> r], f, 1..n, f)
  BY <1>5 DEF Numbering
<1>7. Lists(f, 1..n, f)
  BY <1>4, <1>5, <1>6 DEF Lists
<1>8. PICK good : good = {y \in Range(f) : y.score > 0}
  OBVIOUS
<1>9. Lists(FlattenSeq([i \in DOMAIN f |-> IF f[i] \in good THEN <<f[i]>> ELSE <<>>]), {r \in 1..n : f[r] \in good}, f)
  BY <1>7, ListsKept
<1>10. \A r \in 1..n : f[r] \in good <=> Score[d][text[r]] > 0
  BY <1>4, <1>8
<1>11. {r \in 1..n : f[r] \in good} = {r \in 1..Len(text) : Score[d][text[r]] > 0}
  BY <1>1, <1>10
<1>12. PICK u, v : /\ u = [i \in DOMAIN f |-> IF f[i] \in good THEN <<f[i]>> ELSE <<>>]
                   /\ v = [i \in DOMAIN text |->
                          IF Score[d][text[i]] > 0
                          THEN <<[detector |-> d, start |-> i - 1, char |-> text[i], score |-> Score[d][text[i]]]>>
                          ELSE <<>>]
  OBVIOUS
<1>13. u = v
  <2>1. DOMAIN text = 1..n
    BY <1>1
  <2>2. \A i \in 1..n : u[i] = v[i]
    BY <1>3, <1>4, <1>10, <1>12, <2>1
  <2> QED
    BY <1>4, <1>12, <2>1, <2>2
<1>14. Detections(d, text) = FlattenSeq(v)
  BY <1>12 DEF Detections
<1>15. Lists(FlattenSeq(u), {r \in 1..Len(text) : Score[d][text[r]] > 0}, f)
  BY <1>9, <1>11, <1>12, Zenon
<1> QED
  BY <1>2, <1>13, <1>14, <1>15, Zenon

\* The text of input i is found in T from start on, and t is what d finds in it, moved there.
Block(t, d, text, i, start, P, T) ==
    /\ {i} \X (start..(start + Len(text) - 1)) \subseteq P
    /\ \A r \in 1..Len(text) : text[r] = T[start + r]
    /\ t = [j \in DOMAIN Detections(d, text) |-> t[j]]
    /\ \A j \in DOMAIN Detections(d, text) :
         t[j] = [Detections(d, text)[j] EXCEPT !.start = IF IsContents(d) THEN @ + start ELSE 0]

\* These are the detections for the spots of the text.
LEMMA BlockListed ==
    ASSUME NEW D, NEW P, NEW T, NEW d \in DOMAIN D, NEW S, NEW text \in Seq(S), NEW i, NEW start \in Nat,
           NEW t, Block(t, d, text, i, start, P, T)
    PROVE  Lists(t, Scored(d, {i} \X (start..(start + Len(text) - 1)), T), Family(D, P, T))
<1>1. PICK n \in Nat : n = Len(text)
  OBVIOUS
<1>2. PICK s, f, g, X : /\ s = Detections(d, text) /\ f = FoundIn(d, text) /\ g = Family(D, P, T)
                        /\ X = {r \in 1..n : Score[d][text[r]] > 0}
  OBVIOUS
<1>3. Lists(s, X, f)
  BY <1>1, <1>2, DetectionsListed
<1>4. PICK phi : phi = [r \in 1..n |-> <<d, <<i, start + r - 1>>>>]
  OBVIOUS
<1>5. ASSUME NEW r \in 1..n
      PROVE  /\ phi[r] \in DOMAIN g /\ phi[r][1] = d /\ phi[r][2] = <<i, start + r - 1>> /\ phi[r][2][2] = start + r - 1
             /\ (start + r - 1) + 1 = start + r /\ text[r] = T[start + r]
             /\ phi[r] \in {d} \X ({i} \X (start..(start + n - 1)))
  <2>1. start + r - 1 \in start..(start + n - 1)
    OBVIOUS
  <2>2. phi[r] = <<d, <<i, start + r - 1>>>>
    BY <1>4
  <2>3. <<i, start + r - 1>> \in {i} \X (start..(start + n - 1))
    BY <2>1
  <2>4. <<i, start + r - 1>> \in P
    BY <1>1, <2>3 DEF Block
  <2>5. DOMAIN g = (DOMAIN D) \X P
    BY <1>2 DEF Family
  <2>6. (start + r - 1) + 1 = start + r /\ text[r] = T[start + r]
    BY <1>1 DEF Block
  <2>7. phi[r][1] = d /\ phi[r][2] = <<i, start + r - 1>>
    BY <2>2
  <2>8. phi[r][2][2] = start + r - 1
    BY <2>7
  <2>9. phi[r] \in DOMAIN g
    BY <2>2, <2>4, <2>5
  <2>10. phi[r] \in {d} \X ({i} \X (start..(start + n - 1)))
    BY <2>2, <2>3
  <2> QED
    BY <2>6, <2>7, <2>8, <2>9, <2>10
<1>6. ASSUME NEW j \in DOMAIN s, NEW r \in X, s[j] = f[r]
      PROVE  t[j] = g[phi[r]]
  <2>1. r \in 1..n
    BY <1>2
  <2>2. s[j] = [detector |-> d, start |-> r - 1, char |-> text[r], score |-> Score[d][text[r]]]
    BY <1>1, <1>2, <1>6, <2>1 DEF FoundIn
  <2>3. PICK at : at = IF IsContents(d) THEN (r - 1) + start ELSE 0
    OBVIOUS
  <2>4. t[j] = [detector |-> d, start |-> at, char |-> text[r], score |-> Score[d][text[r]]]
    <3>1. t[j] = [s[j] EXCEPT !.start = IF IsContents(d) THEN s[j].start + start ELSE 0]
      BY <1>2 DEF Block
    <3>2. s[j].start = r - 1
      BY <2>2
    <3>3. t[j] = [s[j] EXCEPT !.start = at]
      BY <2>3, <3>1, <3>2
    <3> QED
      BY <2>2, <3>3
  <2>5. g[phi[r]] = DetectionOf(T, phi[r])
    BY <1>2, <1>5, <2>1 DEF Family
  <2>6. DetectionOf(T, phi[r]) = [detector |-> d, start |-> IF IsContents(d) THEN start + r - 1 ELSE 0,
                                  char |-> text[r], score |-> Score[d][text[r]]]
    <3>1. PICK x : x = phi[r]
      OBVIOUS
    <3>2. x[1] = d /\ x[2][2] = start + r - 1 /\ (start + r - 1) + 1 = start + r /\ text[r] = T[start + r]
      BY <1>5, <2>1, <3>1, Zenon
    <3>3. T[x[2][2] + 1] = text[r]
      BY <3>2, Zenon
    <3>4. DetectionOf(T, x) = [detector |-> d, start |-> IF IsContents(d) THEN start + r - 1 ELSE 0,
                               char |-> text[r], score |-> Score[d][text[r]]]
      BY <3>2, <3>3, Zenon DEF DetectionOf
    <3> QED
      BY <3>1, <3>4
  <2>7. (r - 1) + start = start + r - 1
    BY <2>1
  <2> QED
    BY <2>3, <2>4, <2>5, <2>6, <2>7
<1>7. \A r, q \in X : phi[r] = phi[q] => r = q
  <2> SUFFICES ASSUME NEW r \in X, NEW q \in X, phi[r] = phi[q] PROVE r = q
    OBVIOUS
  <2>1. r \in 1..n /\ q \in 1..n
    BY <1>2
  <2>2. start + r - 1 = start + q - 1
    BY <1>5, <2>1
  <2> QED
    BY <2>1, <2>2
<1>8. \A r \in X : phi[r] \in DOMAIN g
  <2> SUFFICES ASSUME NEW r \in X PROVE phi[r] \in DOMAIN g
    OBVIOUS
  <2>1. r \in 1..n
    BY <1>2
  <2> QED
    BY <1>5, <2>1, Zenon
<1>9. t = [j \in DOMAIN s |-> t[j]]
  BY <1>2 DEF Block
<1>10. Lists(t, {phi[r] : r \in X}, g)
  <2>1. ASSUME NEW j \in DOMAIN s, NEW r \in X PROVE s[j] = f[r] => t[j] = g[phi[r]]
    BY <1>6, Zenon
  <2> QED
    BY <1>3, <1>7, <1>8, <1>9, <2>1, ListsMoved
<1>11. {phi[r] : r \in X} = Scored(d, {i} \X (start..(start + n - 1)), T)
  <2>1. ASSUME NEW r \in X
        PROVE  phi[r] \in Scored(d, {i} \X (start..(start + n - 1)), T)
    <3>1. r \in 1..n /\ Score[d][text[r]] > 0
      BY <1>2
    <3>2. T[phi[r][2][2] + 1] = text[r]
      BY <1>5, <3>1
    <3> QED
      BY <1>5, <3>1, <3>2 DEF Scored
  <2>2. ASSUME NEW x \in Scored(d, {i} \X (start..(start + n - 1)), T)
        PROVE  \E r \in X : x = phi[r]
    <3>1. PICK p \in start..(start + n - 1) : x = <<d, <<i, p>>>>
      BY DEF Scored
    <3>2. Score[d][T[p + 1]] > 0
      BY <3>1 DEF Scored
    <3>3. PICK r \in 1..n : p = start + r - 1 /\ p + 1 = start + r
      <4>1. p - start + 1 \in 1..n /\ p = start + (p - start + 1) - 1 /\ p + 1 = start + (p - start + 1)
        OBVIOUS
      <4> QED
        BY <4>1
    <3>4. text[r] = T[p + 1]
      BY <1>1, <3>3 DEF Block
    <3> QED
      BY <1>2, <1>4, <3>1, <3>2, <3>3, <3>4
  <2> QED
    BY <2>1, <2>2
<1> QED
  BY <1>1, <1>2, <1>10, <1>11

\* All chunks in one request: every spot of P is in exactly one of them.
LEMMA ContentsListed ==
    ASSUME NEW D, NEW P, NEW T, NEW d \in DOMAIN D, IsContents(d), NEW I, \A x \in P : x[1] \in I,
           NEW chunks, Chunked(chunks, I, P, T)
    PROVE  Lists(detect_text_contents(d, chunks), Scored(d, P, T), Family(D, P, T))
<1>1. PICK B : Lists(chunks, B, ChunkOf(T)) /\ Divides(B, I, P, T)
  BY DEF Chunked
<1>2. PICK from : Numbering(from, chunks, B, ChunkOf(T))
  BY <1>1 DEF Lists
<1>3. PICK n \in Nat : n = Len(chunks) /\ DOMAIN chunks = 1..n
  BY <1>1 DEF Lists
<1>4. PICK C : C = ToSet(T)
  OBVIOUS
<1>5. ASSUME NEW c \in 1..n
      PROVE  /\ from[c] \in B /\ chunks[c] = from[c][2] /\ chunks[c].start \in Nat /\ chunks[c].text \in Seq(C)
  <2>1. from[c] \in B /\ chunks[c] = ChunkOf(T)[from[c]]
    BY <1>2, <1>3 DEF Numbering
  <2>2. from[c] \in Nat \X [start : Nat, text : Seq(C)]
    BY <1>1, <1>4, <2>1 DEF Lists, ChunkOf, Pieces
  <2>3. chunks[c] = from[c][2]
    BY <1>4, <2>1, <2>2 DEF ChunkOf, Pieces
  <2>4. from[c][2] \in [start : Nat, text : Seq(C)]
    BY <2>2
  <2> QED
    BY <2>1, <2>3, <2>4
<1> DEFINE block(c) == LET found == Detections(d, chunks[c].text)
                       IN  [j \in DOMAIN found |-> [found[j] EXCEPT !.start = @ + chunks[c].start]]
<1>6. PICK s : s = [c \in 1..n |-> block(c)]
  OBVIOUS
<1>7. PICK part : part = [c \in 1..n |-> Scored(d, Cover(from[c]), T)]
  OBVIOUS
<1>8. ASSUME NEW c \in 1..n
      PROVE  Lists(s[c], part[c], Family(D, P, T))
  <2>1. PICK start \in Nat, text \in Seq(C), i \in {from[c][1]} : start = chunks[c].start /\ text = chunks[c].text
    BY <1>5
  <2>2. Cover(from[c]) = {i} \X (start..(start + Len(text) - 1))
    BY <1>5, <2>1 DEF Cover
  <2>3. Cover(from[c]) \subseteq P /\ \A r \in 1..Len(text) : text[r] = T[start + r]
    <3>1. PICK b \in B : b = from[c] /\ b[2].start = start /\ b[2].text = text
      BY <1>5, <2>1
    <3>2. Cover(b) \subseteq P /\ \A r \in 1..Len(b[2].text) : b[2].text[r] = T[b[2].start + r]
      BY <1>1 DEF Divides
    <3> QED
      BY <3>1, <3>2
  <2>4. PICK found : found = Detections(d, text)
    OBVIOUS
  <2>5. PICK t : t = [j \in DOMAIN found |-> [found[j] EXCEPT !.start = @ + start]]
    OBVIOUS
  <2>6. t = [j \in DOMAIN Detections(d, text) |-> t[j]]
    BY <2>4, <2>5
  <2>7. ASSUME NEW j \in DOMAIN Detections(d, text)
        PROVE  t[j] = [Detections(d, text)[j] EXCEPT !.start = IF IsContents(d) THEN @ + start ELSE 0]
    BY <2>4, <2>5
  <2>8. {i} \X (start..(start + Len(text) - 1)) \subseteq P
    BY <2>2, <2>3
  <2>9. Lists(t, Scored(d, {i} \X (start..(start + Len(text) - 1)), T), Family(D, P, T))
    <3>1. Block(t, d, text, i, start, P, T)
      BY <2>3, <2>6, <2>7, <2>8 DEF Block
    <3> QED
      BY <2>3, <3>1, BlockListed
  <2>10. s[c] = t
    BY <1>6, <2>1, <2>4, <2>5
  <2>11. part[c] = Scored(d, {i} \X (start..(start + Len(text) - 1)), T)
    BY <1>7, <2>2
  <2> QED
    BY <2>9, <2>10, <2>11
<1>9. s = [c \in 1..n |-> s[c]]
  BY <1>6
<1>10. ASSUME NEW a \in 1..n, NEW c \in 1..n, a # c
       PROVE  part[a] \intersect part[c] = {}
  <2>1. from[a] # from[c]
    BY <1>2, <1>3, <1>10 DEF Numbering
  <2>2. Cover(from[a]) \intersect Cover(from[c]) = {}
    BY <1>1, <1>5, <2>1 DEF Divides
  <2> QED
    BY <1>7, <2>2 DEF Scored
<1>11. Lists(FlattenSeq(s), UNION {part[c] : c \in 1..n}, Family(D, P, T))
  BY <1>8, <1>9, <1>10, ListsFlattened
<1>12. UNION {part[c] : c \in 1..n} = Scored(d, P, T)
  <2>1. ASSUME NEW x \in Scored(d, P, T)
        PROVE  \E c \in 1..n : x \in part[c]
    <3>1. x[2] \in P /\ x \in {d} \X P /\ Score[d][T[x[2][2] + 1]] > 0
      BY DEF Scored
    <3>2. PICK b \in B : x[2] \in Cover(b)
      BY <1>1, <3>1 DEF Divides
    <3>3. PICK c \in 1..n : from[c] = b
      BY <1>2, <1>3 DEF Numbering
    <3> QED
      BY <1>7, <3>1, <3>2, <3>3 DEF Scored
  <2>2. ASSUME NEW c \in 1..n, NEW x \in part[c]
        PROVE  x \in Scored(d, P, T)
    <3>1. Cover(from[c]) \subseteq P
      BY <1>1, <1>5 DEF Divides
    <3> QED
      BY <1>7, <3>1 DEF Scored
  <2> QED
    BY <2>1, <2>2
<1>13. detect_text_contents(d, chunks) = FlattenSeq(s)
  BY <1>3, <1>6, Zenon DEF detect_text_contents
<1> QED
  BY <1>11, <1>12, <1>13

\* A text as a whole, without positions.
LEMMA TextListed ==
    ASSUME NEW D, NEW T, T \in Seq(ToSet(T)), NEW d \in DOMAIN D, ~IsContents(d)
    PROVE  Lists(detect_text(d, T), Scored(d, Whole(T), T), Family(D, Whole(T), T))
<1>1. PICK n \in Nat : n = Len(T)
  OBVIOUS
<1>2. PICK t, found : found = Detections(d, T) /\ t = [j \in DOMAIN found |-> [found[j] EXCEPT !.start = 0]]
  OBVIOUS
<1>3. detect_text(d, T) = t
  BY <1>2 DEF detect_text
<1>4. t = [j \in DOMAIN Detections(d, T) |-> t[j]]
  BY <1>2
<1>5. ASSUME NEW j \in DOMAIN Detections(d, T)
      PROVE  t[j] = [Detections(d, T)[j] EXCEPT !.start = IF IsContents(d) THEN @ + 0 ELSE 0]
  BY <1>2
<1>6. Whole(T) = {1} \X (0..(0 + Len(T) - 1))
  BY <1>1 DEF Whole
<1>7. \A r \in 1..Len(T) : T[r] = T[0 + r]
  BY <1>1
<1>8. {1} \X (0..(0 + Len(T) - 1)) \subseteq Whole(T)
  BY <1>6
<1>9. Lists(t, Scored(d, {1} \X (0..(0 + Len(T) - 1)), T), Family(D, Whole(T), T))
  <2>1. Block(t, d, T, 1, 0, Whole(T), T)
    BY <1>4, <1>5, <1>7, <1>8 DEF Block
  <2> QED
    BY <1>1, <2>1, BlockListed
<1> QED
  BY <1>3, <1>6, <1>9

\* The threshold leaves what is reported.
LEMMA KeptListed ==
    ASSUME NEW D, NEW P, NEW T, NEW d \in DOMAIN D, NEW found, Lists(found, Scored(d, P, T), Family(D, P, T))
    PROVE  Lists(Kept(d, D[d], found), ReportedBy({d}, D, T, P), Family(D, P, T))
<1>1. PICK f, X : f = Family(D, P, T) /\ X = Scored(d, P, T)
  OBVIOUS
<1>2. PICK good : good = {y \in Range(f) : y.score >= Threshold(d, D[d])}
  OBVIOUS
<1>3. Lists(FlattenSeq([i \in DOMAIN found |-> IF found[i] \in good THEN <<found[i]>> ELSE <<>>]),
            {x \in X : f[x] \in good}, f)
  <2>1. Lists(found, X, f)
    BY <1>1
  <2> QED
    BY <2>1, ListsKept
<1>4. \A i \in DOMAIN found : found[i] \in Range(f)
  BY <1>1 DEF Lists
<1>5. PICK u, v : /\ u = [i \in DOMAIN found |-> IF found[i] \in good THEN <<found[i]>> ELSE <<>>]
                  /\ v = [i \in DOMAIN found |-> IF found[i].score >= Threshold(d, D[d]) THEN <<found[i]>> ELSE <<>>]
  OBVIOUS
<1>6. u = v
  BY <1>2, <1>4, <1>5
<1>7. Kept(d, D[d], found) = FlattenSeq(v)
  BY <1>5 DEF Kept
<1>8. {x \in X : f[x] \in good} = ReportedBy({d}, D, T, P)
  <2>1. ASSUME NEW x \in X
        PROVE  /\ x \in (DOMAIN D) \X P /\ x[1] = d /\ x[1] \in {d} /\ Score[d][T[x[2][2] + 1]] > 0
               /\ f[x].score = Score[d][T[x[2][2] + 1]] /\ f[x] \in Range(f)
    <3>1. x \in (DOMAIN D) \X P /\ x[1] = d /\ Score[d][T[x[2][2] + 1]] > 0
      BY <1>1 DEF Scored
    <3>2. f[x] = DetectionOf(T, x) /\ x \in DOMAIN f
      BY <1>1, <3>1 DEF Family
    <3>3. DetectionOf(T, x).score = Score[x[1]][T[x[2][2] + 1]]
      BY DEF DetectionOf
    <3>4. f[x] \in Range(f)
      BY <3>2 DEF Range
    <3> QED
      BY <3>1, <3>2, <3>3, <3>4
  <2>2. ASSUME NEW x \in X
        PROVE  f[x] \in good => x \in ReportedBy({d}, D, T, P)
    BY <1>2, <2>1 DEF ReportedBy, Reported
  <2>3. ASSUME NEW x \in ReportedBy({d}, D, T, P)
        PROVE  x \in X /\ f[x] \in good
    <3>1. /\ x \in (DOMAIN D) \X P /\ x[1] = d
          /\ Score[d][T[x[2][2] + 1]] > 0 /\ Score[d][T[x[2][2] + 1]] >= Threshold(d, D[d])
      BY DEF ReportedBy, Reported
    <3>2. x \in X
      BY <1>1, <3>1 DEF Scored
    <3> QED
      BY <1>2, <2>1, <3>1, <3>2
  <2> QED
    BY <2>2, <2>3
<1>9. Lists(FlattenSeq(u), ReportedBy({d}, D, T, P), f)
  BY <1>3, <1>5, <1>8
<1> QED
  BY <1>1, <1>6, <1>7, <1>9, Zenon
-----------------------------------------------------------------------------
(* A call: its detectors D detect on the spots P of the text T.            *)

Ordered(found) == \A m, n \in DOMAIN found : m < n => found[m].start <= found[n].start

\* What a call is asked: contents detectors have positions and get chunks, the others
\* get the whole text.
Asks(call, D, P, T) ==
    /\ call.detectors = D /\ Split(call.inputs, P, T)
    /\ call.type = "contents" => \A d \in DOMAIN D : IsContents(d)
    /\ call.type # "contents" => /\ \A d \in DOMAIN D : ~IsContents(d)
                                 /\ T \in Seq(ToSet(T)) /\ P = Whole(T) /\ call.inputs[1][2] = T

\* While it chunks, each task has the chunks of the inputs that came back.
Chunks(call, D, P, T) ==
    call.stage = "chunk" =>
        /\ call.type = "contents" /\ call.todo = DOMAIN D /\ call.found = <<>>
        /\ call.left = [d \in DOMAIN D |-> call.left[d]]
        /\ call.chunks = [d \in DOMAIN D |-> call.chunks[d]]
        /\ \A d \in DOMAIN D : call.left[d] \subseteq DOMAIN call.inputs
        /\ \A d \in DOMAIN D : Chunked(call.chunks[d], DOMAIN call.inputs \ call.left[d], P, T)

\* While it detects, it has what is reported by the detectors that have answered.
Detects(call, D, P, T) ==
    call.stage = "detect" =>
        /\ call.todo \subseteq DOMAIN D
        /\ Lists(call.found, ReportedBy(DOMAIN D \ call.todo, D, T, P), Family(D, P, T))
        /\ call.type = "contents" => \A d \in DOMAIN D : Chunked(call.chunks[d], DOMAIN call.inputs, P, T)

\* When it succeeds, it has all that is reported.
Found(call, D, P, T) ==
    call.stage = "ok" =>
        /\ Lists(call.found, Reported(D, T, P), Family(D, P, T))
        /\ call.type = "contents" => Ordered(call.found)

Exact(call, D, P, T) == Asks(call, D, P, T) /\ Chunks(call, D, P, T) /\ Detects(call, D, P, T) /\ Found(call, D, P, T)

\* The start of a detection is a number.
LEMMA StartsInt ==
    ASSUME NEW D, NEW P, NEW T, NEW inputs, Split(inputs, P, T)
    PROVE  \A x \in DOMAIN Family(D, P, T) : Family(D, P, T)[x].start \in Int
<1> SUFFICES ASSUME NEW x \in DOMAIN Family(D, P, T) PROVE Family(D, P, T)[x].start \in Int
  OBVIOUS
<1>1. x \in (DOMAIN D) \X P /\ Family(D, P, T)[x] = DetectionOf(T, x)
  BY DEF Family
<1>2. PICK y \in P : y = x[2]
  BY <1>1
<1>3. PICK i \in DOMAIN inputs : y[1] = i
  BY DEF Split
<1>4. PICK offset, text : Placed(i, offset, text, P, T)
  BY DEF Split
<1>5. PICK last : y \in {i} \X (offset..last) /\ offset \in Nat /\ last \in Int
  <2>1. {z \in P : z[1] = i} = {i} \X (offset..(offset + Len(text) - 1)) /\ offset \in Nat /\ Len(text) \in Nat
    BY <1>4 DEF Placed
  <2>2. offset + Len(text) - 1 \in Int
    BY <2>1
  <2>3. y \in {i} \X (offset..(offset + Len(text) - 1))
    BY <1>3, <2>1
  <2> QED
    BY <2>1, <2>2, <2>3
<1>6. y[2] \in Int
  BY <1>5
<1>7. DetectionOf(T, x).start = IF IsContents(x[1]) THEN y[2] ELSE 0
  BY <1>2 DEF DetectionOf
<1> QED
  BY <1>1, <1>6, <1>7

\* A call starts with everything left to do.
LEMMA NewExact ==
    ASSUME NEW D, NEW P, NEW T, NEW type, NEW inputs, NEW call, call = NewCall(type, inputs, D), Split(inputs, P, T),
           type = "contents" => \A d \in DOMAIN D : IsContents(d),
           type # "contents" => /\ \A d \in DOMAIN D : ~IsContents(d)
                                /\ T \in Seq(ToSet(T)) /\ P = Whole(T) /\ inputs[1][2] = T
    PROVE  Exact(call, D, P, T)
<1>1. /\ call.type = type /\ call.inputs = inputs /\ call.detectors = D
      /\ call.stage = (IF type = "contents" THEN "chunk" ELSE "detect")
      /\ call.left = [d \in DOMAIN D |-> DOMAIN inputs] /\ call.chunks = [d \in DOMAIN D |-> <<>>]
      /\ call.todo = DOMAIN D /\ call.found = <<>>
  BY DEF NewCall
<1>2. Asks(call, D, P, T)
  BY <1>1 DEF Asks
<1>3. Chunks(call, D, P, T)
  <2>1. \A d \in DOMAIN D : call.left[d] = DOMAIN call.inputs /\ call.chunks[d] = <<>>
    BY <1>1
  <2>2. \A d \in DOMAIN D : Chunked(call.chunks[d], DOMAIN call.inputs \ call.left[d], P, T)
    <3> SUFFICES ASSUME NEW d \in DOMAIN D PROVE Chunked(call.chunks[d], DOMAIN call.inputs \ call.left[d], P, T)
      OBVIOUS
    <3>1. DOMAIN call.inputs \ call.left[d] = {} /\ call.chunks[d] = <<>>
      BY <2>1
    <3>2. Chunked(<<>>, {}, P, T)
      BY ChunkedNothing
    <3> QED
      BY <3>1, <3>2
  <2>3. call.left = [d \in DOMAIN D |-> call.left[d]] /\ call.chunks = [d \in DOMAIN D |-> call.chunks[d]]
    BY <1>1
  <2>4. call.stage = "chunk" => call.type = "contents"
    BY <1>1
  <2> QED
    BY <1>1, <2>1, <2>2, <2>3, <2>4 DEF Chunks
<1>4. Detects(call, D, P, T)
  <2>1. ReportedBy(DOMAIN D \ call.todo, D, T, P) = {}
    BY <1>1 DEF ReportedBy
  <2>2. call.stage = "detect" => call.type # "contents"
    BY <1>1
  <2> QED
    BY <1>1, <2>1, <2>2, ListsNothing DEF Detects
<1>5. Found(call, D, P, T)
  BY <1>1 DEF Found
<1> QED
  BY <1>2, <1>3, <1>4, <1>5 DEF Exact

\* The chunks of an input are added, in whatever order the inputs come back.
LEMMA ChunkReplyExact ==
    ASSUME Shape, NEW k \in DOMAIN calls, NEW d \in DOMAIN calls[k].detectors, ChunkReply(k, d),
           NEW D, NEW P, NEW T, Exact(calls[k], D, P, T)
    PROVE  Exact(calls'[k], D, P, T)
<1>1. PICK i \in InFlight(calls[k], d) :
         calls' = [calls EXCEPT
            ![k].left[d] = @ \ {i},
            ![k].chunks[d] = @ \o chunk(Chunker[d], calls[k].inputs[i][1], calls[k].inputs[i][2])]
  BY DEF ChunkReply
<1>2. PICK call, new : call = calls[k] /\ new = calls'[k]
  OBVIOUS
<1>3. /\ IsCall(call) /\ call.stage = "chunk" /\ d \in DOMAIN D /\ call.detectors = D
      /\ Asks(call, D, P, T) /\ Chunks(call, D, P, T)
  BY <1>2 DEF Shape, ChunkReply, Chunking, Exact, Asks
<1>4. /\ call.left = [e \in DOMAIN D |-> call.left[e]] /\ call.chunks = [e \in DOMAIN D |-> call.chunks[e]]
      /\ \A e \in DOMAIN D : /\ call.left[e] \subseteq DOMAIN call.inputs
                             /\ Chunked(call.chunks[e], DOMAIN call.inputs \ call.left[e], P, T)
  BY <1>3 DEF Chunks
<1>5. i \in call.left[d] /\ i \in DOMAIN call.inputs
  BY <1>2, <1>3, <1>4 DEF InFlight
<1>6. PICK more : more = chunk(Chunker[d], call.inputs[i][1], call.inputs[i][2])
  OBVIOUS
<1>7. Chunked(more, {i}, P, T)
  <2>1. Placed(i, call.inputs[i][1], call.inputs[i][2], P, T)
    BY <1>3, <1>5 DEF Asks, Split
  <2> QED
    BY <1>6, <2>1, ChunkedInput
<1>8. PICK left, chunks : /\ left = [call.left EXCEPT ![d] = @ \ {i}]
                          /\ chunks = [call.chunks EXCEPT ![d] = @ \o more]
  OBVIOUS
<1>9. new = [[call EXCEPT !.left = left] EXCEPT !.chunks = chunks]
  BY <1>1, <1>2, <1>3, <1>6, <1>8
<1>10. /\ new.type = call.type /\ new.inputs = call.inputs /\ new.detectors = call.detectors
       /\ new.stage = "chunk" /\ new.left = left /\ new.chunks = chunks /\ new.todo = call.todo
       /\ new.found = call.found
  BY <1>3, <1>9 DEF IsCall
<1>11. /\ left = [e \in DOMAIN D |-> left[e]] /\ left[d] = call.left[d] \ {i}
       /\ \A e \in DOMAIN D : e # d => left[e] = call.left[e]
  BY <1>3, <1>4, <1>8
<1>12. /\ chunks = [e \in DOMAIN D |-> chunks[e]] /\ chunks[d] = call.chunks[d] \o more
       /\ \A e \in DOMAIN D : e # d => chunks[e] = call.chunks[e]
  BY <1>3, <1>4, <1>8
<1>13. ASSUME NEW e \in DOMAIN D
       PROVE  left[e] \subseteq DOMAIN call.inputs /\ Chunked(chunks[e], DOMAIN call.inputs \ left[e], P, T)
  <2>1. CASE e # d
    BY <1>4, <1>11, <1>12, <2>1
  <2>2. CASE e = d
    <3>1. Chunked(call.chunks[d] \o more, (DOMAIN call.inputs \ call.left[d]) \union {i}, P, T)
      <4>1. (DOMAIN call.inputs \ call.left[d]) \intersect {i} = {}
        BY <1>5
      <4>2. Chunked(call.chunks[d], DOMAIN call.inputs \ call.left[d], P, T)
        BY <1>3, <1>4
      <4> QED
        BY <1>7, <4>1, <4>2, ChunkedJoined
    <3>2. (DOMAIN call.inputs \ call.left[d]) \union {i} = DOMAIN call.inputs \ left[d]
      BY <1>5, <1>11
    <3>3. left[d] \subseteq DOMAIN call.inputs
      BY <1>3, <1>4, <1>11
    <3> QED
      BY <1>12, <2>2, <3>1, <3>2, <3>3
  <2> QED
    BY <2>1, <2>2
<1>14. Asks(new, D, P, T)
  BY <1>3, <1>10 DEF Asks
<1>15. Chunks(new, D, P, T)
  BY <1>3, <1>10, <1>11, <1>12, <1>13 DEF Chunks
<1>16. Detects(new, D, P, T) /\ Found(new, D, P, T)
  BY <1>10 DEF Detects, Found
<1> QED
  BY <1>2, <1>14, <1>15, <1>16 DEF Exact

\* A call that has failed is asked nothing more.
LEMMA FailedExact ==
    ASSUME NEW D, NEW P, NEW T, NEW call, IsCall(call), Exact(call, D, P, T),
           NEW errors, NEW error, NEW stage, stage = "error" \/ (stage = "chunk" /\ call.stage = "chunk"),
           NEW new, new = [[[call EXCEPT !.stage = stage] EXCEPT !.errors = errors] EXCEPT !.error = error]
    PROVE  Exact(new, D, P, T)
<1>1. /\ new.type = call.type /\ new.inputs = call.inputs /\ new.detectors = call.detectors
      /\ new.stage = stage /\ new.left = call.left /\ new.chunks = call.chunks /\ new.todo = call.todo
      /\ new.found = call.found
  BY DEF IsCall
<1>2. Asks(new, D, P, T)
  BY <1>1 DEF Exact, Asks
<1>3. Chunks(new, D, P, T)
  BY <1>1 DEF Exact, Chunks
<1>4. Detects(new, D, P, T) /\ Found(new, D, P, T)
  BY <1>1 DEF Detects, Found
<1> QED
  BY <1>2, <1>3, <1>4 DEF Exact

\* A failed chunk task leaves the chunks alone.
LEMMA ChunkFailsExact ==
    ASSUME Shape, NEW k \in DOMAIN calls, NEW d \in DOMAIN calls[k].detectors, ChunkFails(k, d),
           NEW D, NEW P, NEW T, Exact(calls[k], D, P, T)
    PROVE  Exact(calls'[k], D, P, T)
<1>1. PICK call, new : call = calls[k] /\ new = calls'[k]
  OBVIOUS
<1>2. PICK e : calls' = [calls EXCEPT ![k].errors[d] = e]
  BY <1>1 DEF ChunkFails
<1>3. IsCall(call) /\ call.stage = "chunk" /\ Exact(call, D, P, T)
  BY <1>1 DEF ChunkFails, Chunking, Shape
<1>4. PICK errors : errors = [call.errors EXCEPT ![d] = e]
  OBVIOUS
<1>5. new = [call EXCEPT !.errors = errors]
  BY <1>1, <1>2, <1>4
<1>6. new = [[[call EXCEPT !.stage = "chunk"] EXCEPT !.errors = errors] EXCEPT !.error = call.error]
  BY <1>3, <1>5 DEF IsCall
<1>7. Exact(new, D, P, T)
  BY <1>3, <1>6, FailedExact, ZenonT(30)
<1> QED
  BY <1>1, <1>7

\* A failed detector leaves nothing to say of the call.
LEMMA DetectorFailsExact ==
    ASSUME Shape, NEW k \in DOMAIN calls, NEW d, DetectorFails(k, d), NEW D, NEW P, NEW T, Exact(calls[k], D, P, T)
    PROVE  Exact(calls'[k], D, P, T)
<1>1. PICK call, new : call = calls[k] /\ new = calls'[k]
  OBVIOUS
<1>2. PICK e : calls' = [calls EXCEPT ![k].stage = "error", ![k].error = e]
  BY <1>1 DEF DetectorFails
<1>3. IsCall(call) /\ Exact(call, D, P, T)
  BY <1>1 DEF Shape
<1>4. new = [[call EXCEPT !.stage = "error"] EXCEPT !.error = e]
  BY <1>1, <1>2
<1>5. new = [[[call EXCEPT !.stage = "error"] EXCEPT !.errors = call.errors] EXCEPT !.error = e]
  BY <1>3, <1>4 DEF IsCall
<1>6. Exact(new, D, P, T)
  BY <1>3, <1>5, FailedExact, ZenonT(30)
<1> QED
  BY <1>1, <1>6

\* When all chunk tasks have ended without an error, all inputs are chunked, and the
\* chunks that a detector gets from another task of its chunker serve as well.
LEMMA ChunksDoneExact ==
    ASSUME Shape, NEW k \in DOMAIN calls, ChunksDone(k), NEW D, NEW P, NEW T, Exact(calls[k], D, P, T)
    PROVE  Exact(calls'[k], D, P, T)
<1>1. PICK call, new : call = calls[k] /\ new = calls'[k]
  OBVIOUS
<1>2. /\ IsCall(call) /\ call.stage = "chunk" /\ call.detectors = D /\ Exact(call, D, P, T)
      /\ \A d \in DOMAIN D : TaskEnded(call, d)
  BY <1>1 DEF Shape, ChunksDone, Exact, Asks
<1>3. CASE TaskErrors(call) # {}
  <2>1. PICK e : calls' = [calls EXCEPT ![k].stage = "error", ![k].error = e]
    <3>1. TaskErrors(calls[k]) # {}
      BY <1>1, <1>3
    <3> QED
      BY <3>1, Zenon DEF ChunksDone, TaskErrors
  <2>2. new = [[call EXCEPT !.stage = "error"] EXCEPT !.error = e]
    BY <1>1, <2>1
  <2>3. new = [[[call EXCEPT !.stage = "error"] EXCEPT !.errors = call.errors] EXCEPT !.error = e]
    BY <1>2, <2>2 DEF IsCall
  <2>4. Exact(new, D, P, T)
    BY <1>2, <2>3, FailedExact, ZenonT(30)
  <2> QED
    BY <1>1, <2>4
<1>4. CASE TaskErrors(call) = {}
  <2>1. PICK last \in [DOMAIN D -> DOMAIN D] :
          calls' = [calls EXCEPT ![k].stage = "detect", ![k].chunks = [d \in DOMAIN last |-> @[last[d]]]]
    <3>1. TaskErrors(calls[k]) = {}
      BY <1>1, <1>4
    <3>2. PICK last \in [DOMAIN calls[k].detectors -> DOMAIN calls[k].detectors] :
             calls' = [calls EXCEPT ![k].stage = "detect", ![k].chunks = [d \in DOMAIN last |-> @[last[d]]]]
      BY <3>1, Zenon DEF ChunksDone, TaskErrors
    <3>3. last \in [DOMAIN D -> DOMAIN D]
      BY <1>1, <1>2
    <3> QED
      BY <3>2, <3>3
  <2>2. PICK chunks : chunks = [d \in DOMAIN last |-> call.chunks[last[d]]]
    OBVIOUS
  <2>3. new = [[call EXCEPT !.stage = "detect"] EXCEPT !.chunks = chunks]
    BY <1>1, <1>2, <2>1, <2>2 DEF IsCall
  <2>4. /\ new.type = call.type /\ new.inputs = call.inputs /\ new.detectors = call.detectors
        /\ new.stage = "detect" /\ new.left = call.left /\ new.chunks = chunks /\ new.todo = call.todo
        /\ new.found = call.found
    BY <1>2, <2>3 DEF IsCall
  <2>5. /\ call.type = "contents" /\ call.todo = DOMAIN D /\ call.found = <<>>
        /\ \A d \in DOMAIN D : Chunked(call.chunks[d], DOMAIN call.inputs \ call.left[d], P, T)
    BY <1>2 DEF Exact, Chunks
  <2>6. ASSUME NEW d \in DOMAIN D
        PROVE  Chunked(chunks[d], DOMAIN call.inputs, P, T)
    <3>1. last[d] \in DOMAIN D /\ chunks[d] = call.chunks[last[d]]
      BY <2>1, <2>2
    <3>2. call.errors[last[d]] = NoError
      BY <1>2, <1>4, <3>1 DEF TaskErrors
    <3>3. call.left[last[d]] = {}
      BY <1>2, <3>1, <3>2 DEF TaskEnded
    <3>4. DOMAIN call.inputs \ call.left[last[d]] = DOMAIN call.inputs
      BY <3>3
    <3> QED
      BY <2>5, <3>1, <3>4
  <2>7. Asks(new, D, P, T)
    BY <1>2, <2>4 DEF Exact, Asks
  <2>8. Detects(new, D, P, T)
    <3>1. ReportedBy(DOMAIN D \ new.todo, D, T, P) = {}
      BY <2>4, <2>5 DEF ReportedBy
    <3>2. Lists(new.found, ReportedBy(DOMAIN D \ new.todo, D, T, P), Family(D, P, T))
      BY <2>4, <2>5, <3>1, ListsNothing
    <3>3. \A d \in DOMAIN D : Chunked(new.chunks[d], DOMAIN new.inputs, P, T)
      BY <2>4, <2>6
    <3>4. new.todo \subseteq DOMAIN D
      BY <2>4, <2>5
    <3> QED
      BY <3>2, <3>3, <3>4 DEF Detects
  <2>9. Chunks(new, D, P, T) /\ Found(new, D, P, T)
    BY <2>4 DEF Chunks, Found
  <2> QED
    BY <1>1, <2>7, <2>8, <2>9 DEF Exact
<1> QED
  BY <1>3, <1>4

\* What the detector reports is added; the last one to answer has the whole sorted.
LEMMA DetectorReplyExact ==
    ASSUME Shape, NEW k \in DOMAIN calls, NEW d, DetectorReply(k, d), NEW D, NEW P, NEW T, Exact(calls[k], D, P, T)
    PROVE  Exact(calls'[k], D, P, T)
<1>1. PICK call, new : call = calls[k] /\ new = calls'[k]
  OBVIOUS
<1>2. /\ IsCall(call) /\ call.stage = "detect" /\ call.detectors = D /\ d \in call.todo
      /\ Asks(call, D, P, T) /\ Detects(call, D, P, T)
  BY <1>1 DEF Shape, DetectorReply, Exact, Asks
<1>3. PICK all : all = IF call.type = "contents" THEN detect_text_contents(d, call.chunks[d])
                       ELSE detect_text(d, call.inputs[1][2])
  OBVIOUS
<1>4. PICK more : more = call.found \o Kept(d, D[d], all)
  OBVIOUS
<1>5. PICK last \in BOOLEAN : last <=> call.todo = {d}
  OBVIOUS
<1>6. PICK found, todo, stage :
         /\ found = (IF last /\ call.type = "contents" THEN SortedByStart(more) ELSE more) /\ todo = call.todo \ {d}
         /\ stage = (IF last THEN "ok" ELSE "detect")
  OBVIOUS
<1>7. calls' = [calls EXCEPT ![k].todo = todo, ![k].stage = stage, ![k].found = found]
  BY <1>1, <1>2, <1>3, <1>4, <1>5, <1>6 DEF DetectorReply
<1>8. new = [[[call EXCEPT !.todo = todo] EXCEPT !.stage = stage] EXCEPT !.found = found]
  BY <1>1, <1>2, <1>7
<1>9. /\ new.type = call.type /\ new.inputs = call.inputs /\ new.detectors = call.detectors
      /\ new.stage = stage /\ new.left = call.left /\ new.chunks = call.chunks /\ new.todo = todo
      /\ new.found = found
  BY <1>2, <1>8 DEF IsCall
<1>10. /\ call.todo \subseteq DOMAIN D /\ d \in DOMAIN D
       /\ Lists(call.found, ReportedBy(DOMAIN D \ call.todo, D, T, P), Family(D, P, T))
       /\ call.type = "contents" => \A e \in DOMAIN D : Chunked(call.chunks[e], DOMAIN call.inputs, P, T)
  BY <1>2 DEF Detects
<1>11. Lists(all, Scored(d, P, T), Family(D, P, T))
  <2>1. CASE call.type = "contents"
    <3>1. IsContents(d) /\ \A x \in P : x[1] \in DOMAIN call.inputs
      BY <1>2, <1>10, <2>1 DEF Asks, Split
    <3>2. Chunked(call.chunks[d], DOMAIN call.inputs, P, T)
      BY <1>10, <2>1
    <3>3. Lists(detect_text_contents(d, call.chunks[d]), Scored(d, P, T), Family(D, P, T))
      BY <1>10, <3>1, <3>2, ContentsListed
    <3> QED
      BY <1>3, <2>1, <3>3
  <2>2. CASE call.type # "contents"
    <3>1. ~IsContents(d) /\ T \in Seq(ToSet(T)) /\ P = Whole(T) /\ call.inputs[1][2] = T
      BY <1>2, <1>10, <2>2 DEF Asks
    <3>2. Lists(detect_text(d, T), Scored(d, Whole(T), T), Family(D, Whole(T), T))
      BY <1>10, <3>1, TextListed
    <3> QED
      BY <1>3, <2>2, <3>1, <3>2
  <2> QED
    BY <2>1, <2>2
<1>12. Lists(more, ReportedBy(DOMAIN D \ todo, D, T, P), Family(D, P, T))
  <2>1. Lists(Kept(d, D[d], all), ReportedBy({d}, D, T, P), Family(D, P, T))
    BY <1>10, <1>11, KeptListed
  <2>2. ReportedBy(DOMAIN D \ call.todo, D, T, P) \intersect ReportedBy({d}, D, T, P) = {}
    BY <1>2 DEF ReportedBy
  <2>3. Lists(more, ReportedBy(DOMAIN D \ call.todo, D, T, P) \union ReportedBy({d}, D, T, P), Family(D, P, T))
    BY <1>4, <1>10, <2>1, <2>2, ListsJoined
  <2>4. ReportedBy(DOMAIN D \ call.todo, D, T, P) \union ReportedBy({d}, D, T, P) = ReportedBy(DOMAIN D \ todo, D, T, P)
    BY <1>6, <1>10 DEF ReportedBy
  <2> QED
    BY <2>3, <2>4
<1>13. Asks(new, D, P, T)
  BY <1>2, <1>9 DEF Asks
<1>14. Chunks(new, D, P, T)
  BY <1>6, <1>9 DEF Chunks
<1>15. CASE last
  <2>1. todo = {} /\ stage = "ok"
    BY <1>5, <1>6, <1>15
  <2>2. ReportedBy(DOMAIN D \ todo, D, T, P) = Reported(D, T, P)
    BY <2>1 DEF ReportedBy, Reported
  <2>3. Lists(more, Reported(D, T, P), Family(D, P, T))
    BY <1>12, <2>2
  <2>4. Lists(found, Reported(D, T, P), Family(D, P, T)) /\ (call.type = "contents" => Ordered(found))
    <3>1. CASE call.type # "contents"
      BY <1>6, <2>3, <3>1
    <3>2. CASE call.type = "contents"
      <4>1. \A x \in DOMAIN Family(D, P, T) : Family(D, P, T)[x].start \in Int
        BY <1>2, StartsInt DEF Asks
      <4>2. /\ Lists(SortedByStart(more), Reported(D, T, P), Family(D, P, T))
            /\ \A i, j \in DOMAIN SortedByStart(more) :
                  i < j => SortedByStart(more)[i].start <= SortedByStart(more)[j].start
        BY <2>3, <4>1, ListsSorted
      <4>3. found = SortedByStart(more)
        BY <1>6, <1>15, <3>2
      <4> QED
        BY <4>2, <4>3 DEF Ordered
    <3> QED
      BY <3>1, <3>2
  <2>5. Found(new, D, P, T)
    BY <1>9, <2>4 DEF Found
  <2>6. Detects(new, D, P, T)
    BY <1>9, <2>1 DEF Detects
  <2> QED
    BY <1>1, <1>13, <1>14, <2>5, <2>6 DEF Exact
<1>16. CASE ~last
  <2>1. stage = "detect" /\ found = more
    BY <1>6, <1>16
  <2>2. Found(new, D, P, T)
    BY <1>9, <2>1 DEF Found
  <2>3. todo \subseteq DOMAIN D
    BY <1>6, <1>10
  <2>4. Detects(new, D, P, T)
    BY <1>9, <1>10, <1>12, <2>1, <2>3 DEF Detects
  <2> QED
    BY <1>1, <1>13, <1>14, <2>2, <2>4 DEF Exact
<1> QED
  BY <1>15, <1>16

\* Whatever happens to a call, it stays exact.
LEMMA CallExact ==
    ASSUME Shape, NEW k \in DOMAIN calls,
           \/ ChunksDone(k)
           \/ \E d \in DOMAIN calls[k].detectors :
                ChunkReply(k, d) \/ ChunkFails(k, d) \/ DetectorReply(k, d) \/ DetectorFails(k, d),
           NEW D, NEW P, NEW T, Exact(calls[k], D, P, T)
    PROVE  Exact(calls'[k], D, P, T)
<1>1. CASE ChunksDone(k)
  BY <1>1, ChunksDoneExact
<1>2. ASSUME NEW d \in DOMAIN calls[k].detectors,
             ChunkReply(k, d) \/ ChunkFails(k, d) \/ DetectorReply(k, d) \/ DetectorFails(k, d)
      PROVE  Exact(calls'[k], D, P, T)
  BY <1>2, ChunkReplyExact, ChunkFailsExact, DetectorReplyExact, DetectorFailsExact
<1> QED
  BY <1>1, <1>2
-----------------------------------------------------------------------------
(* The detections of a choice: those of each type of detector, joined.     *)

\* The contents detections are in the order of their positions.
InOrder(found) ==
    \A m, n \in DOMAIN found :
        m < n /\ IsContents(found[m].detector) /\ IsContents(found[n].detector) => found[m].start <= found[n].start

\* A list of what is reported, with the contents detections in order, is what the
\* property asks for.
LEMMA ListsExactly ==
    ASSUME NEW D, NEW P, NEW T, NEW found, Lists(found, Reported(D, T, P), Family(D, P, T)), InOrder(found)
    PROVE  IsExactly(found, D, T, P)
<1>1. PICK X, f : X = Reported(D, T, P) /\ f = Family(D, P, T)
  OBVIOUS
<1>2. PICK from : Numbering(from, found, X, f)
  BY <1>1 DEF Lists
<1>3. PICK n \in Nat : n = Len(found) /\ DOMAIN found = 1..n
  BY DEF Lists
<1>4. /\ from \in [1..n -> X] /\ (\A i \in 1..n : found[i] = f[from[i]])
      /\ (\A i, j \in 1..n : from[i] = from[j] => i = j) /\ (\A x \in X : \E i \in 1..n : from[i] = x)
  BY <1>2, <1>3 DEF Numbering
<1>5. from \in Bijection(DOMAIN found, X)
  BY <1>3, <1>4 DEF Bijection, Injection, Surjection, IsInjective
<1>6. ASSUME NEW i \in DOMAIN found PROVE found[i] = DetectionOf(T, from[i])
  <2>1. from[i] \in X /\ found[i] = f[from[i]]
    BY <1>3, <1>4
  <2>2. from[i] \in (DOMAIN D) \X P
    BY <1>1, <2>1 DEF Reported
  <2> QED
    BY <1>1, <2>1, <2>2 DEF Family
<1> QED
  BY <1>1, <1>5, <1>6 DEF IsExactly, InOrder

\* The detectors of one type among D.
OfType(D, type) == [d \in {x \in DOMAIN D : DetectorType[x] = type} |-> D[d]]
ReportedOf(type, D, T, P) == {x \in Reported(D, T, P) : DetectorType[x[1]] = type}

\* What the detectors of one type report is what is reported of that type.
LEMMA ListsOfType ==
    ASSUME NEW D, NEW P, NEW T, NEW type, NEW s,
           Lists(s, Reported(OfType(D, type), T, P), Family(OfType(D, type), P, T))
    PROVE  Lists(s, ReportedOf(type, D, T, P), Family(D, P, T))
<1>1. PICK E : E = OfType(D, type)
  OBVIOUS
<1>2. DOMAIN E \subseteq DOMAIN D /\ \A d \in DOMAIN D : d \in DOMAIN E <=> DetectorType[d] = type
  BY <1>1 DEF OfType
<1>3. \A d \in DOMAIN E : E[d] = D[d]
  BY <1>1 DEF OfType
<1>4. PICK X, f, g : X = Reported(E, T, P) /\ f = Family(E, P, T) /\ g = Family(D, P, T)
  OBVIOUS
<1>5. X = ReportedOf(type, D, T, P)
  <2>1. ASSUME NEW x \in X PROVE x \in ReportedOf(type, D, T, P)
    <3>1. x \in (DOMAIN E) \X P /\ x[1] \in DOMAIN E
      BY <1>4 DEF Reported
    <3>2. x \in (DOMAIN D) \X P /\ E[x[1]] = D[x[1]] /\ DetectorType[x[1]] = type
      BY <1>2, <1>3, <3>1
    <3> QED
      BY <1>4, <3>2 DEF Reported, ReportedOf
  <2>2. ASSUME NEW x \in ReportedOf(type, D, T, P) PROVE x \in X
    <3>1. x \in (DOMAIN D) \X P /\ DetectorType[x[1]] = type
      BY DEF Reported, ReportedOf
    <3>2. x \in (DOMAIN E) \X P /\ E[x[1]] = D[x[1]]
      BY <1>2, <1>3, <3>1
    <3> QED
      BY <1>4, <3>2 DEF Reported, ReportedOf
  <2> QED
    BY <2>1, <2>2
<1>6. ASSUME NEW x \in X PROVE x \in DOMAIN g /\ f[x] = g[x]
  <2>1. x \in (DOMAIN E) \X P
    BY <1>4 DEF Reported
  <2>2. x \in (DOMAIN D) \X P
    BY <1>2, <2>1
  <2> QED
    BY <1>4, <2>1, <2>2 DEF Family
<1>7. PICK phi : phi = [x \in X |-> x]
  OBVIOUS
<1>8. Lists(s, X, f) /\ s = [i \in DOMAIN s |-> s[i]]
  BY <1>1, <1>4 DEF Lists
<1>9. ASSUME NEW i \in DOMAIN s, NEW x \in X, s[i] = f[x] PROVE s[i] = g[phi[x]]
  BY <1>6, <1>7, <1>9
<1>10. Lists(s, {phi[x] : x \in X}, g)
  <2>1. \A x \in X : phi[x] \in DOMAIN g
    BY <1>6, <1>7
  <2>2. \A x, y \in X : phi[x] = phi[y] => x = y
    BY <1>7
  <2> QED
    BY <1>8, <1>9, <2>1, <2>2, ListsMoved
<1>11. {phi[x] : x \in X} = X
  BY <1>7
<1> QED
  BY <1>4, <1>5, <1>10, <1>11

\* The elements of S in some order, each once.
EachOnce(order, n, S) ==
    /\ order \in [1..n -> S] /\ \A i, j \in 1..n : order[i] = order[j] => i = j
    /\ \A type \in S : \E i \in 1..n : order[i] = type

\* Any order of the types has each of them once.
LEMMA TypesOrdered ==
    ASSUME NEW S, S \subseteq {"contents", "generation", "chat", "context"}, NEW order \in SetToSeqs(S)
    PROVE  \E n \in Nat : EachOnce(order, n, S)
<1>1. IsFiniteSet(S)
  <2>1. IsFiniteSet({}) /\ \A A : IsFiniteSet(A) => \A x : IsFiniteSet(A \union {x})
    BY FS_EmptySet, FS_AddElement
  <2>2. PICK A : A = ((({} \union {"contents"}) \union {"generation"}) \union {"chat"}) \union {"context"}
    OBVIOUS
  <2>3. IsFiniteSet(A)
    BY <2>1, <2>2
  <2>4. S \in SUBSET A
    BY <2>2
  <2> QED
    BY <2>3, <2>4, FS_Subset
<1>2. PICK n \in Nat : n = Cardinality(S)
  BY <1>1, FS_CardinalityType
<1>3. order \in [1..n -> S] /\ \A i, j \in 1..n : i # j => order[i] # order[j]
  BY <1>2 DEF SetToSeqs
<1>4. order \in Injection(1..n, S)
  BY <1>3 DEF Injection, IsInjective
<1>5. Cardinality(1..n) = n
  <2>1. Cardinality(1..n) = IF 1 > n THEN 0 ELSE n - 1 + 1
    BY FS_Interval
  <2> QED
    BY <2>1
<1>6. order \in Surjection(1..n, S)
  BY <1>1, <1>2, <1>4, <1>5, FS_Injection
<1>7. EachOnce(order, n, S)
  BY <1>3, <1>6 DEF Surjection, EachOnce
<1> QED
  BY <1>7

\* What is found for one type of detector, and for each type in the order of the types.
PartOf(found, type, D, P, T) ==
    /\ Lists(found, ReportedOf(type, D, T, P), Family(D, P, T))
    /\ type = "contents" => Ordered(found)

Typed(s, order, n, D, P, T) ==
    /\ s = [m \in 1..n |-> s[m]] /\ \A i, j \in 1..n : order[i] = order[j] => i = j
    /\ \A m \in 1..n : PartOf(s[m], order[m], D, P, T)
    /\ \A x \in Reported(D, T, P) : \E m \in 1..n : order[m] = DetectorType[x[1]]

NoContents(found) == \A i \in DOMAIN found : ~IsContents(found[i].detector)

\* Other detectors have no contents detections.
LEMMA OthersNoContents ==
    ASSUME NEW D, NEW P, NEW T, NEW type, type # "contents", NEW s, Lists(s, ReportedOf(type, D, T, P), Family(D, P, T))
    PROVE  NoContents(s)
<1>1. PICK from : Numbering(from, s, ReportedOf(type, D, T, P), Family(D, P, T))
  BY DEF Lists
<1>2. DOMAIN s = 1..Len(s)
  BY DEF Lists
<1>3. ASSUME NEW i \in DOMAIN s PROVE ~IsContents(s[i].detector)
  <2>1. PICK x \in ReportedOf(type, D, T, P) : s[i] = Family(D, P, T)[x]
    BY <1>1, <1>2 DEF Numbering
  <2>2. x \in (DOMAIN D) \X P /\ DetectorType[x[1]] = type
    BY DEF ReportedOf, Reported
  <2>3. s[i] = DetectionOf(T, x)
    BY <2>1, <2>2 DEF Family
  <2>4. s[i].detector = x[1]
    BY <2>3 DEF DetectionOf
  <2> QED
    BY <2>2, <2>4 DEF IsContents
<1> QED
  BY <1>3 DEF NoContents

\* The same of a part.
LEMMA PartNoContents ==
    ASSUME NEW D, NEW P, NEW T, NEW type, NEW s, PartOf(s, type, D, P, T)
    PROVE  type # "contents" => NoContents(s)
  BY OthersNoContents DEF PartOf

\* Joined lists stay in order if only one of them has contents detections.
LEMMA InOrderJoined ==
    ASSUME NEW S, NEW a \in Seq(S), NEW b \in Seq(S), InOrder(a), InOrder(b), NoContents(a) \/ NoContents(b)
    PROVE  InOrder(a \o b)
<1>1. PICK c : c = a \o b
  OBVIOUS
<1>2. /\ c \in Seq(S) /\ Len(a) \in Nat /\ Len(b) \in Nat /\ Len(c) = Len(a) + Len(b)
      /\ \A i \in 1..Len(a) : c[i] = a[i]
      /\ \A i \in 1..Len(c) : i > Len(a) => i - Len(a) \in 1..Len(b) /\ c[i] = b[i - Len(a)]
  BY <1>1, Joined
<1>3. DOMAIN a = 1..Len(a) /\ DOMAIN b = 1..Len(b) /\ DOMAIN c = 1..Len(c)
  BY <1>2
<1>4. ASSUME NEW m \in 1..Len(c), NEW n \in 1..Len(c), m < n, IsContents(c[m].detector), IsContents(c[n].detector)
      PROVE  c[m].start <= c[n].start
  <2>1. CASE n <= Len(a)
    <3>1. m \in 1..Len(a) /\ n \in 1..Len(a)
      BY <1>2, <1>4, <2>1
    <3>2. c[m] = a[m] /\ c[n] = a[n]
      BY <1>2, <3>1
    <3> QED
      BY <1>3, <1>4, <3>1, <3>2 DEF InOrder
  <2>2. CASE m > Len(a)
    <3>1. n > Len(a) /\ m - Len(a) < n - Len(a)
      BY <1>2, <1>4, <2>2
    <3>2. /\ m - Len(a) \in 1..Len(b) /\ c[m] = b[m - Len(a)]
          /\ n - Len(a) \in 1..Len(b) /\ c[n] = b[n - Len(a)]
      BY <1>2, <2>2, <3>1
    <3> QED
      BY <1>3, <1>4, <3>1, <3>2 DEF InOrder
  <2>3. CASE m <= Len(a) /\ n > Len(a)
    <3>1. m \in 1..Len(a) /\ c[m] = a[m]
      BY <1>2, <2>3
    <3>2. n - Len(a) \in 1..Len(b) /\ c[n] = b[n - Len(a)]
      BY <1>2, <2>3
    <3> QED
      BY <1>3, <1>4, <3>1, <3>2 DEF NoContents
  <2> QED
    BY <1>2, <2>1, <2>2, <2>3
<1> QED
  BY <1>1, <1>3, <1>4 DEF InOrder

\* Lists without contents detections, joined.
LEMMA NoContentsJoined ==
    ASSUME NEW S, NEW a \in Seq(S), NEW b \in Seq(S), NoContents(a), NoContents(b)
    PROVE  NoContents(a \o b)
<1>1. PICK c : c = a \o b
  OBVIOUS
<1>2. /\ c \in Seq(S) /\ Len(a) \in Nat /\ Len(b) \in Nat /\ Len(c) = Len(a) + Len(b)
      /\ \A i \in 1..Len(a) : c[i] = a[i]
      /\ \A i \in 1..Len(c) : i > Len(a) => i - Len(a) \in 1..Len(b) /\ c[i] = b[i - Len(a)]
  BY <1>1, Joined
<1>3. DOMAIN a = 1..Len(a) /\ DOMAIN b = 1..Len(b) /\ DOMAIN c = 1..Len(c)
  BY <1>2
<1>4. ASSUME NEW m \in 1..Len(c) PROVE ~IsContents(c[m].detector)
  <2>1. CASE m <= Len(a)
    <3>1. m \in 1..Len(a) /\ c[m] = a[m]
      BY <1>2, <2>1
    <3> QED
      BY <1>3, <3>1 DEF NoContents
  <2>2. CASE m > Len(a)
    <3>1. m - Len(a) \in 1..Len(b) /\ c[m] = b[m - Len(a)]
      BY <1>2, <2>2
    <3> QED
      BY <1>3, <3>1 DEF NoContents
  <2> QED
    BY <1>2, <2>1, <2>2
<1> QED
  BY <1>1, <1>3, <1>4 DEF NoContents

\* s lists the parts one by one.
Parts(s, part, n, f) ==
    /\ s = [i \in 1..n |-> s[i]]
    /\ \A i \in 1..n : Lists(s[i], part[i], f)
    /\ \A i, j \in 1..n : i # j => part[i] \intersect part[j] = {}

\* The parts, flattened.
LEMMA PartsListed ==
    ASSUME NEW n \in Nat, NEW s, NEW part, NEW f, Parts(s, part, n, f)
    PROVE  Lists(FlattenSeq(s), UNION {part[i] : i \in 1..n}, f)
<1>1. s = [i \in 1..n |-> s[i]]
  BY DEF Parts
<1>2. \A i \in 1..n : Lists(s[i], part[i], f)
  BY DEF Parts
<1>3. \A i, j \in 1..n : i # j => part[i] \intersect part[j] = {}
  BY DEF Parts
<1> QED
  BY <1>1, <1>2, <1>3, ListsFlattened

\* Joined, they are all that is reported, and the contents detections, which are in
\* one piece, stay in order.
LEMMA TypesJoined ==
    ASSUME NEW D, NEW P, NEW T, NEW n \in Nat, NEW s, NEW order, Typed(s, order, n, D, P, T)
    PROVE  Lists(FlattenSeq(s), Reported(D, T, P), Family(D, P, T)) /\ InOrder(FlattenSeq(s))
<1>1. PICK part : part = [m \in 1..n |-> ReportedOf(order[m], D, T, P)]
  OBVIOUS
<1>2. ASSUME NEW m \in 1..n PROVE PartOf(s[m], order[m], D, P, T)
  BY Zenon DEF Typed
<1>3. ASSUME NEW m \in 1..n PROVE Lists(s[m], part[m], Family(D, P, T))
  <2>1. part[m] = ReportedOf(order[m], D, T, P)
    BY <1>1
  <2>2. Lists(s[m], ReportedOf(order[m], D, T, P), Family(D, P, T))
    BY <1>2, Zenon DEF PartOf
  <2> QED
    BY <2>1, <2>2, Zenon
<1>4. ASSUME NEW i \in 1..n, NEW j \in 1..n, i # j PROVE part[i] \intersect part[j] = {}
  <2>1. order[i] # order[j]
    BY <1>4 DEF Typed
  <2> QED
    BY <1>1, <2>1 DEF ReportedOf
<1>5. Lists(FlattenSeq(s), UNION {part[m] : m \in 1..n}, Family(D, P, T))
  <2>1. Parts(s, part, n, Family(D, P, T))
    BY <1>3, <1>4 DEF Parts, Typed
  <2> QED
    BY <2>1, PartsListed
<1>6. UNION {part[m] : m \in 1..n} = Reported(D, T, P)
  <2>1. ASSUME NEW x \in Reported(D, T, P) PROVE \E m \in 1..n : x \in part[m]
    BY <1>1 DEF ReportedOf, Typed
  <2>2. ASSUME NEW m \in 1..n, NEW x \in part[m] PROVE x \in Reported(D, T, P)
    BY <1>1 DEF ReportedOf
  <2> QED
    BY <2>1, <2>2
<1>7. PICK R : R = Range(Family(D, P, T))
  OBVIOUS
<1>8. ASSUME NEW m \in 1..n
      PROVE  s[m] \in Seq(R) /\ InOrder(s[m]) /\ (order[m] # "contents" => NoContents(s[m]))
  <2>1. s[m] \in Seq(R)
    BY <1>3, <1>7 DEF Lists
  <2>2. order[m] # "contents" => NoContents(s[m])
    <3>1. PartOf(s[m], order[m], D, P, T)
      BY <1>2, Zenon
    <3> QED
      BY <3>1, PartNoContents
  <2>3. CASE order[m] = "contents"
    <3>1. Ordered(s[m])
      BY <1>2, <2>3, Zenon DEF PartOf
    <3> QED
      BY <2>1, <2>3, <3>1 DEF Ordered, InOrder
  <2>4. CASE order[m] # "contents"
    BY <2>1, <2>2, <2>4 DEF NoContents, InOrder
  <2> QED
    BY <2>1, <2>2, <2>3, <2>4
<1>9. InOrder(FlattenSeq(s))
  <2>1. s = [m \in 1..n |-> s[m]]
    BY DEF Typed
  <2>2. Len(s) = n
    BY <2>1
  <2>3. CASE n = 0
    <3>1. FlattenSeq(s) = s /\ DOMAIN s = {}
      BY <2>1, <2>3, <2>2, FlattenNothing
    <3> QED
      BY <3>1 DEF InOrder
  <2>4. CASE n > 0
    <3> DEFINE before(m) == \A j \in 1..m : order[j] # "contents"
               G == [m \in 1..n |-> {a \in Seq(R) : InOrder(a) /\ (before(m) => NoContents(a))}]
    <3>1. s[1] \in G[1]
      <4>1. 1 \in 1..n /\ (before(1) => order[1] # "contents")
        BY <2>4
      <4> HIDE DEF before
      <4> QED
        BY <1>8, <4>1
    <3>2. ASSUME NEW m \in 2..n, NEW a \in G[m - 1] PROVE a \o s[m] \in G[m]
      <4>1. m - 1 \in 1..n /\ m \in 1..n
        OBVIOUS
      <4>2. a \in Seq(R) /\ InOrder(a) /\ (before(m - 1) => NoContents(a))
        <5> HIDE DEF before
        <5> QED
          BY <3>2, <4>1
      <4>3. order[m] = "contents" => before(m - 1)
        <5>1. \A j \in 1..(m - 1) : j \in 1..n /\ j # m
          OBVIOUS
        <5> QED
          BY <4>1, <5>1 DEF Typed
      <4>4. before(m) => before(m - 1) /\ order[m] # "contents"
        <5>1. \A j \in 1..(m - 1) : j \in 1..m
          OBVIOUS
        <5>2. m \in 1..m
          OBVIOUS
        <5> QED
          BY <5>1, <5>2
      <4> HIDE DEF before, G
      <4>5. a \o s[m] \in Seq(R)
        BY <1>8, <4>1, <4>2, Joined
      <4>6. InOrder(a \o s[m])
        <5>1. NoContents(a) \/ NoContents(s[m])
          BY <1>8, <4>1, <4>2, <4>3
        <5> QED
          BY <1>8, <4>1, <4>2, <5>1, InOrderJoined
      <4>7. before(m) => NoContents(a \o s[m])
        BY <1>8, <4>1, <4>2, <4>4, NoContentsJoined
      <4> QED
        BY <4>1, <4>5, <4>6, <4>7 DEF G
    <3>3. FlattenSeq(s) \in G[n]
      <4> HIDE DEF G
      <4> QED
        BY <2>4, <2>2, <3>1, <3>2, FlattenInduct
    <3>4. n \in 1..n
      BY <2>4
    <3> HIDE DEF before
    <3> QED
      BY <3>3, <3>4
  <2> QED
    BY <2>3, <2>4
<1> QED
  BY <1>5, <1>6, <1>9
-----------------------------------------------------------------------------
(* The handler.                                                            *)

\* What the detectors of a call are asked about.
TextOf(k) == IF k = InputCall THEN req.text ELSE Outputs[k[2]].text
SpotsOf(k) == IF k = InputCall THEN Covered(req) ELSE Whole(Outputs[k[2]].text)
DetectorsOf(k) == IF k = InputCall THEN req.input ELSE Group(k[3])

\* The calls that are made for the output.
AskedCalls ==
    {k \in {"output"} \X (DOMAIN Outputs) \X {DetectorType[d] : d \in DOMAIN req.output} : Asked(k[2], k[3])}

Sources == req \in Requests /\ (choices = <<>> \/ choices \in Replies)

\* Only detectors of the configuration are asked, and of the type the handler asks.
Admitted ==
    pc \in {"input", "await input", "tokenize", "generate", "output", "await output"} =>
        /\ \A d \in DOMAIN req.input : IsContents(d)
        /\ \A d \in DOMAIN req.output : d \in DOMAIN DetectorType

CallsExact ==
    \A k \in DOMAIN calls : Exact(calls[k], DetectorsOf(k), SpotsOf(k), TextOf(k))

\* The calls there are.
Made ==
    /\ pc \in {"input", "await input", "tokenize"} => DOMAIN req.input # {}
    /\ pc \in {"tokenize", "generate", "output"} => DOMAIN calls \subseteq {InputCall}
    /\ pc = "tokenize" => InputCall \in DOMAIN calls
    /\ pc = "await output" => AskedCalls \subseteq DOMAIN calls /\ DOMAIN calls \subseteq AskedCalls \union {InputCall}

Unasked == choices # <<>> => pc \in {"output", "await output", "done"}

\* The handler is past the input only when nothing is reported on it.
Gated ==
    pc \in {"generate", "output", "await output"} \/ choices # <<>> => Reported(req.input, req.text, Covered(req)) = {}

Unanswered == response.status = 200 => pc = "done"

ExactInv ==
    Sources /\ Admitted /\ CallsExact /\ Made /\ Unasked /\ Gated /\ Unanswered /\ DetectionsExact

\* What a step leaves alone, besides the request.
LEMMA SameRequest ==
    ASSUME req' = req
    PROVE  /\ \A type : Group(type)' = Group(type)
           /\ Reported(req.input, req.text, Covered(req))' = Reported(req.input, req.text, Covered(req))
           /\ TextOf(InputCall)' = TextOf(InputCall) /\ SpotsOf(InputCall)' = SpotsOf(InputCall)
           /\ DetectorsOf(InputCall)' = DetectorsOf(InputCall)
  BY DEF Group, Reported, Covered, Whole, TextOf, SpotsOf, DetectorsOf, InputCall

\* The same, when the choices stay too.
LEMMA SameChoices ==
    ASSUME req' = req, choices' = choices
    PROVE  /\ Outputs' = Outputs /\ AskedCalls' = AskedCalls
           /\ \A k : TextOf(k)' = TextOf(k) /\ SpotsOf(k)' = SpotsOf(k) /\ DetectorsOf(k)' = DetectorsOf(k)
<1>1. Outputs' = Outputs
  BY DEF Outputs
<1>2. AskedCalls' = AskedCalls
  BY <1>1 DEF AskedCalls, Asked
<1>3. Covered(req)' = Covered(req) /\ InputCall' = InputCall /\ \A type : Group(type)' = Group(type)
  BY DEF Covered, Whole, InputCall, Group
<1>4. \A k : TextOf(k)' = TextOf(k)
  BY <1>1, <1>3 DEF TextOf
<1>5. \A k : SpotsOf(k)' = SpotsOf(k)
  BY <1>1, <1>3 DEF SpotsOf, Whole
<1>6. \A k : DetectorsOf(k)' = DetectorsOf(k)
  BY <1>3 DEF DetectorsOf
<1> QED
  BY <1>1, <1>2, <1>4, <1>5, <1>6

\* The steps of calls, and those of the handler that leave the calls alone.
LEMMA CallsOnly ==
    ASSUME NEW k,
           \/ ChunksDone(k)
           \/ \E d : ChunkReply(k, d) \/ ChunkFails(k, d) \/ DetectorReply(k, d) \/ DetectorFails(k, d)
    PROVE  UNCHANGED <<req, pc, choices, response>>
  BY Zenon DEF ChunksDone, ChunkReply, ChunkFails, DetectorReply, DetectorFails

\* Every output has a text, which is empty if its content is not text.
LEMMA TextsSeq ==
    ASSUME Sources
    PROVE  /\ \A i \in DOMAIN Outputs : Outputs[i].text \in Seq(ToSet(Outputs[i].text))
           /\ \A i \in DOMAIN Outputs : Outputs[i].content # "text" => Outputs[i].text = <<>>
<1>1. CASE req.endpoint \in Generates
  <2>1. Outputs = choices
    BY <1>1 DEF Outputs
  <2>2. CASE choices = <<>>
    <3>1. DOMAIN Outputs = {}
      BY <2>1, <2>2
    <3> QED
      BY <3>1
  <2>3. CASE choices \in Replies
    BY <2>1, <2>3, ReplyAssumption
  <2> QED
    BY <2>2, <2>3 DEF Sources
<1>2. CASE req.endpoint \notin Generates
  <2>1. PICK T : T = req.text
    OBVIOUS
  <2>2. Outputs = <<[content |-> "text", text |-> T]>>
    BY <1>2, <2>1 DEF Outputs
  <2>3. DOMAIN Outputs = {1} /\ Outputs[1] = [content |-> "text", text |-> T]
    BY <2>2
  <2>4. Outputs[1].content = "text" /\ Outputs[1].text = T
    BY <2>3
  <2>5. T \in Seq(ToSet(T))
    BY <2>1, RequestAssumption DEF Sources
  <2> QED
    BY <2>3, <2>4, <2>5
<1> QED
  BY <1>1, <1>2
-----------------------------------------------------------------------------
(* Calls.                                                                  *)

\* The input is split by its masks.
LEMMA InputDetectionExact ==
    ASSUME ExactInv, InputDetection, CallsExact
    PROVE  CallsExact'
<1>1. req' = req /\ choices' = choices /\ pc = "input"
  BY DEF InputDetection
<1>2. \A k : TextOf(k)' = TextOf(k) /\ SpotsOf(k)' = SpotsOf(k) /\ DetectorsOf(k)' = DetectorsOf(k)
  BY <1>1, SameChoices
<1>3. CASE calls' = calls
  BY <1>2, <1>3 DEF CallsExact
<1>4. CASE calls' = [k \in {InputCall} |-> NewCall("contents", apply_masks(req.text, req.masks), req.input)]
  <2>1. PICK D, P, T, inputs :
          D = req.input /\ P = Covered(req) /\ T = req.text /\ inputs = apply_masks(req.text, req.masks)
    OBVIOUS
  <2>2. PICK call : call = NewCall("contents", inputs, D)
    OBVIOUS
  <2>3. Split(inputs, P, T)
    BY <2>1, MasksSplit DEF ExactInv, Sources
  <2>4. \A d \in DOMAIN D : IsContents(d)
    BY <1>1, <2>1 DEF ExactInv, Admitted
  <2>5. Exact(call, D, P, T)
    BY <2>2, <2>3, <2>4, NewExact
  <2>6. DOMAIN calls' = {InputCall} /\ calls'[InputCall] = call
    BY <1>4, <2>1, <2>2
  <2>7. TextOf(InputCall) = T /\ SpotsOf(InputCall) = P /\ DetectorsOf(InputCall) = D
    BY <2>1 DEF TextOf, SpotsOf, DetectorsOf
  <2>8. InputCall' = InputCall
    BY DEF InputCall
  <2> QED
    BY <1>2, <2>5, <2>6, <2>7, <2>8 DEF CallsExact
<1> QED
  BY <1>3, <1>4 DEF InputDetection

\* Every choice and type of detector that has a call gets the whole text of the choice.
LEMMA OutputDetectionExact ==
    ASSUME ExactInv, OutputDetection
    PROVE  /\ CallsExact'
           /\ DOMAIN calls' = DOMAIN calls \union AskedCalls
<1>1. req' = req /\ choices' = choices /\ pc = "output"
  BY DEF OutputDetection
<1>2. \A k : TextOf(k)' = TextOf(k) /\ SpotsOf(k)' = SpotsOf(k) /\ DetectorsOf(k)' = DetectorsOf(k)
  BY <1>1, SameChoices
<1>3. calls' = [k \in DOMAIN calls \union AskedCalls |->
                    IF k \in DOMAIN calls THEN calls[k]
                    ELSE NewCall(k[3], <<<<0, Outputs[k[2]].text>>>>, Group(k[3]))]
  BY DEF OutputDetection, AskedCalls
<1>4. ASSUME NEW k \in DOMAIN calls PROVE calls'[k] = calls[k]
  BY <1>3
<1>5. ASSUME NEW k \in AskedCalls, k \notin DOMAIN calls
      PROVE  Exact(calls'[k], DetectorsOf(k), SpotsOf(k), TextOf(k))
  <2>1. k[1] = "output" /\ k[2] \in DOMAIN Outputs
    BY DEF AskedCalls
  <2>2. k # InputCall
    BY <2>1 DEF InputCall
  <2>3. PICK D, T, type : D = Group(k[3]) /\ T = Outputs[k[2]].text /\ type = k[3]
    OBVIOUS
  <2>4. PICK P : P = Whole(T)
    OBVIOUS
  <2>5. DetectorsOf(k) = D /\ SpotsOf(k) = P /\ TextOf(k) = T
    BY <2>2, <2>3, <2>4 DEF DetectorsOf, SpotsOf, TextOf
  <2>6. PICK inputs : inputs = <<<<0, T>>>>
    OBVIOUS
  <2>7. PICK call : call = NewCall(type, inputs, D)
    OBVIOUS
  <2>8. calls'[k] = call
    BY <1>3, <1>5, <2>3, <2>6, <2>7
  <2>9. T \in Seq(ToSet(T))
    BY <2>1, <2>3, TextsSeq DEF ExactInv
  <2>10. Split(inputs, P, T)
    BY <2>4, <2>6, <2>9, WholeSplit
  <2>11. \A d \in DOMAIN D : DetectorType[d] = type
    BY <2>3 DEF Group
  <2>12. inputs[1][2] = T
    <3>1. inputs[1] = <<0, T>>
      BY <2>6
    <3> QED
      BY <3>1
  <2>13. Exact(call, D, P, T)
    <3>1. type = "contents" => \A d \in DOMAIN D : IsContents(d)
      BY <2>11 DEF IsContents
    <3>2. type # "contents" => \A d \in DOMAIN D : ~IsContents(d)
      BY <2>11 DEF IsContents
    <3> QED
      BY <2>4, <2>7, <2>9, <2>10, <2>12, <3>1, <3>2, NewExact
  <2> QED
    BY <2>5, <2>8, <2>13
<1>6. DOMAIN calls' = DOMAIN calls \union AskedCalls
  BY <1>3
<1>7. ASSUME NEW k \in DOMAIN calls'
      PROVE  Exact(calls'[k], DetectorsOf(k), SpotsOf(k), TextOf(k))
  <2>1. CASE k \in DOMAIN calls
    BY <1>4, <2>1 DEF ExactInv, CallsExact
  <2>2. CASE k \notin DOMAIN calls
    BY <1>5, <1>6, <2>2
  <2> QED
    BY <2>1, <2>2
<1>8. CallsExact'
  BY <1>2, <1>7 DEF CallsExact
<1> QED
  BY <1>6, <1>8

\* The reply of the LLM does not bear on the call of the input.
LEMMA GenerateExact ==
    ASSUME ExactInv, Generate
    PROVE  CallsExact'
<1>1. req' = req /\ calls' = calls /\ pc = "generate"
  BY DEF Generate
<1>2. DOMAIN calls \subseteq {InputCall}
  BY <1>1 DEF ExactInv, Made
<1>3. /\ TextOf(InputCall)' = TextOf(InputCall) /\ SpotsOf(InputCall)' = SpotsOf(InputCall)
      /\ DetectorsOf(InputCall)' = DetectorsOf(InputCall) /\ InputCall' = InputCall
  BY <1>1, SameRequest DEF InputCall
<1> QED
  BY <1>1, <1>2, <1>3 DEF ExactInv, CallsExact

\* A step of a call does not bear on the others.
LEMMA CallStepExact ==
    ASSUME Inv, ExactInv, NEW k \in DOMAIN calls,
           \/ ChunksDone(k)
           \/ \E d \in DOMAIN calls[k].detectors :
                ChunkReply(k, d) \/ ChunkFails(k, d) \/ DetectorReply(k, d) \/ DetectorFails(k, d)
    PROVE  CallsExact' /\ DOMAIN calls' = DOMAIN calls
<1>1. UNCHANGED <<req, pc, choices, response>>
  BY CallsOnly, Zenon
<1>2. \A j : TextOf(j)' = TextOf(j) /\ SpotsOf(j)' = SpotsOf(j) /\ DetectorsOf(j)' = DetectorsOf(j)
  BY <1>1, SameChoices
<1>3. Moves(k)
  BY ChunksDoneStep, ChunkReplyStep, ChunkFailsStep, DetectorReplyStep, DetectorFailsStep DEF CallStep, Inv
<1>4. DOMAIN calls' = DOMAIN calls /\ \A j \in DOMAIN calls : j # k => calls'[j] = calls[j]
  BY <1>3 DEF Moves
<1>5. PICK D, P, T : D = DetectorsOf(k) /\ P = SpotsOf(k) /\ T = TextOf(k)
  OBVIOUS
<1>6. Exact(calls[k], D, P, T)
  BY <1>5 DEF ExactInv, CallsExact
<1>7. Exact(calls'[k], D, P, T)
  BY <1>6, CallExact DEF Inv
<1>8. ASSUME NEW j \in DOMAIN calls'
      PROVE  Exact(calls'[j], DetectorsOf(j), SpotsOf(j), TextOf(j))
  <2>1. CASE j = k
    BY <1>5, <1>7, <2>1
  <2>2. CASE j # k
    BY <1>4, <2>2 DEF ExactInv, CallsExact
  <2> QED
    BY <2>1, <2>2
<1> QED
  BY <1>2, <1>4, <1>8 DEF CallsExact
-----------------------------------------------------------------------------
(* Responses.                                                              *)

\* A call that has a contents detector is a contents call.
LEMMA ContentsCall ==
    ASSUME NEW call, NEW D, NEW P, NEW T, Exact(call, D, P, T), NEW d \in DOMAIN D, IsContents(d)
    PROVE  call.type = "contents"
  BY DEF Exact, Asks

\* An empty text has no spots.
LEMMA WholeNothing == Whole(<<>>) = {}
<1>1. Len(<<>>) = 0 /\ 0..(0 - 1) = {}
  OBVIOUS
<1> QED
  BY <1>1 DEF Whole

\* No detections are in order.
LEMMA OrderedNothing == Ordered(<<>>)
<1>1. DOMAIN <<>> = {}
  OBVIOUS
<1> QED
  BY <1>1 DEF Ordered

\* What is found for choice i, the types in some order.
FoundFor(i, order) ==
    FlattenSeq([n \in DOMAIN order |->
        IF <<"output", i, order[n]>> \in OutputCalls THEN calls[<<"output", i, order[n]>>].found ELSE <<>>])

\* When all calls succeeded, what is found for a choice is exact.
LEMMA ChoiceExact ==
    ASSUME Inv, ExactInv, pc = "await output", \A k \in OutputCalls : calls[k].stage = "ok",
           NEW order \in SetToSeqs({k[3] : k \in OutputCalls}), NEW i \in DOMAIN Outputs
    PROVE  IsExactly(FoundFor(i, order), req.output, Outputs[i].text, Whole(Outputs[i].text))
<1>1. OutputCalls = AskedCalls
  <2>1. \A k \in AskedCalls : k[1] = "output"
    BY DEF AskedCalls
  <2>2. InputCall[1] # "output"
    BY DEF InputCall
  <2>3. AskedCalls \subseteq DOMAIN calls /\ DOMAIN calls \subseteq AskedCalls \union {InputCall}
    BY DEF ExactInv, Made
  <2> QED
    BY <2>1, <2>2, <2>3 DEF OutputCalls
<1>2. PICK D, T : D = req.output /\ T = Outputs[i].text
  OBVIOUS
<1>3. PICK P : P = Whole(T)
  OBVIOUS
<1>4. PICK types : types = {k[3] : k \in OutputCalls}
  OBVIOUS
<1>5. /\ types \subseteq {"contents", "generation", "chat", "context"}
      /\ types \subseteq {DetectorType[d] : d \in DOMAIN D}
  <2>1. types \subseteq {DetectorType[d] : d \in DOMAIN D}
    BY <1>1, <1>2, <1>4 DEF AskedCalls
  <2>2. \A d \in DOMAIN D : d \in DOMAIN DetectorType
    BY <1>2 DEF ExactInv, Admitted
  <2> QED
    BY <2>1, <2>2, DetectorTypeAssumption
<1>6. PICK n \in Nat : EachOnce(order, n, types)
  <2>1. order \in SetToSeqs(types)
    BY <1>4
  <2>2. types \subseteq {"contents", "generation", "chat", "context"}
    BY <1>5
  <2> QED
    BY <2>1, <2>2, TypesOrdered, Zenon
<1>7. PICK s : s = [m \in 1..n |-> IF <<"output", i, order[m]>> \in OutputCalls
                                   THEN calls[<<"output", i, order[m]>>].found ELSE <<>>]
  OBVIOUS
<1>8. FoundFor(i, order) = FlattenSeq(s)
  BY <1>6, <1>7 DEF FoundFor, EachOnce
<1>9. ASSUME NEW type, <<"output", i, type>> \in OutputCalls
      PROVE  LET found == calls[<<"output", i, type>>].found
             IN  /\ Lists(found, ReportedOf(type, D, T, P), Family(D, P, T))
                 /\ type = "contents" => Ordered(found)
  <2>1. PICK k : k = <<"output", i, type>>
    OBVIOUS
  <2>2. k \in DOMAIN calls /\ calls[k].stage = "ok" /\ k # InputCall /\ k[2] = i /\ k[3] = type
    BY <1>9, <2>1 DEF OutputCalls, InputCall
  <2>3. PICK call : call = calls[k]
    OBVIOUS
  <2>4. PICK E : E = OfType(D, type)
    OBVIOUS
  <2>5. DetectorsOf(k) = E /\ SpotsOf(k) = P /\ TextOf(k) = T
    BY <1>2, <1>3, <2>2, <2>4 DEF DetectorsOf, SpotsOf, TextOf, Group, OfType
  <2>6. Exact(call, E, P, T) /\ call.stage = "ok"
    BY <2>2, <2>3, <2>5 DEF ExactInv, CallsExact
  <2>7. Lists(call.found, Reported(E, T, P), Family(E, P, T)) /\ (call.type = "contents" => Ordered(call.found))
    BY <2>6 DEF Exact, Found
  <2>8. Lists(call.found, ReportedOf(type, D, T, P), Family(D, P, T))
    BY <2>4, <2>7, ListsOfType
  <2>9. ASSUME type = "contents" PROVE call.type = "contents"
    <3>1. type \in types
      BY <1>4, <1>9, <2>1, <2>2
    <3>2. PICK d \in DOMAIN D : DetectorType[d] = type
      BY <1>5, <3>1
    <3>3. d \in DOMAIN E /\ IsContents(d)
      BY <2>4, <2>9, <3>2 DEF OfType, IsContents
    <3> QED
      BY <2>6, <3>3, ContentsCall
  <2> QED
    BY <2>1, <2>3, <2>7, <2>8, <2>9
<1>10. ASSUME NEW type \in {DetectorType[d] : d \in DOMAIN D}, <<"output", i, type>> \notin OutputCalls
       PROVE  Reported(D, T, P) = {}
  <2>1. ~Asked(i, type)
    <3>1. PICK k : k = <<"output", i, type>>
      OBVIOUS
    <3>2. k[2] = i /\ k[3] = type /\ k \in {"output"} \X (DOMAIN Outputs) \X {DetectorType[d] : d \in DOMAIN req.output}
      BY <1>2, <3>1
    <3>3. k \notin AskedCalls
      BY <1>1, <1>10, <3>1
    <3> QED
      BY <3>2, <3>3 DEF AskedCalls
  <2>2. Outputs[i].content # "text"
    BY <2>1 DEF Asked
  <2>3. T = <<>>
    BY <1>2, <2>2, TextsSeq DEF ExactInv
  <2>4. P = {}
    BY <1>3, <2>3, WholeNothing
  <2> QED
    BY <2>4 DEF Reported
<1>11. ASSUME NEW m \in 1..n
       PROVE  PartOf(s[m], order[m], D, P, T)
  <2>1. CASE <<"output", i, order[m]>> \in OutputCalls
    <3>1. s[m] = calls[<<"output", i, order[m]>>].found
      BY <1>7, <2>1
    <3> QED
      BY <1>9, <2>1, <3>1 DEF PartOf
  <2>2. CASE <<"output", i, order[m]>> \notin OutputCalls
    <3>1. s[m] = <<>>
      BY <1>7, <2>2
    <3>2. order[m] \in {DetectorType[d] : d \in DOMAIN D}
      BY <1>5, <1>6 DEF EachOnce
    <3>3. ReportedOf(order[m], D, T, P) = {}
      BY <1>10, <2>2, <3>2 DEF ReportedOf
    <3> QED
      BY <3>1, <3>3, ListsNothing, OrderedNothing DEF PartOf
  <2> QED
    BY <2>1, <2>2
<1>12. ASSUME NEW x \in Reported(D, T, P)
       PROVE  \E m \in 1..n : order[m] = DetectorType[x[1]]
  <2>1. x[1] \in DOMAIN D
    BY DEF Reported
  <2>2. PICK type : type = DetectorType[x[1]]
    OBVIOUS
  <2>3. <<"output", i, type>> \in OutputCalls
    BY <1>10, <1>12, <2>1, <2>2
  <2>4. <<"output", i, type>>[3] = type
    OBVIOUS
  <2>5. type \in types
    BY <1>4, <2>3, <2>4
  <2> QED
    BY <1>6, <2>2, <2>5 DEF EachOnce
<1>13. s = [m \in 1..n |-> s[m]]
  BY <1>7
<1>14. Typed(s, order, n, D, P, T)
  BY <1>6, <1>11, <1>12, <1>13 DEF Typed, EachOnce
<1>15. IsExactly(FlattenSeq(s), D, T, P)
  BY <1>14, TypesJoined, ListsExactly
<1> QED
  BY <1>2, <1>3, <1>8, <1>15

\* The response with the detections on the output.
LEMMA OutputDoneExact ==
    ASSUME Inv, Inv', ExactInv, OutputDone
    PROVE  DetectionsExact'
<1>1. /\ pc = "await output" /\ req' = req /\ choices' = choices
      /\ \A k \in OutputCalls : calls[k].stage \in {"ok", "error"}
  BY DEF OutputDone
<1>2. Outputs' = Outputs
  BY <1>1, SameChoices
<1>3. CASE FirstErrors(OutputCalls) # {}
  <2>1. pc' = "done" /\ failed' # {}
    BY <1>3 DEF OutputDone, Fail
  <2>2. response'.status # 200
    BY <2>1 DEF Inv, ErrorsAnswered
  <2> QED
    BY <2>2 DEF DetectionsExact
<1>4. CASE FirstErrors(OutputCalls) = {}
  <2>1. \A k \in OutputCalls : calls[k].stage = "ok"
    BY <1>1, <1>4, FirstFailure DEF Inv
  <2>2. PICK order \in SetToSeqs({k[3] : k \in OutputCalls}), warnings \in {EmptyWarning \union UnsuitableWarning} :
          response' = [status |-> 200, input |-> <<>>, output |-> Grouped(order), warnings |-> warnings]
    BY <1>4, Zenon DEF OutputDone
  <2>3. response'.input = <<>> /\ response'.output = Grouped(order)
    BY <2>2
  <2>4. Grouped(order) = [i \in {j \in DOMAIN Outputs : FoundFor(j, order) # <<>>} |-> FoundFor(i, order)]
    BY Zenon DEF Grouped, FoundFor
  <2>5. ASSUME NEW i \in DOMAIN Outputs
        PROVE  IsExactly(IF i \in DOMAIN response'.output THEN response'.output[i] ELSE <<>>,
                         req.output, Outputs[i].text, Whole(Outputs[i].text))
    <3>1. IsExactly(FoundFor(i, order), req.output, Outputs[i].text, Whole(Outputs[i].text))
      BY <1>1, <2>1, ChoiceExact
    <3>2. FoundFor(i, order) = IF i \in DOMAIN response'.output THEN response'.output[i] ELSE <<>>
      BY <2>3, <2>4
    <3> QED
      BY <3>1, <3>2
  <2> QED
    BY <1>1, <1>2, <2>3, <2>5 DEF DetectionsExact
<1> QED
  BY <1>3, <1>4

\* The response with the detections on the input.
LEMMA TokenizeExact ==
    ASSUME Inv, Inv', ExactInv, Tokenize
    PROVE  DetectionsExact'
<1>1. pc = "tokenize" /\ req' = req /\ choices' = choices
  BY DEF Tokenize
<1>2. ASSUME NEW code, Fail(RequestFailed(code)) PROVE DetectionsExact'
  <2>1. pc' = "done" /\ failed' # {}
    BY <1>2 DEF Fail
  <2>2. response'.status # 200
    BY <2>1 DEF Inv, ErrorsAnswered
  <2> QED
    BY <2>2 DEF DetectionsExact
<1>3. CASE response' = [NoResponse EXCEPT !.status = 200, !.input = calls[InputCall].found,
                                          !.warnings = {"unsuitable input"}]
  <2>1. PICK call : call = calls[InputCall]
    OBVIOUS
  <2>2. response'.input = call.found
    BY <1>3, <2>1 DEF NoResponse
  <2>3. PICK D, P, T : D = req.input /\ P = Covered(req) /\ T = req.text
    OBVIOUS
  <2>4. DetectorsOf(InputCall) = D /\ SpotsOf(InputCall) = P /\ TextOf(InputCall) = T
    BY <2>3 DEF DetectorsOf, SpotsOf, TextOf
  <2>5. InputCall \in DOMAIN calls /\ DOMAIN D # {} /\ \A d \in DOMAIN D : IsContents(d)
    BY <1>1, <2>3 DEF ExactInv, Made, Admitted
  <2>6. Exact(call, D, P, T) /\ call.stage = "ok"
    BY <1>1, <2>1, <2>4, <2>5 DEF ExactInv, CallsExact, Inv, Waiting
  <2>7. call.type = "contents"
    BY <2>5, <2>6, ContentsCall
  <2>8. Lists(call.found, Reported(D, T, P), Family(D, P, T)) /\ InOrder(call.found)
    BY <2>6, <2>7 DEF Exact, Found, Ordered, InOrder
  <2>9. IsExactly(call.found, D, T, P)
    BY <2>8, ListsExactly
  <2>10. DOMAIN Outputs = {}
    <3>1. req.endpoint \in Generates
      BY <2>3, <2>5, RequestAssumption DEF ExactInv, Sources, Generates
    <3>2. choices = <<>>
      BY <1>1 DEF ExactInv, Unasked
    <3> QED
      BY <3>1, <3>2 DEF Outputs
  <2>11. Outputs' = Outputs /\ Covered(req)' = Covered(req)
    BY <1>1, SameChoices DEF Covered, Whole
  <2> QED
    BY <1>1, <2>2, <2>3, <2>9, <2>10, <2>11 DEF DetectionsExact
<1> QED
  BY <1>2, <1>3 DEF Tokenize
-----------------------------------------------------------------------------
(* The invariant.                                                          *)

\* At first there are no calls.
LEMMA InitExact ==
    ASSUME Init
    PROVE  ExactInv
<1>1. Sources /\ Admitted /\ CallsExact /\ Made /\ Unasked /\ Gated
  BY DEF Init, Sources, Admitted, CallsExact, Made, Unasked, Gated
<1>2. response.status # 200
  BY DEF Init, NoResponse
<1> QED
  BY <1>1, <1>2 DEF ExactInv, Unanswered, DetectionsExact

\* An error ends the request, and no detections are answered.
LEMMA FailExact ==
    ASSUME Inv', ExactInv, NEW e, Fail(e), req' = req, calls' = calls, choices' = choices
    PROVE  ExactInv'
<1>1. pc' = "done" /\ failed' # {}
  BY DEF Fail
<1>2. response'.status # 200
  BY <1>1 DEF Inv, ErrorsAnswered
<1>3. \A k : TextOf(k)' = TextOf(k) /\ SpotsOf(k)' = SpotsOf(k) /\ DetectorsOf(k)' = DetectorsOf(k)
  BY SameChoices
<1>4. CallsExact'
  BY <1>3 DEF ExactInv, CallsExact
<1>5. Reported(req.input, req.text, Covered(req))' = Reported(req.input, req.text, Covered(req))
  BY SameRequest
<1>6. Sources' /\ Admitted' /\ Made' /\ Unasked'
  BY <1>1 DEF ExactInv, Sources, Admitted, Made, Unasked
<1>7. Gated'
  BY <1>1, <1>5 DEF ExactInv, Gated
<1> QED
  BY <1>1, <1>2, <1>4, <1>6, <1>7 DEF ExactInv, Unanswered, DetectionsExact

\* A step that leaves the response and the choices alone.
LEMMA GoesOnExact ==
    ASSUME ExactInv, req' = req, choices' = choices, response' = response, response.status # 200,
           CallsExact', Admitted', Made', Unasked', Gated'
    PROVE  ExactInv'
<1>1. Sources' /\ Unanswered'
  BY DEF ExactInv, Sources, Unanswered
<1>2. DetectionsExact'
  BY DEF DetectionsExact
<1> QED
  BY <1>1, <1>2 DEF ExactInv

\* The calls stay as they are.
LEMMA SameCallsExact ==
    ASSUME ExactInv, req' = req, choices' = choices, calls' = calls
    PROVE  CallsExact'
<1>1. \A k : TextOf(k)' = TextOf(k) /\ SpotsOf(k)' = SpotsOf(k) /\ DetectorsOf(k)' = DetectorsOf(k)
  BY SameChoices
<1> QED
  BY <1>1 DEF ExactInv, CallsExact

\* The end of the request.
LEMMA EndsExact ==
    ASSUME ExactInv, req' = req, calls' = calls, choices' = choices, pc' = "done", DetectionsExact'
    PROVE  ExactInv'
<1>1. CallsExact'
  BY SameCallsExact
<1>2. Reported(req.input, req.text, Covered(req))' = Reported(req.input, req.text, Covered(req))
  BY SameRequest
<1>3. Sources' /\ Admitted' /\ Made' /\ Unasked' /\ Unanswered'
  BY DEF ExactInv, Sources, Admitted, Made, Unasked, Unanswered
<1>4. Gated'
  BY <1>2 DEF ExactInv, Gated
<1> QED
  BY <1>1, <1>3, <1>4 DEF ExactInv

\* A step that leaves the handler where it is.
LEMMA StaysExact ==
    ASSUME ExactInv, UNCHANGED <<req, pc, choices, response>>, CallsExact', DOMAIN calls' = DOMAIN calls
    PROVE  ExactInv'
<1>1. Outputs' = Outputs /\ AskedCalls' = AskedCalls /\ InputCall' = InputCall
  BY SameChoices DEF InputCall
<1>2. Covered(req)' = Covered(req)
  BY DEF Covered, Whole
<1>3. Sources' /\ Admitted' /\ Unasked' /\ Unanswered'
  BY DEF ExactInv, Sources, Admitted, Unasked, Unanswered
<1>4. Made'
  BY <1>1 DEF ExactInv, Made
<1>5. Gated'
  BY SameRequest DEF ExactInv, Gated
<1>6. DetectionsExact'
  BY <1>1, <1>2 DEF ExactInv, DetectionsExact
<1> QED
  BY <1>3, <1>4, <1>5, <1>6 DEF ExactInv

\* An invalid request is refused.
LEMMA ValidateExact ==
    ASSUME Inv, Inv', ExactInv, Validate
    PROVE  ExactInv'
<1>1. pc = "validate" /\ UNCHANGED <<req, calls, choices>>
  BY DEF Validate
<1>2. CASE Fail(Validation)
  BY <1>1, <1>2, FailExact
<1>3. CASE pc' = "detectors" /\ response' = response
  <2>1. response.status # 200 /\ choices = <<>>
    BY <1>1 DEF ExactInv, Unanswered, Unasked
  <2>2. Admitted' /\ Made' /\ Unasked' /\ Gated'
    BY <1>1, <1>3, <2>1 DEF Admitted, Made, Unasked, Gated
  <2> QED
    BY <1>1, <1>3, <2>1, <2>2, SameCallsExact, GoesOnExact
<1> QED
  BY <1>2, <1>3 DEF Validate

\* Only configured detectors, of the type the handler asks for, pass.
LEMMA ValidateDetectorsExact ==
    ASSUME Inv, Inv', ExactInv, ValidateDetectors
    PROVE  ExactInv'
<1>1. pc = "detectors" /\ UNCHANGED <<req, calls, choices>>
  BY Zenon DEF ValidateDetectors
<1>2. ASSUME NEW e, Fail(e) PROVE ExactInv'
  BY <1>1, <1>2, FailExact
<1>3. ASSUME DetectorErrors(req.input, {"contents"}) = {},
             DetectorErrors(req.output, Handler[req.endpoint].types) = {},
             response' = response,
             pc' = IF DOMAIN req.input # {} THEN "input"
                   ELSE IF req.endpoint \in Generates THEN "generate" ELSE "output"
      PROVE  ExactInv'
  <2>1. response.status # 200 /\ choices = <<>> /\ DOMAIN calls = {}
    BY <1>1 DEF ExactInv, Unanswered, Unasked, Inv, Waiting
  <2>2. pc' \in {"input", "generate", "output"} /\ (pc' = "input" <=> DOMAIN req.input # {})
    BY <1>3
  <2>3. Admitted'
    <3>1. \A d \in DOMAIN req.input : IsContents(d)
      BY <1>3 DEF DetectorErrors, IsContents
    <3>2. \A d \in DOMAIN req.output : d \in DOMAIN DetectorType
      BY <1>3 DEF DetectorErrors
    <3> QED
      BY <1>1, <3>1, <3>2 DEF Admitted, IsContents
  <2>4. Made' /\ Unasked'
    BY <1>1, <2>1, <2>2 DEF Made, Unasked
  <2>5. Gated'
    <3>1. DOMAIN req.input = {} => Reported(req.input, req.text, Covered(req)) = {}
      BY DEF Reported
    <3>2. Reported(req.input, req.text, Covered(req))' = Reported(req.input, req.text, Covered(req))
      BY <1>1, SameRequest
    <3> QED
      BY <1>1, <2>1, <2>2, <3>1, <3>2 DEF Gated
  <2> QED
    BY <1>1, <1>3, <2>1, <2>3, <2>4, <2>5, SameCallsExact, GoesOnExact
<1> QED
  BY <1>2, <1>3 DEF ValidateDetectors

\* The call of the input is made.
LEMMA InputDetectionKeeps ==
    ASSUME Inv, Inv', ExactInv, InputDetection
    PROVE  ExactInv'
<1>1. pc = "input" /\ UNCHANGED <<req, choices>>
  BY DEF InputDetection
<1>2. CASE Fail(Validation) /\ calls' = calls
  BY <1>1, <1>2, FailExact
<1>3. CASE pc' = "await input" /\ response' = response
  <2>1. response.status # 200 /\ choices = <<>>
    BY <1>1 DEF ExactInv, Unanswered, Unasked
  <2>2. CallsExact'
    BY InputDetectionExact DEF ExactInv
  <2>3. Admitted' /\ Made' /\ Unasked' /\ Gated'
    BY <1>1, <1>3, <2>1 DEF ExactInv, Admitted, Made, Unasked, Gated, IsContents
  <2> QED
    BY <1>1, <1>3, <2>1, <2>2, <2>3, GoesOnExact
<1> QED
  BY <1>2, <1>3 DEF InputDetection

\* A call that finds nothing has nothing to report.
LEMMA ListsNone ==
    ASSUME NEW X, NEW f, Lists(<<>>, X, f)
    PROVE  X = {}
<1>1. PICK from : Numbering(from, <<>>, X, f)
  BY DEF Lists
<1>2. 1..Len(<<>>) = {}
  OBVIOUS
<1> QED
  BY <1>1, <1>2 DEF Numbering

\* The LLM comes next only if nothing was found, hence nothing is reported.
LEMMA InputDoneExact ==
    ASSUME Inv, Inv', ExactInv, InputDone
    PROVE  ExactInv'
<1>1. pc = "await input" /\ UNCHANGED <<req, calls, choices>> /\ calls[InputCall].stage \in {"ok", "error"}
  BY DEF InputDone
<1>2. ASSUME NEW e, Fail(e) PROVE ExactInv'
  BY <1>1, <1>2, FailExact
<1>3. ASSUME calls[InputCall].stage # "error", response' = response,
             pc' = IF Blocks(calls[InputCall].found) THEN "tokenize" ELSE "generate"
      PROVE  ExactInv'
  <2>1. response.status # 200 /\ choices = <<>> /\ DOMAIN calls = {InputCall}
    BY <1>1 DEF ExactInv, Unanswered, Unasked, Inv, Waiting
  <2>2. pc' \in {"tokenize", "generate"} /\ (pc' = "generate" => calls[InputCall].found = <<>>)
    BY <1>3 DEF Blocks
  <2>3. Admitted' /\ Unasked'
    BY <1>1, <2>1, <2>2 DEF ExactInv, Admitted, Unasked, IsContents
  <2>4. Made'
    BY <1>1, <2>1, <2>2 DEF ExactInv, Made, InputCall
  <2>5. Gated'
    <3>1. PICK D, P, T : D = req.input /\ P = Covered(req) /\ T = req.text
      OBVIOUS
    <3>2. DetectorsOf(InputCall) = D /\ SpotsOf(InputCall) = P /\ TextOf(InputCall) = T
      BY <3>1 DEF DetectorsOf, SpotsOf, TextOf
    <3>3. Exact(calls[InputCall], D, P, T) /\ calls[InputCall].stage = "ok"
      BY <1>1, <1>3, <2>1, <3>2 DEF ExactInv, CallsExact
    <3>4. Lists(calls[InputCall].found, Reported(D, T, P), Family(D, P, T))
      BY <3>3 DEF Exact, Found
    <3>5. pc' = "generate" => Reported(D, T, P) = {}
      BY <2>2, <3>4, ListsNone
    <3>6. Reported(req.input, req.text, Covered(req))' = Reported(D, T, P)
      BY <1>1, <3>1, SameRequest
    <3> QED
      BY <1>1, <2>1, <2>2, <3>5, <3>6 DEF Gated
  <2> QED
    BY <1>1, <1>3, <2>1, <2>3, <2>4, <2>5, SameCallsExact, GoesOnExact
<1> QED
  BY <1>2, <1>3 DEF InputDone

\* A handler without its client goes no further.
LEMMA PanicExact ==
    ASSUME ExactInv, Panic
    PROVE  ExactInv'
<1>1. pc \in {"tokenize", "generate"} /\ pc' = "panicked" /\ UNCHANGED <<req, calls, choices, response>>
  BY DEF Panic
<1>2. response.status # 200 /\ choices = <<>>
  BY <1>1 DEF ExactInv, Unanswered, Unasked
<1>3. Admitted' /\ Made' /\ Unasked' /\ Gated'
  BY <1>1, <1>2 DEF Admitted, Made, Unasked, Gated
<1> QED
  BY <1>1, <1>2, <1>3, SameCallsExact, GoesOnExact

\* The LLM replies or fails.
LEMMA GenerateKeeps ==
    ASSUME Inv, Inv', ExactInv, Generate
    PROVE  ExactInv'
<1>1. pc = "generate" /\ UNCHANGED <<req, calls>>
  BY DEF Generate
<1>2. ASSUME NEW e, Fail(e), choices' = choices PROVE ExactInv'
  BY <1>1, <1>2, FailExact
<1>3. ASSUME choices' \in Replies, pc' = "output", response' = response PROVE ExactInv'
  <2>1. response'.status # 200
    BY <1>1, <1>3 DEF ExactInv, Unanswered
  <2>2. CallsExact'
    BY GenerateExact
  <2>3. Sources' /\ Admitted' /\ Unasked' /\ Unanswered' /\ DetectionsExact'
    BY <1>1, <1>3, <2>1 DEF ExactInv, Sources, Admitted, Unasked, Unanswered, DetectionsExact, IsContents
  <2>4. Made'
    BY <1>1, <1>3 DEF ExactInv, Made, InputCall
  <2>5. Gated'
    BY <1>1, SameRequest DEF ExactInv, Gated
  <2> QED
    BY <2>2, <2>3, <2>4, <2>5 DEF ExactInv
<1> QED
  BY <1>2, <1>3 DEF Generate

\* The calls of the output are made.
LEMMA OutputDetectionKeeps ==
    ASSUME ExactInv, OutputDetection
    PROVE  ExactInv'
<1>1. pc = "output" /\ pc' = "await output" /\ UNCHANGED <<req, choices, response>>
  BY Zenon DEF OutputDetection
<1>2. CallsExact' /\ DOMAIN calls' = DOMAIN calls \union AskedCalls
  BY OutputDetectionExact
<1>3. response.status # 200 /\ DOMAIN calls \subseteq {InputCall}
  BY <1>1 DEF ExactInv, Unanswered, Made
<1>4. AskedCalls' = AskedCalls /\ InputCall' = InputCall
  BY <1>1, SameChoices DEF InputCall
<1>5. Admitted' /\ Unasked'
  BY <1>1 DEF ExactInv, Admitted, Unasked, IsContents
<1>6. Made'
  BY <1>1, <1>2, <1>3, <1>4 DEF Made
<1>7. Gated'
  BY <1>1, SameRequest DEF ExactInv, Gated
<1> QED
  BY <1>1, <1>2, <1>3, <1>5, <1>6, <1>7, GoesOnExact

\* Every step keeps the invariant.
LEMMA NextExact ==
    ASSUME Inv, Inv', ExactInv, [Next]_vars
    PROVE  ExactInv'
<1>1. CASE UNCHANGED vars
  <2>1. UNCHANGED <<req, pc, calls, choices, response>>
    BY <1>1 DEF vars
  <2> QED
    BY <2>1, SameCallsExact, StaysExact
<1>2. ASSUME NEW k \in DOMAIN calls,
             \/ ChunksDone(k)
             \/ \E d \in DOMAIN calls[k].detectors :
                  ChunkReply(k, d) \/ ChunkFails(k, d) \/ DetectorReply(k, d) \/ DetectorFails(k, d)
      PROVE  ExactInv'
  <2>1. UNCHANGED <<req, pc, choices, response>>
    BY <1>2, CallsOnly, Zenon
  <2>2. CallsExact' /\ DOMAIN calls' = DOMAIN calls
    BY <1>2, CallStepExact, Zenon
  <2> QED
    BY <2>1, <2>2, StaysExact
<1>3. CASE Tokenize
  <2>1. UNCHANGED <<req, calls, choices>> /\ pc' = "done"
    BY <1>3 DEF Tokenize, Fail
  <2> QED
    BY <1>3, <2>1, TokenizeExact, EndsExact
<1>4. CASE OutputDone
  <2>1. UNCHANGED <<req, calls, choices>> /\ pc' = "done"
    BY <1>4, Zenon DEF OutputDone, Fail
  <2> QED
    BY <1>4, <2>1, OutputDoneExact, EndsExact
<1> QED
  BY <1>1, <1>2, <1>3, <1>4, ValidateExact, ValidateDetectorsExact, InputDetectionKeeps, InputDoneExact,
     PanicExact, GenerateKeeps, OutputDetectionKeeps, Zenon DEF Next

\* Whatever the order in which chunkers and detectors answer, whatever the masks, the
\* chunkers and the thresholds: a response with status 200 has one detection for every
\* detector and character of the text that it scores at its threshold or above (on the
\* input once for each mask that selects the character), at its position in the whole
\* text, none besides, and those of the contents detectors in order.
THEOREM DetectionsAlwaysExact == Spec => []DetectionsExact
<1>1. Init => Inv /\ Numbered /\ ExactInv
  BY InitInv, InitExact
<1>2. Inv /\ Numbered /\ ExactInv /\ [Next]_vars => Inv' /\ Numbered' /\ ExactInv'
  BY NextInv, NextNumbered, NextExact
<1>3. ExactInv => DetectionsExact
  BY DEF ExactInv
<1> QED
  BY <1>1, <1>2, <1>3, PTL DEF Spec

\* The LLM is asked only after every input detector has answered on all of the prompt
\* that the masks select and has nothing to report there: no chunk and no detection is
\* lost between the chunkers, the detectors and the decision of the handler.
THEOREM InputAlwaysGates == Spec => []InputGatesLLM
<1>1. Init => Inv /\ Numbered /\ ExactInv
  BY InitInv, InitExact
<1>2. Inv /\ Numbered /\ ExactInv /\ [Next]_vars => Inv' /\ Numbered' /\ ExactInv'
  BY NextInv, NextNumbered, NextExact
<1>3. ExactInv => InputGatesLLM
  BY DEF ExactInv, Gated, InputGatesLLM
<1> QED
  BY <1>1, <1>2, <1>3, PTL DEF Spec
=============================================================================
