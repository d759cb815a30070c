------------------- MODULE ChatCompletionsStreaming_proofs -------------------
(***************************************************************************)
(* What one streaming chat completions request keeps, for any number of    *)
(* choices and messages, every capacity of the response channel and every  *)
(* kind of request.  Each theorem assumes only the failures away under     *)
(* which the code really breaks its promise.                               *)
(***************************************************************************)
EXTENDS ChatCompletionsStreaming, FiniteSetTheorems, WellFoundedInduction, TLAPS

Batch == [tag : {"batch"}, choice : Choices, from : Nat, upto : Nat] \cup [tag : {"error"}]

\* Where the handler is, or goes once its responses are sent.
At == IF hpc = "send" THEN cont ELSE hpc

Types ==
    /\ request \in [input : BOOLEAN, chunk : BOOLEAN, whole : BOOLEAN]
    /\ outbox \in Seq(Response) /\ responses \in Seq(Response)
    /\ batches \in Seq(Batch) /\ msgs \in Seq(Message)
    /\ completions \in [Choices -> SUBSET Nat] /\ texts \in [Choices -> SUBSET Nat]
    /\ covered \in [Choices -> Nat]
    /\ gone \in BOOLEAN /\ metadata \in BOOLEAN /\ usage \in BOOLEAN /\ inputError \in BOOLEAN
    /\ setup \subseteq Choices /\ missing \subseteq Choices

\* The outbox: one response, or one and the None; only a chunk's send is checked.
Mail ==
    /\ hpc = "send" <=> Len(outbox) > 0
    /\ Len(outbox) <= 2
    /\ Len(outbox) = 2 => outbox[2] = None /\ outbox[1] # None /\ outbox[1].tag # "chunk"
    /\ hpc = "send" => /\ cont \in {"setup", "check_finish", "await_batch", "final", "end", "stopped"}
                       /\ onGone = cont \/ (cont = "check_finish" /\ onGone = "final")
                       /\ cont = "check_finish" <=> outbox[1].tag = "chunk"

\* What runs while the handler is where.
Phases ==
    /\ hpc \in {"validate", "input", "open"} => rpc = "idle" /\ pipe = "off" /\ responses = <<>>
    /\ At = "setup" => request.chunk /\ rpc = "idle" /\ pipe = "off"
    /\ At \in {"await_batch", "respond", "check_finish"} => request.chunk /\ pipe # "off"
    /\ At = "await_reader" => ~request.chunk
    /\ pipe # "off" => request.chunk /\ rpc # "idle"
    /\ ~request.chunk /\ rpc \notin {"idle", "closed"} => hpc = "await_reader"

\* The reader's place in its loop.
Reading ==
    /\ rpc = "idle" => msgs = <<>> /\ ~usage
    /\ rpc = "forward" => ~request.chunk
    /\ rpc = "send_input" => request.chunk /\ Current.kind = "choice"
    /\ rpc \in {"forward", "record", "send_input"} => Len(msgs) > 0

\* The completions map holds numbers of messages with a choice.
Filed ==
    \A c \in Choices : \A i \in completions[c] : i \in 1 .. Len(msgs) /\ msgs[i].kind = "choice"

\* A batch refers to completions that are in the map.
IsBacked(b) ==
    /\ b.from <= MessageOf(b.upto)
    /\ {b.from, MessageOf(b.upto)} \subseteq completions[b.choice]

\* A completion is in the map before its text, and so before any batch, exists.
Backed ==
    /\ \A c \in Choices : texts[c] \subseteq completions[c]
    /\ rpc = "send_input" => Len(msgs) \in completions[Current.choice]
    /\ \A i \in DOMAIN batches : batches[i].tag = "batch" => IsBacked(batches[i])
    /\ At \in {"respond", "check_finish"} => batch \in Batch /\ batch.tag = "batch" /\ IsBacked(batch)

\* No lookup has failed.
Found ==
    /\ \A i \in DOMAIN outbox : outbox[i] # Err("lookup")
    /\ \A i \in DOMAIN responses : responses[i] # Err("lookup")

Control == Types /\ Mail /\ Phases /\ Reading /\ Filed /\ Backed /\ Found
-----------------------------------------------------------------------------
(* Facts about sets of naturals, sequences, messages and responses.        *)

\* A nonempty set of naturals has a least element, and Min is it.
LEMMA MinOf ==
    ASSUME NEW S \in SUBSET Nat, S # {}
    PROVE  Sets!Min(S) \in S /\ \A y \in S : Sets!Min(S) <= y
<1> DEFINE R == StrictSubsetOrdering(Nat)
           Below(y) == 0 .. y
           T == {Below(y) : y \in S}
<1>1. T \subseteq FiniteSubsetsOf(Nat) /\ T # {}
  <2>1. ASSUME NEW y \in S PROVE IsFiniteSet(Below(y)) /\ Below(y) \in SUBSET Nat
    <3>1. Below(y) \in SUBSET Nat /\ \A k \in Below(y) : k <= y
      OBVIOUS
    <3> QED
      BY <3>1, FS_BoundedSetOfNaturals
  <2> QED
    BY <2>1 DEF FiniteSubsetsOf
<1>2. IsWellFoundedOn(R, FiniteSubsetsOf(Nat))
  BY FS_StrictSubsetOrderingWellFounded
<1> HIDE DEF T, R
<1>3. PICK t \in T : \A u \in T : ~(<<u, t>> \in R)
  BY <1>1, <1>2, WFMin
<1>4. PICK x \in S : t = Below(x)
  BY <1>3 DEF T
<1>5. ASSUME NEW y \in S PROVE x <= y
  <2>1. CASE y < x
    <3>1. /\ Below(y) \in SUBSET Nat /\ Below(x) \in SUBSET Nat
          /\ Below(y) \subseteq Below(x) /\ x \in Below(x) /\ x \notin Below(y)
      BY <2>1
    <3> HIDE DEF Below
    <3>2. <<Below(y), Below(x)>> \in R
      BY <3>1 DEF R, StrictSubsetOrdering
    <3> QED
      BY <1>3, <1>4, <3>2 DEF T
  <2> QED
    BY <2>1
<1> QED
  BY <1>5 DEF Sets!Min

\* A nonempty bounded set of naturals has a greatest element, and Max is one of it.
LEMMA MaxOf ==
    ASSUME NEW S \in SUBSET Nat, S # {}, NEW n \in Nat, \A s \in S : s <= n
    PROVE  Sets!Max(S) \in S
<1> DEFINE T == {n - s : s \in S}
<1>1. T \in SUBSET Nat /\ T # {}
  <2>1. \A s \in S : n - s \in Nat
    OBVIOUS
  <2> QED
    BY <2>1
<1>2. PICK m \in T : \A y \in T : m <= y
  BY <1>1, MinOf
<1>3. PICK x \in S : m = n - x
  BY <1>2
<1>4. ASSUME NEW y \in S PROVE x >= y
  <2>1. n - y \in T
    OBVIOUS
  <2> QED
    BY <1>2, <1>3, <2>1
<1> QED
  BY <1>4 DEF Sets!Max

LEMMA Appended ==
    ASSUME NEW S, NEW s \in Seq(S), NEW e \in S
    PROVE  /\ Append(s, e) \in Seq(S) /\ Len(s) \in Nat /\ Len(Append(s, e)) = Len(s) + 1
           /\ DOMAIN s = 1 .. Len(s) /\ DOMAIN Append(s, e) = 1 .. Len(s) + 1
           /\ Append(s, e)[Len(s) + 1] = e
           /\ \A i \in 1 .. Len(s) : Append(s, e)[i] = s[i]
  OBVIOUS

LEMMA Popped ==
    ASSUME NEW S, NEW s \in Seq(S), s # <<>>
    PROVE  /\ Tail(s) \in Seq(S) /\ Len(Tail(s)) = Len(s) - 1 /\ Len(s) \in Nat /\ Len(s) > 0
           /\ DOMAIN s = 1 .. Len(s) /\ DOMAIN Tail(s) = 1 .. Len(s) - 1
           /\ Head(s) = s[1] /\ Head(s) \in S
           /\ \A i \in 1 .. Len(s) - 1 : Tail(s)[i] = s[i + 1]
  OBVIOUS

LEMMA Lengths ==
    ASSUME NEW S, NEW s \in Seq(S)
    PROVE  /\ Len(s) \in Nat /\ DOMAIN s = 1 .. Len(s) /\ (s = <<>> <=> Len(s) = 0)
           /\ \A i \in 1 .. Len(s) : s[i] \in S
  OBVIOUS

LEMMA Listed ==
    ASSUME NEW S, NEW a \in S, NEW b \in S
    PROVE  /\ <<a>> \in Seq(S) /\ Len(<<a>>) = 1 /\ <<a>>[1] = a
           /\ <<a, b>> \in Seq(S) /\ Len(<<a, b>>) = 2 /\ <<a, b>>[1] = a /\ <<a, b>>[2] = b
  OBVIOUS

LEMMA Members ==
    /\ None \in Response /\ [tag |-> "input"] \in Response
    /\ \A x \in {"call", "setup", "pipeline", "lookup", "whole", "llm"} : Err(x) \in Response
    /\ \A c \in Choices : \A n \in Nat : \A f \in BOOLEAN :
          [tag |-> "chunk", choice |-> c, upto |-> n, finish |-> f] \in Response
    /\ \A c \in Choices : [tag |-> "finish", choice |-> c] \in Response
    /\ \A n \in Nat : [tag |-> "raw", index |-> n] \in Response
    /\ \A u, w \in BOOLEAN : [tag |-> "final", usage |-> u, whole |-> w] \in Response
  BY DEF None, Err, Response

LEMMA Tags ==
    /\ None.tag = "none" /\ [tag |-> "input"].tag = "input"
    /\ \A x : Err(x).tag = "error" /\ Err(x).cause = x
    /\ \A c, n, f : /\ [tag |-> "chunk", choice |-> c, upto |-> n, finish |-> f].tag = "chunk"
                    /\ [tag |-> "chunk", choice |-> c, upto |-> n, finish |-> f].choice = c
                    /\ [tag |-> "chunk", choice |-> c, upto |-> n, finish |-> f].upto = n
    /\ \A c : [tag |-> "finish", choice |-> c].tag = "finish"
    /\ \A n : [tag |-> "raw", index |-> n].tag = "raw"
    /\ \A u, w : /\ [tag |-> "final", usage |-> u, whole |-> w].tag = "final"
                 /\ [tag |-> "final", usage |-> u, whole |-> w].usage = u
  BY DEF None, Err

LEMMA ChunkFields == \A r \in Response : r.tag = "chunk" => r.choice \in Choices /\ r.upto \in Nat
  BY DEF Response

LEMMA BatchMembers ==
    /\ [tag |-> "error"] \in Batch /\ [tag |-> "error"].tag = "error"
    /\ \A c \in Choices : \A m, n \in Nat :
          [tag |-> "batch", choice |-> c, from |-> m, upto |-> n] \in Batch
  BY DEF Batch

LEMMA BatchFields ==
    \A b \in Batch : /\ b.tag \in {"batch", "error"}
                     /\ b.tag = "batch" => b.choice \in Choices /\ b.from \in Nat /\ b.upto \in Nat
  BY DEF Batch

LEMMA MessageFields ==
    \A m \in Message : /\ m.kind \in {"choice", "usage", "nochoice", "error"}
                       /\ m.kind = "choice" => m.choice \in Choices /\ m.finish \in BOOLEAN
  BY DEF Message

LEMMA Halving == \A h \in Nat : MessageOf(h) \in Nat /\ MessageOf(2 * h) = h /\ MessageOf(2 * h - 1) = h
  BY DEF MessageOf

LEMMA HalvingMonotone == \A g, h \in Nat : g <= h => MessageOf(g) <= MessageOf(h)
  BY DEF MessageOf
-----------------------------------------------------------------------------
(* What each step of the handler comes to, with the outbox spelt out.      *)

Moves(next) == hpc' = next /\ outbox' = <<>>

\* The handler has n responses to send, the first of them a, and goes to next.
Speaks(n, a, next) ==
    /\ hpc' = "send" /\ cont' = next /\ onGone' = next
    /\ outbox' \in Seq(Response) /\ Len(outbox') = n /\ DOMAIN outbox' = 1 .. n
    /\ outbox'[1] = a /\ (n = 2 => outbox'[2] = None)

FinalOf(w) == [tag |-> "final", usage |-> usage, whole |-> w]

EarlyRow ==
    \/ hpc = "validate" /\ \E h \in {"input", "open"} : Moves(h) /\ UNCHANGED rpc
    \/ hpc = "input" /\ Moves("open") /\ UNCHANGED rpc
    \/ hpc = "open" /\ request.chunk /\ Moves("setup") /\ rpc' = "idle"
    \/ hpc = "open" /\ ~request.chunk /\ Moves("await_reader") /\ rpc' = "next"

RefuseRow ==
    /\ hpc \in {"validate", "input", "open"}
    /\ \/ Speaks(2, [tag |-> "input"], "stopped")
       \/ CallMayFail /\ Speaks(2, Err("call"), "stopped")

SetupRow ==
    /\ hpc = "setup"
    /\ \/ Moves("setup") /\ UNCHANGED <<missing, rpc, pipe>>
       \/ /\ SetupMayFail /\ Speaks(1, Err("setup"), "setup")
          /\ missing' \subseteq Choices /\ UNCHANGED <<rpc, pipe>>
       \/ Moves("await_batch") /\ rpc' = "next" /\ pipe' = "running" /\ UNCHANGED missing

TakeRow ==
    /\ hpc = "await_batch" /\ batches # <<>> /\ batches' = Tail(batches)
    /\ \/ Head(batches).tag = "batch" /\ batch' = Head(batches) /\ Moves("respond")
       \/ Head(batches).tag = "error" /\ Speaks(2, Err("pipeline"), "final") /\ UNCHANGED batch

EndRow ==
    /\ hpc = "await_batch" /\ batches = <<>> /\ pipe \in {"closed", "failed"}
    /\ Moves("final")

\* The lookup has succeeded; this send is checked.
RespondRow ==
    /\ hpc = "respond"
    /\ hpc' = "send" /\ cont' = "check_finish" /\ onGone' = "final"
    /\ outbox' \in Seq(Response) /\ Len(outbox') = 1 /\ DOMAIN outbox' = 1 .. 1
    /\ outbox'[1].tag = "chunk" /\ outbox'[1].choice = batch.choice /\ outbox'[1].upto = batch.upto

FinishRow ==
    /\ hpc = "check_finish"
    /\ \/ Moves("await_batch")
       \/ Speaks(1, [tag |-> "finish", choice |-> batch.choice], "await_batch")

FinalRow ==
    \/ hpc = "await_reader" /\ rpc = "closed" /\ \E h \in {"final", "end"} :
          Moves(h) /\ (h = "end" => ~KeepsState)
    \/ hpc = "final" /\ ~request.whole /\ ~usage /\ Moves("end")
    \/ hpc = "final" /\ (request.whole \/ usage) /\ ~metadata /\ Moves("panicked")
    \/ hpc = "final" /\ metadata /\ \E w \in BOOLEAN : Speaks(1, FinalOf(w), "end")
    \/ hpc = "final" /\ CallMayFail /\ Speaks(2, Err("whole"), "end")
    \/ hpc = "end" /\ Speaks(1, None, "stopped")

Frame == UNCHANGED <<request, responses, gone, msgs, stateVars, texts, inputError, covered>>

HandlerRow ==
    /\ hpc # "send" /\ outbox = <<>> /\ setup' \subseteq Choices
    /\ Frame
    /\ \/ EarlyRow /\ UNCHANGED <<missing, pipe, batches, batch>>
       \/ RefuseRow /\ UNCHANGED <<missing, rpc, pipe, batches, batch>>
       \/ SetupRow /\ UNCHANGED <<batches, batch>>
       \/ TakeRow /\ UNCHANGED <<missing, rpc, pipe>>
       \/ EndRow /\ UNCHANGED <<missing, rpc, pipe, batches, batch>>
       \/ RespondRow /\ UNCHANGED <<missing, rpc, pipe, batches, batch>>
       \/ FinishRow /\ UNCHANGED <<missing, rpc, pipe, batches, batch>>
       \/ FinalRow /\ UNCHANGED <<missing, rpc, pipe, batches, batch>>

LEMMA Saying ==
    ASSUME NEW a \in Response, NEW next
    PROVE  /\ Say(<<a>>, next, next) => Speaks(1, a, next)
           /\ Say(<<a, None>>, next, next) => Speaks(2, a, next)
<1>1. /\ <<a>> \in Seq(Response) /\ Len(<<a>>) = 1 /\ <<a>>[1] = a
      /\ <<a, None>> \in Seq(Response) /\ Len(<<a, None>>) = 2
      /\ <<a, None>>[1] = a /\ <<a, None>>[2] = None
  BY Members, Listed
<1> QED
  BY <1>1, Lengths DEF Say, Speaks

\* The outbox is empty whenever the handler is not sending.
LEMMA NotSending == ASSUME Types, Mail, hpc # "send" PROVE outbox = <<>>
  BY Lengths DEF Types, Mail

LEMMA Going == ASSUME outbox = <<>>, NEW next, Goto(next) PROVE Moves(next)
  BY DEF Goto, Moves

\* The lookup finds the completions of the chunk.
LEMMA Looking ==
    ASSUME Control, hpc = "respond"
    PROVE  /\ batch.choice \in Choices /\ batch.upto \in Nat /\ InChunk(batch) # {}
           /\ msgs[Sets!Max(InChunk(batch))].finish \in BOOLEAN
<1>1. batch \in Batch /\ batch.tag = "batch" /\ IsBacked(batch)
  BY DEF Control, Backed, At
<1>2. batch.choice \in Choices /\ batch.from \in Nat /\ batch.upto \in Nat
  BY <1>1, BatchFields
<1>3. completions[batch.choice] \in SUBSET Nat /\ MessageOf(batch.upto) \in Nat
  BY <1>2, Halving DEF Control, Types
<1>4. MessageOf(batch.upto) \in InChunk(batch)
  BY <1>1, <1>2, <1>3 DEF InChunk, IsBacked
<1>5. InChunk(batch) \in SUBSET Nat /\ \A i \in InChunk(batch) : i \in completions[batch.choice] /\ i <= MessageOf(batch.upto)
  BY <1>3 DEF InChunk
<1>6. Sets!Max(InChunk(batch)) \in completions[batch.choice]
  BY <1>3, <1>4, <1>5, MaxOf
<1>7. /\ Sets!Max(InChunk(batch)) \in 1 .. Len(msgs)
      /\ msgs[Sets!Max(InChunk(batch))].kind = "choice"
  BY <1>2, <1>6 DEF Control, Filed
<1>8. msgs[Sets!Max(InChunk(batch))] \in Message
  BY <1>7, Lengths DEF Control, Types
<1> QED
  BY <1>2, <1>4, <1>7, <1>8, MessageFields

LEMMA HandlerRows == ASSUME Control, Handler, ~HandlerSends PROVE HandlerRow
<1>1. hpc # "send" => outbox = <<>>
  BY NotSending DEF Control
<1> USE DEF stateVars, readerVars, pipeVars, clientVars
<1>2. setup \subseteq Choices /\ missing \subseteq Choices
  BY DEF Control, Types
<1>3. CASE Validate
  <2>1. \/ \E h \in {"input", "open"} : Goto(h)
        \/ CallMayFail /\ Say(<<Err("call"), None>>, "stopped", "stopped")
    BY <1>3 DEF Validate
  <2>2. \/ \E h \in {"input", "open"} : Moves(h)
        \/ CallMayFail /\ Speaks(2, Err("call"), "stopped")
    BY <1>1, <1>3, <2>1, Going, Saying, Members DEF Validate
  <2> QED
    BY <1>1, <1>2, <1>3, <2>2 DEF Validate, HandlerRow, Frame, EarlyRow, RefuseRow
<1>4. CASE InputDetection
  <2>1. \/ Moves("open") \/ Speaks(2, [tag |-> "input"], "stopped")
        \/ CallMayFail /\ Speaks(2, Err("call"), "stopped")
    BY <1>1, <1>4, Going, Saying, Members DEF InputDetection
  <2> QED
    BY <1>1, <1>2, <1>4, <2>1 DEF InputDetection, HandlerRow, Frame, EarlyRow, RefuseRow
<1>5. CASE OpenStream
  <2>1. \/ request.chunk /\ Moves("setup") /\ rpc' = "idle"
        \/ ~request.chunk /\ Moves("await_reader") /\ rpc' = "next"
        \/ CallMayFail /\ Speaks(2, Err("call"), "stopped") /\ UNCHANGED rpc
    BY <1>1, <1>5, Going, Saying, Members DEF OpenStream
  <2> QED
    BY <1>1, <1>2, <1>5, <2>1 DEF OpenStream, HandlerRow, Frame, EarlyRow, RefuseRow
<1>6. CASE \E c \in Choices : SetupChoice(c)
  <2>1. PICK c \in Choices : SetupChoice(c)
    BY <1>6
  <2>2. \/ Moves("setup") /\ UNCHANGED missing
        \/ SetupMayFail /\ Speaks(1, Err("setup"), "setup") /\ missing' = missing \union {c}
    BY <1>1, <2>1, Going, Saying, Members DEF SetupChoice
  <2> QED
    BY <1>1, <1>2, <2>1, <2>2 DEF SetupChoice, HandlerRow, Frame, SetupRow
<1>7. CASE SetupDone
  <2>1. Moves("await_batch")
    BY <1>1, <1>7, Going DEF SetupDone
  <2> QED
    BY <1>1, <1>2, <1>7, <2>1 DEF SetupDone, HandlerRow, Frame, SetupRow
<1>8. CASE TakeBatch
  <2>1. \/ Head(batches).tag = "batch" /\ batch' = Head(batches) /\ Moves("respond")
        \/ Head(batches).tag = "error" /\ Speaks(2, Err("pipeline"), "final") /\ UNCHANGED batch
    BY <1>1, <1>8, Going, Saying, Members DEF TakeBatch
  <2> QED
    BY <1>1, <1>2, <1>8, <2>1 DEF TakeBatch, HandlerRow, Frame, TakeRow
<1>9. CASE BatchesEnd
  <2>1. Moves("final")
    BY <1>1, <1>9, Going DEF BatchesEnd
  <2> QED
    BY <1>1, <1>2, <1>9, <2>1 DEF BatchesEnd, HandlerRow, Frame, EndRow
<1>10. CASE Respond
  <2> DEFINE f == msgs[Sets!Max(InChunk(batch))].finish
             r == [tag |-> "chunk", choice |-> batch.choice, upto |-> batch.upto, finish |-> f]
  <2>1. batch.choice \in Choices /\ batch.upto \in Nat /\ InChunk(batch) # {} /\ f \in BOOLEAN
    BY <1>10, Looking DEF Respond
  <2>2. Say(<<r>>, "check_finish", "final")
    BY <1>10, <2>1 DEF Respond
  <2> HIDE DEF f
  <2>3. r \in Response /\ r.tag = "chunk" /\ r.choice = batch.choice /\ r.upto = batch.upto
    BY <2>1, Members
  <2> HIDE DEF r
  <2>4. <<r>> \in Seq(Response) /\ Len(<<r>>) = 1 /\ <<r>>[1] = r
    BY <2>3, Listed
  <2>5. RespondRow
    BY <1>10, <2>2, <2>3, <2>4, Lengths DEF Respond, Say, RespondRow
  <2> QED
    BY <1>1, <1>2, <1>10, <2>5 DEF Respond, HandlerRow, Frame
<1>11. CASE CheckFinish
  <2>1. batch.choice \in Choices
    BY <1>11, BatchFields DEF CheckFinish, Control, Backed, At
  <2>2. [tag |-> "finish", choice |-> batch.choice] \in Response
    BY <2>1, Members
  <2>3. \/ Moves("await_batch")
        \/ Speaks(1, [tag |-> "finish", choice |-> batch.choice], "await_batch")
    BY <1>1, <1>11, <2>2, Going, Saying DEF CheckFinish
  <2> QED
    BY <1>1, <1>2, <1>11, <2>3 DEF CheckFinish, HandlerRow, Frame, FinishRow
<1>12. CASE AwaitReader
  <2>1. ~request.chunk
    BY <1>12 DEF AwaitReader, Control, Phases, At
  <2>2. \E h \in {"final", "end"} : Moves(h) /\ (h = "end" => ~KeepsState)
    BY <1>1, <1>12, <2>1, Going DEF AwaitReader, KeepsState
  <2> QED
    BY <1>1, <1>2, <1>12, <2>2 DEF AwaitReader, HandlerRow, Frame, FinalRow
<1>13. CASE FinalMessage
  <2>1. usage \in BOOLEAN
    BY DEF Control, Types
  <2>2. \A w \in BOOLEAN : FinalOf(w) \in Response
    BY <2>1, Members DEF FinalOf
  <2>3. [tag |-> "final", usage |-> usage, whole |-> TRUE] = FinalOf(TRUE)
    BY DEF FinalOf
  <2>4. usage => [tag |-> "final", usage |-> TRUE, whole |-> FALSE] = FinalOf(FALSE)
    BY <2>1, Zenon DEF FinalOf
  <2>5. CASE ~request.whole /\ ~usage /\ Goto("end")
    BY <1>1, <1>2, <1>13, <2>5, Going DEF FinalMessage, HandlerRow, Frame, FinalRow
  <2>6. CASE (request.whole \/ usage) /\ ~metadata /\ Goto("panicked")
    BY <1>1, <1>2, <1>13, <2>6, Going DEF FinalMessage, HandlerRow, Frame, FinalRow
  <2>7. CASE /\ ~request.whole /\ usage /\ metadata
             /\ Say(<<[tag |-> "final", usage |-> TRUE, whole |-> FALSE]>>, "end", "end")
    <3>1. Speaks(1, FinalOf(FALSE), "end")
      BY <2>2, <2>4, <2>7, Saying
    <3> QED
      BY <1>1, <1>2, <1>13, <2>7, <3>1 DEF FinalMessage, HandlerRow, Frame, FinalRow
  <2>8. CASE request.whole /\ metadata /\ WholeDoc
    <3>1. \/ Speaks(1, FinalOf(TRUE), "end")
          \/ CallMayFail /\ Speaks(2, Err("whole"), "end")
      BY <2>2, <2>3, <2>8, Saying, Members DEF WholeDoc
    <3> QED
      BY <1>1, <1>2, <1>13, <2>8, <3>1 DEF FinalMessage, HandlerRow, Frame, FinalRow
  <2> QED
    BY <1>13, <2>5, <2>6, <2>7, <2>8 DEF FinalMessage
<1>14. CASE SayNone
  <2>1. Speaks(1, None, "stopped")
    BY <1>14, Saying, Members DEF SayNone
  <2> QED
    BY <1>1, <1>2, <1>14, <2>1 DEF SayNone, HandlerRow, Frame, FinalRow
<1> QED
  BY <1>3, <1>4, <1>5, <1>6, <1>7, <1>8, <1>9, <1>10, <1>11, <1>12, <1>13, <1>14 DEF Handler
-----------------------------------------------------------------------------
(* Control is kept by every step.                                          *)

LEMMA InitControl == Init => Control
<1> SUFFICES ASSUME Init PROVE Control
  OBVIOUS
<1>1. Types
  <2>1. <<>> \in Seq(Response) /\ <<>> \in Seq(Batch) /\ <<>> \in Seq(Message)
    OBVIOUS
  <2>2. request \in [input : BOOLEAN, chunk : BOOLEAN, whole : BOOLEAN]
    BY RequestsAssumption DEF Init
  <2> QED
    BY <2>1, <2>2 DEF Init, Types
<1>2. Mail /\ Phases /\ Reading /\ Filed /\ Backed /\ Found
  BY DEF Init, Mail, Phases, Reading, Filed, Backed, Found, At
<1> QED
  BY <1>1, <1>2 DEF Control

\* The parts that do not look at the handler's place or its outbox.
LEMMA ReaderPartsKept ==
    ASSUME Control, UNCHANGED <<request, rpc, msgs, completions, usage>>
    PROVE  Reading' /\ Filed'
  BY DEF Control, Reading, Filed, Current

LEMMA ControlHandler == ASSUME Control, HandlerRow PROVE Control'
<1> USE DEF stateVars
<1>1. /\ hpc # "send" /\ outbox = <<>> /\ setup' \subseteq Choices /\ missing' \subseteq Choices
      /\ UNCHANGED <<request, responses, gone, msgs, metadata, usage, completions, texts, inputError, covered>>
  BY DEF HandlerRow, Frame, SetupRow, Control, Types
<1>2. outbox' \in Seq(Response) /\ (outbox' = <<>> \/ Len(outbox') \in {1, 2})
  <2>1. <<>> \in Seq(Response)
    OBVIOUS
  <2>2. outbox' = <<>> \/ (outbox' \in Seq(Response) /\ Len(outbox') \in {1, 2})
    BY DEF HandlerRow, EarlyRow, RefuseRow, SetupRow, TakeRow, EndRow, RespondRow, FinishRow, FinalRow,
           Moves, Speaks
  <2> QED
    BY <2>1, <2>2
<1>3. batches' = batches \/ (batches # <<>> /\ batches' = Tail(batches))
  BY DEF HandlerRow, TakeRow
<1>4. Types'
  <2>1. batches' \in Seq(Batch)
    <3>1. batches \in Seq(Batch)
      BY DEF Control, Types
    <3> QED
      BY <1>3, <3>1, Popped
  <2> QED
    BY <1>1, <1>2, <2>1 DEF Control, Types
<1>5. Mail'
  <2>1. ASSUME NEW h, Moves(h), h # "send" PROVE Mail'
    BY <2>1 DEF Moves, Mail
  <2>2. ASSUME NEW n \in {1, 2}, NEW a \in Response, a.tag # "chunk", n = 2 => a # None, NEW h,
               h \in {"setup", "await_batch", "final", "end", "stopped"}, Speaks(n, a, h)
        PROVE Mail'
    BY <2>2 DEF Speaks, Mail
  <2>3. CASE EarlyRow
    BY <2>1, <2>3 DEF EarlyRow
  <2>4. CASE RefuseRow
    BY <2>2, <2>4, Members, Tags DEF RefuseRow
  <2>5. CASE SetupRow
    BY <2>1, <2>2, <2>5, Members, Tags DEF SetupRow
  <2>6. CASE TakeRow
    BY <2>1, <2>2, <2>6, Members, Tags DEF TakeRow
  <2>7. CASE EndRow
    BY <2>1, <2>7 DEF EndRow
  <2>8. CASE RespondRow
    BY <2>8 DEF RespondRow, Mail
  <2>9. CASE FinishRow
    <3>1. CASE Moves("await_batch")
      BY <2>1, <3>1
    <3>2. CASE Speaks(1, [tag |-> "finish", choice |-> batch.choice], "await_batch")
      BY <2>9, <3>2, Tags DEF FinishRow, Speaks, Mail
    <3> QED
      BY <2>9, <3>1, <3>2 DEF FinishRow
  <2>10. CASE FinalRow
    <3>1. CASE \E w \in BOOLEAN : Speaks(1, FinalOf(w), "end")
      BY <3>1, Tags DEF Speaks, Mail, FinalOf
    <3>2. CASE \E h \in {"final", "end", "panicked"} : Moves(h)
      BY <2>1, <3>2
    <3>3. CASE Speaks(2, Err("whole"), "end") \/ Speaks(1, None, "stopped")
      BY <2>2, <3>3, Members, Tags
    <3> QED
      BY <2>10, <3>1, <3>2, <3>3 DEF FinalRow
  <2> QED
    BY <2>3, <2>4, <2>5, <2>6, <2>7, <2>8, <2>9, <2>10 DEF HandlerRow
<1>6. Phases'
  BY <1>1 DEF HandlerRow, EarlyRow, RefuseRow, SetupRow, TakeRow, EndRow, RespondRow, FinishRow, FinalRow,
              Moves, Speaks, Control, Phases, At
<1>7. Reading' /\ Filed'
  <2>1. CASE UNCHANGED rpc
    BY <1>1, <2>1, ReaderPartsKept
  <2>2. CASE ~UNCHANGED rpc
    <3>1. rpc' = "next"
      BY <2>2 DEF HandlerRow, EarlyRow, RefuseRow, SetupRow, Control, Phases, At
    <3> QED
      BY <1>1, <3>1 DEF Control, Reading, Filed
  <2> QED
    BY <2>1, <2>2
<1>8. Backed'
  <2>1. batches \in Seq(Batch)
    BY DEF Control, Types
  <2>2. ASSUME NEW i \in DOMAIN batches' PROVE \E k \in DOMAIN batches : batches'[i] = batches[k]
    <3>1. CASE batches # <<>> /\ batches' = Tail(batches)
      <4>1. i + 1 \in DOMAIN batches /\ batches'[i] = batches[i + 1]
        BY <2>1, <2>2, <3>1, Popped
      <4> QED
        BY <4>1
    <3> QED
      BY <1>3, <3>1
  <2>3. (\A i \in DOMAIN batches : batches[i].tag = "batch" => IsBacked(batches[i]))'
    BY <1>1, <2>2 DEF Control, Backed, IsBacked, MessageOf
  <2>4. (At \in {"respond", "check_finish"})' =>
           \/ At = "respond" /\ batch' = batch
           \/ batches # <<>> /\ batch' = batches[1] /\ batches[1].tag = "batch"
    <3>1. batches # <<>> => Head(batches) = batches[1]
      BY <2>1, Popped
    <3> QED
      BY <3>1 DEF HandlerRow, EarlyRow, RefuseRow, SetupRow, TakeRow, EndRow, RespondRow, FinishRow, FinalRow,
                  Moves, Speaks, At
  <2>5. batches # <<>> => 1 \in DOMAIN batches /\ batches[1] \in Batch
    BY <2>1, Lengths
  <2>6. (At \in {"respond", "check_finish"})' => batch' \in Batch /\ batch'.tag = "batch" /\ IsBacked(batch)'
    BY <1>1, <2>4, <2>5 DEF Control, Backed, IsBacked, MessageOf
  <2>7. rpc' = "send_input" => rpc = "send_input"
    BY DEF HandlerRow, EarlyRow, RefuseRow, SetupRow
  <2> QED
    BY <1>1, <2>3, <2>6, <2>7 DEF Control, Backed, Current
<1>9. Found'
  <2>1. ASSUME NEW i \in DOMAIN outbox' PROVE outbox'[i] # Err("lookup")
    <3>1. ASSUME NEW n \in {1, 2}, NEW a, a # Err("lookup"), NEW h, Speaks(n, a, h)
          PROVE  outbox'[i] # Err("lookup")
      BY <2>1, <3>1, Tags DEF Speaks
    <3>2. \A h : ~Moves(h)
      BY <2>1 DEF Moves
    <3>3. CASE RefuseRow \/ SetupRow \/ TakeRow
      BY <3>1, <3>2, <3>3, Tags DEF RefuseRow, SetupRow, TakeRow
    <3>4. CASE RespondRow
      BY <2>1, <3>4, Tags DEF RespondRow
    <3>5. CASE FinishRow
      BY <3>1, <3>2, <3>5, Tags DEF FinishRow
    <3>6. CASE FinalRow
      <4>1. \A w : FinalOf(w) # Err("lookup")
        BY Tags DEF FinalOf
      <4>2. None # Err("lookup") /\ Err("whole") # Err("lookup")
        BY Tags
      <4> QED
        BY <3>1, <3>2, <3>6, <4>1, <4>2 DEF FinalRow
    <3> QED
      BY <3>2, <3>3, <3>4, <3>5, <3>6 DEF HandlerRow, EarlyRow, EndRow
  <2> QED
    BY <1>1, <2>1 DEF Control, Found
<1> QED
  BY <1>4, <1>5, <1>6, <1>7, <1>8, <1>9 DEF Control
-----------------------------------------------------------------------------
\* The handler sends the first response of its outbox.
SendRow ==
    /\ hpc = "send" /\ outbox[1] \in Response
    /\ UNCHANGED <<request, cont, onGone, setup, missing, batch, rpc, pipe, batches, gone,
                   msgs, stateVars, texts, inputError, covered>>
    /\ responses' = IF gone THEN responses ELSE Append(responses, outbox[1])
    /\ \/ Len(outbox) = 1 /\ outbox' = <<>> /\ hpc' = IF gone THEN onGone ELSE cont
       \/ /\ Len(outbox) = 2 /\ outbox[2] = None
          /\ hpc' = "send" /\ outbox' \in Seq(Response) /\ Len(outbox') = 1 /\ DOMAIN outbox' = 1 .. 1
          /\ outbox'[1] = None

LEMMA SendRows == ASSUME Control, HandlerSends PROVE SendRow
<1>1. hpc = "send" /\ outbox \in Seq(Response) /\ Len(outbox) > 0
  BY DEF HandlerSends, Control, Types, Mail
<1>2. outbox # <<>>
  BY <1>1
<1> DEFINE rest == Tail(outbox)
<1>3. /\ rest \in Seq(Response) /\ Len(rest) = Len(outbox) - 1 /\ Len(outbox) \in Nat
      /\ Head(outbox) = outbox[1] /\ outbox[1] \in Response
      /\ \A i \in 1 .. Len(outbox) - 1 : rest[i] = outbox[i + 1]
  BY <1>1, <1>2, Popped
<1>4. /\ responses' = IF gone THEN responses ELSE Append(responses, outbox[1])
      /\ outbox' = Tail(outbox)
      /\ hpc' = IF Tail(outbox) # <<>> THEN "send" ELSE IF gone THEN onGone ELSE cont
      /\ UNCHANGED <<request, cont, onGone, setup, missing, batch, rpc, pipe, batches, gone,
                     msgs, stateVars, texts, inputError, covered>>
  BY <1>3 DEF HandlerSends, Put, readerVars, pipeVars, clientVars
<1> HIDE DEF rest
<1>5. CASE Len(outbox) = 1
  <2>1. rest \in Seq(Response) /\ Len(rest) = 0
    BY <1>3, <1>5
  <2>2. rest = <<>>
    BY <2>1, Lengths
  <2> QED
    BY <1>1, <1>3, <1>4, <1>5, <2>2 DEF SendRow, rest
<1>6. CASE Len(outbox) = 2
  <2>1. rest \in Seq(Response) /\ Len(rest) = 1 /\ rest[1] = outbox[2]
    <3>1. 1 \in 1 .. Len(outbox) - 1
      BY <1>6
    <3> QED
      BY <1>3, <1>6, <3>1
  <2>2. DOMAIN rest = 1 .. 1 /\ rest # <<>>
    BY <2>1, Lengths
  <2>3. outbox[2] = None
    BY <1>6 DEF Control, Mail
  <2> QED
    BY <1>1, <1>3, <1>4, <1>6, <2>1, <2>2, <2>3 DEF SendRow, rest
<1> QED
  BY <1>1, <1>3, <1>5, <1>6 DEF Control, Mail

\* What a response is once it is appended, or not.
LEMMA Putting ==
    ASSUME responses \in Seq(Response), NEW r \in Response,
           responses' = IF gone THEN responses ELSE Append(responses, r)
    PROVE  /\ responses' \in Seq(Response)
           /\ \A i \in DOMAIN responses : i \in DOMAIN responses' /\ responses'[i] = responses[i]
           /\ \A i \in DOMAIN responses' :
                 i \in DOMAIN responses \/ (i = Len(responses) + 1 /\ responses'[i] = r /\ ~gone)
           /\ ~gone => Len(responses) + 1 \in DOMAIN responses' /\ responses'[Len(responses) + 1] = r
           /\ ~gone => Len(responses') = Len(responses) + 1
<1>1. CASE gone
  BY <1>1
<1>2. CASE ~gone
  BY <1>2, Appended
<1> QED
  BY <1>1, <1>2

LEMMA ControlSends == ASSUME Control, SendRow PROVE Control'
<1> USE DEF stateVars
<1>1. /\ hpc = "send" /\ outbox[1] \in Response
      /\ UNCHANGED <<request, cont, onGone, setup, missing, batch, rpc, pipe, batches, gone,
                     msgs, metadata, usage, completions, texts, inputError, covered>>
      /\ responses' = IF gone THEN responses ELSE Append(responses, outbox[1])
  BY DEF SendRow
<1>2. responses \in Seq(Response) /\ responses' \in Seq(Response)
  BY <1>1, Putting DEF Control, Types
<1>3. Types'
  <2>1. <<>> \in Seq(Response)
    OBVIOUS
  <2>2. outbox' \in Seq(Response)
    BY <2>1 DEF SendRow
  <2> QED
    BY <1>1, <1>2, <2>2 DEF Control, Types
<1>4. cont \in {"setup", "check_finish", "await_batch", "final", "end", "stopped"} /\ (onGone = cont \/ onGone = "final")
  BY <1>1 DEF Control, Mail
<1>5. Mail'
  <2>1. CASE Len(outbox) = 1
    BY <1>1, <1>4, <2>1 DEF SendRow, Mail
  <2>2. CASE Len(outbox) = 2
    <3>1. cont # "check_finish"
      BY <1>1, <2>2 DEF Control, Mail
    <3>2. hpc' = "send" /\ Len(outbox') = 1 /\ outbox'[1] = None
      BY <2>2 DEF SendRow
    <3>3. cont' = cont /\ onGone' = onGone /\ onGone = cont
      BY <1>1, <3>1 DEF Control, Mail
    <3> QED
      BY <1>4, <3>1, <3>2, <3>3, Tags DEF Mail
  <2> QED
    BY <2>1, <2>2 DEF SendRow
<1>6. /\ At' = At \/ (At = "check_finish" /\ At' = "final" /\ gone)
      /\ hpc' \notin {"validate", "input", "open", "respond", "await_reader"}
  BY <1>1, <1>4 DEF SendRow, At, Control, Mail
<1>7. Phases'
  BY <1>1, <1>6 DEF Control, Phases, At
<1>8. Reading' /\ Filed'
  BY <1>1, ReaderPartsKept
<1>9. Backed'
  BY <1>1, <1>6 DEF Control, Backed, IsBacked, MessageOf, Current
<1>10. Found'
  <2>1. \A i \in DOMAIN outbox' : outbox'[i] = None
    BY DEF SendRow
  <2>2. 1 \in DOMAIN outbox
    BY <1>1, Lengths DEF Control, Types, Mail
  <2> QED
    BY <1>1, <1>2, <2>1, <2>2, Putting, Tags DEF Control, Found
<1> QED
  BY <1>3, <1>5, <1>7, <1>8, <1>9, <1>10 DEF Control
-----------------------------------------------------------------------------
ReaderFrame == UNCHANGED <<handlerVars, pipeVars, clientVars>>

LEMMA ReaderFrames == ASSUME ReaderSteps PROVE ReaderFrame
  BY DEF ReaderSteps, ReaderNext, ReaderForward, ReaderRecordUsage, ReaderRecordChoice, ReaderRecordNoChoice,
         ReaderRecordError, ReaderSendInput, ReaderEnd, ReaderFrame, handlerVars, pipeVars, clientVars

\* The reader only sends what it forwards.
LEMMA ReaderPuts ==
    ASSUME Control, ReaderSteps
    PROVE  \/ UNCHANGED responses
           \/ /\ rpc = "forward"
              /\ \E r \in Response : /\ r.tag = "raw" \/ r = Err("llm")
                                     /\ responses' = IF gone THEN responses ELSE Append(responses, r)
<1>1. CASE ReaderForward
  <2> DEFINE r == IF Current.kind = "error" THEN Err("llm") ELSE [tag |-> "raw", index |-> Len(msgs)]
  <2>1. r \in Response /\ (r.tag = "raw" \/ r = Err("llm"))
    BY Lengths, Members, Tags DEF Control, Types
  <2> QED
    BY <1>1, <2>1 DEF ReaderForward, Put
<1>2. CASE ~ReaderForward
  BY <1>2 DEF ReaderSteps, ReaderNext, ReaderRecordUsage, ReaderRecordChoice, ReaderRecordNoChoice,
              ReaderRecordError, ReaderSendInput, ReaderEnd
<1> QED
  BY <1>1, <1>2

\* Batches stay backed while the map only grows.
LEMMA BatchesStayBacked ==
    ASSUME Control, UNCHANGED <<batches, batch, hpc, cont>>,
           \A c \in Choices : completions[c] \subseteq completions'[c]
    PROVE  /\ (\A i \in DOMAIN batches : batches[i].tag = "batch" => IsBacked(batches[i]))'
           /\ (At \in {"respond", "check_finish"} => batch \in Batch /\ batch.tag = "batch" /\ IsBacked(batch))'
<1>1. batches \in Seq(Batch) /\ \A i \in DOMAIN batches : batches[i] \in Batch
  BY Lengths DEF Control, Types
<1>2. \A b \in Batch : b.tag = "batch" /\ IsBacked(b) => (b.from <= MessageOf(b.upto) /\ {b.from, MessageOf(b.upto)} \subseteq completions'[b.choice])
  BY BatchFields DEF IsBacked
<1> QED
  BY <1>1, <1>2 DEF Control, Backed, IsBacked, At, MessageOf

LEMMA ControlReader == ASSUME Control, ReaderSteps PROVE Control'
<1>1. UNCHANGED <<request, hpc, outbox, cont, onGone, setup, missing, batch, pipe, covered, batches, gone>>
  BY ReaderFrames DEF ReaderFrame, handlerVars, pipeVars, clientVars
<1>2. Mail'
  BY <1>1 DEF Control, Mail
<1>3. msgs \in Seq(Message) /\ Len(msgs) \in Nat /\ responses \in Seq(Response)
      /\ completions \in [Choices -> SUBSET Nat] /\ texts \in [Choices -> SUBSET Nat]
  BY Lengths DEF Control, Types
<1>4. Len(msgs) > 0 => Current \in Message
  BY <1>3, Lengths DEF Current
<1>5. /\ request.chunk \in BOOLEAN /\ KeepsState \in BOOLEAN
      /\ metadata \in BOOLEAN /\ usage \in BOOLEAN /\ inputError \in BOOLEAN
  BY DEF Control, Types, KeepsState
<1>6. ASSUME UNCHANGED responses PROVE Found'
  BY <1>1, <1>6 DEF Control, Found
<1>7. CASE \E m \in NextMessage : ReaderNext(m)
  <2>1. PICK m \in Message : ReaderNext(m)
    BY <1>7 DEF NextMessage
  <2>2. /\ rpc = "next" /\ msgs' = Append(msgs, m) /\ rpc' = IF request.chunk THEN "record" ELSE "forward"
        /\ UNCHANGED <<metadata, usage, completions, texts, inputError, responses>>
    BY <2>1 DEF ReaderNext, stateVars
  <2>3. /\ msgs' \in Seq(Message) /\ Len(msgs') = Len(msgs) + 1
        /\ \A i \in 1 .. Len(msgs) : msgs'[i] = msgs[i]
    BY <1>3, <2>2, Appended
  <2>4. Types'
    BY <1>1, <2>2, <2>3 DEF Control, Types
  <2>5. Phases' /\ Reading'
    BY <1>1, <1>3, <2>2, <2>3 DEF Control, Phases, Reading, At
  <2>6. Filed'
    BY <1>3, <2>2, <2>3 DEF Control, Filed
  <2>7. Backed'
    BY <1>1, <2>2, BatchesStayBacked DEF Control, Backed
  <2> QED
    BY <1>2, <1>6, <2>2, <2>4, <2>5, <2>6, <2>7 DEF Control
<1>8. CASE ReaderForward
  <2> DEFINE r == IF Current.kind = "error" THEN Err("llm") ELSE [tag |-> "raw", index |-> Len(msgs)]
  <2>1. r \in Response /\ r # Err("lookup")
    BY <1>3, Members, Tags
  <2>2. /\ rpc = "forward" /\ responses' = IF gone THEN responses ELSE Append(responses, r)
        /\ rpc' \in {"next", "closed", "record"}
        /\ UNCHANGED <<msgs, metadata, usage, completions, texts, inputError>>
    BY <1>8 DEF ReaderForward, Put, stateVars
  <2> HIDE DEF r
  <2>3. responses' \in Seq(Response)
    BY <1>3, <2>1, <2>2, Putting
  <2>4. Types'
    BY <1>1, <2>2, <2>3 DEF Control, Types
  <2>5. Phases' /\ Reading'
    BY <1>1, <2>2 DEF Control, Phases, Reading, At
  <2>6. Filed' /\ Backed'
    BY <1>1, <2>2, BatchesStayBacked DEF Control, Filed, Backed
  <2>7. Found'
    BY <1>1, <1>3, <2>1, <2>2, Putting DEF Control, Found
  <2> QED
    BY <1>2, <2>4, <2>5, <2>6, <2>7 DEF Control
<1>9. CASE ReaderRecordUsage \/ ReaderRecordNoChoice \/ ReaderRecordError \/ ReaderEnd
  <2>1. /\ rpc \in {"record", "next"} /\ rpc' \in {"next", "closed"}
        /\ UNCHANGED <<msgs, completions, texts, responses>>
        /\ metadata' \in BOOLEAN /\ usage' \in BOOLEAN /\ inputError' \in BOOLEAN
    <3>1. CASE ReaderRecordUsage
      BY <1>5, <3>1, Zenon DEF ReaderRecordUsage
    <3>2. CASE ReaderRecordNoChoice
      BY <1>5, <3>2, Zenon DEF ReaderRecordNoChoice
    <3>3. CASE ReaderRecordError
      BY <1>5, <3>3, Zenon DEF ReaderRecordError, stateVars
    <3>4. CASE ReaderEnd
      BY <1>5, <3>4, Zenon DEF ReaderEnd, stateVars
    <3> QED
      BY <1>9, <3>1, <3>2, <3>3, <3>4
  <2>2. Types'
    BY <1>1, <2>1 DEF Control, Types
  <2>3. Phases' /\ Reading'
    BY <1>1, <2>1 DEF Control, Phases, Reading, At
  <2>4. Filed' /\ Backed'
    BY <1>1, <2>1, BatchesStayBacked DEF Control, Filed, Backed
  <2> QED
    BY <1>2, <1>6, <2>1, <2>2, <2>3, <2>4 DEF Control
<1>10. CASE ReaderRecordChoice
  <2>1. /\ rpc = "record" /\ Current.kind = "choice"
        /\ rpc' \in {"send_input", "next"} /\ (rpc' = "send_input" => request.chunk)
        /\ completions' = IF KeepsState THEN [completions EXCEPT ![Current.choice] = @ \union {Len(msgs)}]
                          ELSE completions
        /\ metadata' = (metadata \/ (KeepsState /\ Len(msgs) = 1))
        /\ UNCHANGED <<msgs, usage, texts, inputError, responses>>
    BY <1>10 DEF ReaderRecordChoice, stateVars
  <2>2. metadata' \in BOOLEAN
    BY <2>1, Zenon
  <2>3. Len(msgs) > 0 /\ Current.choice \in Choices /\ Len(msgs) \in 1 .. Len(msgs)
    BY <1>3, <1>4, <2>1, MessageFields DEF Control, Reading
  <2>4. /\ completions' \in [Choices -> SUBSET Nat]
        /\ \A c \in Choices : completions[c] \subseteq completions'[c]
        /\ \A c \in Choices : \A i \in completions'[c] : i \in completions[c] \/ i = Len(msgs)
        /\ KeepsState => Len(msgs) \in completions'[Current.choice]
    BY <1>3, <2>1, <2>3
  <2>5. Types'
    BY <1>1, <2>1, <2>2, <2>4 DEF Control, Types
  <2>6. Phases' /\ Reading'
    BY <1>1, <2>1, <2>3 DEF Control, Phases, Reading, At, Current
  <2>7. Filed'
    BY <2>1, <2>3, <2>4 DEF Control, Filed, Current
  <2>8. Backed'
    BY <1>1, <1>3, <2>1, <2>4, BatchesStayBacked DEF Control, Backed, Current, KeepsState
  <2> QED
    BY <1>2, <1>6, <2>1, <2>5, <2>6, <2>7, <2>8 DEF Control
<1>11. CASE ReaderSendInput
  <2>1. /\ rpc = "send_input" /\ rpc' = "next"
        /\ texts' = IF Current.choice \in missing THEN texts
                    ELSE [texts EXCEPT ![Current.choice] = @ \union {Len(msgs)}]
        /\ UNCHANGED <<msgs, metadata, usage, completions, inputError, responses>>
    BY <1>11 DEF ReaderSendInput, stateVars
  <2>2. Current.choice \in Choices /\ Len(msgs) \in completions[Current.choice]
    BY <1>4, <2>1, MessageFields DEF Control, Reading, Backed
  <2>3. /\ texts' \in [Choices -> SUBSET Nat]
        /\ \A c \in Choices : texts'[c] \subseteq completions[c]
    BY <1>3, <2>1, <2>2 DEF Control, Backed
  <2>4. Types'
    BY <1>1, <2>1, <2>3 DEF Control, Types
  <2>5. Phases' /\ Reading'
    BY <1>1, <2>1 DEF Control, Phases, Reading, At
  <2>6. Filed' /\ Backed'
    BY <1>1, <2>1, <2>3, BatchesStayBacked DEF Control, Filed, Backed
  <2> QED
    BY <1>2, <1>6, <2>1, <2>4, <2>5, <2>6 DEF Control
<1> QED
  BY <1>7, <1>8, <1>9, <1>10, <1>11 DEF ReaderSteps
-----------------------------------------------------------------------------
\* What a step of the pipeline comes to.
PipeRow ==
    /\ pipe = "running"
    /\ UNCHANGED <<handlerVars, readerVars, responses, clientVars>>
    /\ \/ \E c \in Choices : \E h \in Uncovered(c) : \E b \in Batch :
             /\ b.tag = "batch" /\ b.choice = c /\ b.upto = h /\ IsBacked(b)
             /\ covered' = [covered EXCEPT ![c] = h]
             /\ batches' = Append(batches, b) /\ UNCHANGED pipe
       \/ \E c \in Choices : \E h \in Uncovered(c) :
             MayLose /\ covered' = [covered EXCEPT ![c] = h] /\ UNCHANGED <<batches, pipe>>
       \/ /\ PipeMayFail \/ inputError
          /\ pipe' = "failed" /\ batches' = Append(batches, [tag |-> "error"]) /\ UNCHANGED covered
       \/ /\ \/ missing = Choices
             \/ rpc = "closed" /\ ~inputError /\ \A c \in Choices : Uncovered(c) = {}
          /\ pipe' = "closed" /\ UNCHANGED <<batches, covered>>

LEMMA HalfOf ==
    ASSUME Control, NEW c \in Choices
    PROVE  /\ \A h \in Halves(c) : h \in Nat /\ MessageOf(h) \in texts[c]
           /\ \A i \in texts[c] : i \in Nat \ {0} /\ 2 * i \in Halves(c)
           /\ covered[c] \in Nat
<1>1. texts[c] \in SUBSET Nat /\ covered[c] \in Nat
  BY DEF Control, Types
<1>2. \A i \in texts[c] : i \in 1 .. Len(msgs)
  BY DEF Control, Filed, Backed
<1>3. ASSUME NEW i \in texts[c]
      PROVE i \in Nat \ {0} /\ 2 * i \in Nat /\ 2 * i - 1 \in Nat /\ MessageOf(2 * i) = i /\ MessageOf(2 * i - 1) = i
  <2>1. Len(msgs) \in Nat
    BY Lengths DEF Control, Types
  <2>2. i \in Nat \ {0}
    BY <1>1, <1>2, <2>1
  <2> QED
    BY <2>2, Halving
<1> QED
  BY <1>1, <1>3 DEF Halves

LEMMA PipeRows == ASSUME Control, Pipeline \/ PipeFails \/ PipeForwardsError PROVE PipeRow
<1>1. ASSUME NEW c \in Choices, NEW h \in Uncovered(c), PipeBatch(c, h) PROVE PipeRow
  <2> DEFINE g == Sets!Min(Uncovered(c))
             b == MkBatch(c, h)
  <2>1. Uncovered(c) \in SUBSET Nat /\ \A k \in Uncovered(c) : k \in Nat /\ MessageOf(k) \in texts[c]
    BY HalfOf DEF Uncovered
  <2>2. g \in Uncovered(c) /\ g <= h
    BY <1>1, <2>1, MinOf
  <2> HIDE DEF g
  <2>3. b = [tag |-> "batch", choice |-> c, from |-> MessageOf(g), upto |-> h]
    BY DEF MkBatch, g
  <2>4. /\ g \in Nat /\ h \in Nat /\ MessageOf(g) \in texts[c] /\ MessageOf(h) \in texts[c]
        /\ MessageOf(g) \in Nat /\ MessageOf(g) <= MessageOf(h)
    BY <1>1, <2>1, <2>2, Halving, HalvingMonotone
  <2> HIDE DEF b
  <2>5. b \in Batch /\ b.tag = "batch" /\ b.choice = c /\ b.from = MessageOf(g) /\ b.upto = h
    BY <2>3, <2>4, BatchMembers
  <2>6. IsBacked(b)
    BY <2>4, <2>5 DEF IsBacked, Control, Backed
  <2>7. /\ covered' = [covered EXCEPT ![c] = h] /\ batches' = Append(batches, b) /\ pipe = "running"
        /\ UNCHANGED <<pipe, handlerVars, readerVars, responses, clientVars>>
    BY <1>1 DEF PipeBatch, b
  <2> QED
    BY <2>5, <2>6, <2>7 DEF PipeRow
<1>2. ASSUME NEW c \in Choices, NEW h \in Uncovered(c), PipeLoses(c, h) PROVE PipeRow
  BY <1>2 DEF PipeLoses, PipeRow
<1>3. CASE PipeFails \/ PipeForwardsError
  BY <1>3 DEF PipeFails, PipeForwardsError, PipeError, PipeRow
<1>4. CASE PipeCloses
  BY <1>4 DEF PipeCloses, PipeRow
<1> QED
  BY <1>1, <1>2, <1>3, <1>4 DEF Pipeline

LEMMA ControlPipe == ASSUME Control, PipeRow PROVE Control'
<1>1. /\ pipe = "running"
      /\ UNCHANGED <<request, hpc, outbox, cont, onGone, setup, missing, batch, rpc, msgs,
                     metadata, usage, completions, texts, inputError, responses, gone>>
  BY DEF PipeRow, handlerVars, readerVars, stateVars, clientVars
<1>2. batches \in Seq(Batch) /\ covered \in [Choices -> Nat]
  BY DEF Control, Types
<1>3. pipe' \in {"running", "failed", "closed"}
  BY DEF PipeRow
<1>4. covered' \in [Choices -> Nat]
  <2>1. \A c \in Choices : \A h \in Uncovered(c) : h \in Nat
    BY HalfOf DEF Uncovered
  <2> QED
    BY <1>2, <2>1 DEF PipeRow
<1>5. batches' = batches \/ \E b \in Batch : (b.tag = "batch" => IsBacked(b)) /\ batches' = Append(batches, b)
  BY BatchMembers DEF PipeRow
<1>6. /\ batches' \in Seq(Batch)
      /\ (\A i \in DOMAIN batches : batches[i].tag = "batch" => IsBacked(batches[i]))'
  <2>1. CASE batches' = batches
    BY <1>1, <1>2, <2>1 DEF Control, Backed, IsBacked, MessageOf
  <2>2. CASE \E b \in Batch : (b.tag = "batch" => IsBacked(b)) /\ batches' = Append(batches, b)
    <3>1. PICK b \in Batch : (b.tag = "batch" => IsBacked(b)) /\ batches' = Append(batches, b)
      BY <2>2
    <3>2. /\ batches' \in Seq(Batch) /\ Len(batches) \in Nat
          /\ DOMAIN batches' = 1 .. Len(batches) + 1 /\ DOMAIN batches = 1 .. Len(batches)
          /\ batches'[Len(batches) + 1] = b /\ \A i \in 1 .. Len(batches) : batches'[i] = batches[i]
      BY <1>2, <3>1, Appended
    <3>3. \A i \in DOMAIN batches' : batches'[i] = b \/ (i \in DOMAIN batches /\ batches'[i] = batches[i])
      BY <3>2
    <3> QED
      BY <1>1, <3>1, <3>2, <3>3 DEF Control, Backed, IsBacked, MessageOf
  <2> QED
    BY <1>5, <2>1, <2>2
<1>7. Types'
  BY <1>1, <1>4, <1>6 DEF Control, Types
<1>8. Mail' /\ Found'
  BY <1>1 DEF Control, Mail, Found
<1>9. Phases'
  BY <1>1, <1>3 DEF Control, Phases, At
<1>10. Reading' /\ Filed'
  BY <1>1, ReaderPartsKept
<1>11. Backed'
  BY <1>1, <1>6 DEF Control, Backed, IsBacked, MessageOf, At, Current
<1> QED
  BY <1>7, <1>8, <1>9, <1>10, <1>11 DEF Control

\* The client's steps.
ClientRow ==
    /\ UNCHANGED <<handlerVars, readerVars, pipeVars, responses>>
    /\ gone' \in BOOLEAN /\ (gone => gone') /\ (gone' => gone \/ MayLeave)

LEMMA ClientRows == ASSUME Types, ClientReads \/ ClientLeaves \/ UNCHANGED vars PROVE ClientRow
<1>1. gone \in BOOLEAN
  BY DEF Types
<1>2. CASE ClientReads
  BY <1>1, <1>2 DEF ClientReads, ClientRow
<1>3. CASE ClientLeaves
  BY <1>3 DEF ClientLeaves, ClientRow
<1>4. CASE UNCHANGED vars
  BY <1>1, <1>4 DEF vars, clientVars, ClientRow
<1> QED
  BY <1>2, <1>3, <1>4

LEMMA ControlClient == ASSUME Control, ClientRow PROVE Control'
<1>1. UNCHANGED <<request, hpc, outbox, cont, onGone, setup, missing, batch, rpc, msgs,
                  metadata, usage, completions, texts, inputError, pipe, covered, batches, responses>>
  BY DEF ClientRow, handlerVars, readerVars, stateVars, pipeVars
<1>2. Types'
  BY <1>1 DEF Control, Types, ClientRow
<1>3. Mail' /\ Phases' /\ Reading' /\ Filed' /\ Backed' /\ Found'
  BY <1>1 DEF Control, Mail, Phases, Reading, Filed, Backed, Found, IsBacked, MessageOf, At, Current
<1> QED
  BY <1>2, <1>3 DEF Control

\* Every step is one of these.
Step == HandlerRow \/ SendRow \/ ReaderSteps \/ PipeRow \/ ClientRow

LEMMA Steps == ASSUME Control, [Next]_vars PROVE Step
<1>1. CASE Handler
  BY <1>1, HandlerRows, SendRows DEF Step
<1>2. CASE ReaderSteps
  BY <1>2 DEF Step
<1>3. CASE Pipeline \/ PipeFails \/ PipeForwardsError
  BY <1>3, PipeRows DEF Step
<1>4. CASE ClientReads \/ ClientLeaves \/ UNCHANGED vars
  BY <1>4, ClientRows DEF Step, Control
<1> QED
  BY <1>1, <1>2, <1>3, <1>4 DEF Next, Finished

LEMMA ControlNext == ASSUME Control, [Next]_vars PROVE Control'
  BY Steps, ControlHandler, ControlSends, ControlReader, ControlPipe, ControlClient DEF Step

LEMMA ControlAlways == Spec => []Control
  BY InitControl, ControlNext, PTL DEF Spec

\* BatchIsBacked: the completion of a message is in the map before the message's
\* text is sent to the chunkers, so that no batch, however early it comes, is
\* looked up in vain, whatever fails and whatever the client does.
THEOREM BatchIsBackedAlways == Spec => []BatchIsBacked
<1>1. Control => BatchIsBacked
  BY DEF Control, Backed, Found, BatchIsBacked, IsBacked, At
<1> QED
  BY <1>1, ControlAlways, PTL
-----------------------------------------------------------------------------
(* Nothing is generated for a refused request.                             *)

Refusal(r) == r.tag = "input" \/ r = Err("call")
Refused ==
    \/ \E i \in DOMAIN responses : Refusal(responses[i])
    \/ \E i \in DOMAIN outbox : Refusal(outbox[i])

\* A refused request has neither reader nor pipeline, and stops.
Refuses ==
    Refused => /\ At = "stopped" /\ rpc = "idle" /\ pipe = "off"
               /\ \A i \in DOMAIN responses : responses[i].tag \notin {"raw", "chunk"}
               /\ \A i \in DOMAIN outbox : outbox[i].tag \notin {"raw", "chunk"}

LEMMA RefusesNext == ASSUME Control, Refuses, Step PROVE Refuses'
<1>1. responses \in Seq(Response) /\ outbox \in Seq(Response)
  BY DEF Control, Types
<1>2. CASE HandlerRow
  <2>1. hpc # "send" /\ outbox = <<>> /\ UNCHANGED responses /\ (Refused => hpc = "stopped")
    BY <1>2 DEF HandlerRow, Frame, Refuses, At
  <2>2. CASE EarlyRow
    <3>1. responses' = <<>> /\ outbox' = <<>>
      BY <2>1, <2>2 DEF EarlyRow, Moves, Control, Phases
    <3> QED
      BY <3>1 DEF Refuses, Refused
  <2>3. CASE RefuseRow /\ UNCHANGED <<rpc, pipe>>
    <3>1. responses' = <<>> /\ rpc' = "idle" /\ pipe' = "off" /\ hpc' = "send" /\ cont' = "stopped"
      BY <2>1, <2>3 DEF RefuseRow, Speaks, Control, Phases
    <3>2. \A i \in DOMAIN outbox' : outbox'[i].tag \in {"input", "error", "none"}
      BY <2>3, Tags DEF RefuseRow, Speaks
    <3> QED
      BY <3>1, <3>2 DEF Refuses, At
  <2>4. ASSUME NEW n \in {1, 2}, NEW a, ~Refusal(a), NEW h, Speaks(n, a, h), hpc # "stopped"
        PROVE  ~Refused'
    <3>1. \A i \in DOMAIN outbox' : outbox'[i] = a \/ outbox'[i] = None
      BY <2>4 DEF Speaks
    <3> QED
      BY <2>1, <2>4, <3>1, Tags DEF Refused, Refusal
  <2>5. ASSUME NEW h, Moves(h), hpc # "stopped" PROVE ~Refused'
    BY <2>1, <2>5 DEF Moves, Refused
  <2>6. CASE SetupRow \/ TakeRow \/ EndRow
    BY <2>4, <2>5, <2>6, Tags DEF SetupRow, TakeRow, EndRow, Refusal, Refuses
  <2>7. CASE RespondRow
    BY <2>1, <2>7, Tags DEF RespondRow, Refused, Refusal, Refuses
  <2>8. CASE FinishRow
    BY <2>4, <2>5, <2>8, Tags DEF FinishRow, Refusal, Refuses
  <2>9. CASE FinalRow
    <3>1. /\ \A w : ~Refusal(FinalOf(w))
          /\ ~Refusal(None) /\ ~Refusal(Err("whole"))
      BY Tags DEF FinalOf, Refusal
    <3> QED
      BY <2>4, <2>5, <2>9, <3>1 DEF FinalRow, Refuses
  <2> QED
    BY <1>2, <2>2, <2>3, <2>6, <2>7, <2>8, <2>9 DEF HandlerRow
<1>3. CASE SendRow
  <2>1. /\ hpc = "send" /\ outbox[1] \in Response /\ 1 \in DOMAIN outbox
        /\ responses' = IF gone THEN responses ELSE Append(responses, outbox[1])
        /\ \A i \in DOMAIN outbox' : outbox'[i] = None
        /\ UNCHANGED <<rpc, pipe>>
    BY <1>1, <1>3, Lengths DEF SendRow, Control, Mail
  <2>2. Refused' => Refused
    BY <1>1, <2>1, Putting, Tags DEF Refused, Refusal
  <2>3. At = "stopped" => At' = "stopped"
    BY <1>3 DEF SendRow, At, Control, Mail
  <2> QED
    BY <1>1, <2>1, <2>2, <2>3, Putting, Tags DEF Refuses
<1>4. CASE ReaderSteps
  <2>1. UNCHANGED outbox
    BY <1>4, ReaderFrames DEF ReaderFrame, handlerVars
  <2>2. rpc # "idle"
    BY <1>4 DEF ReaderSteps, ReaderNext, ReaderForward, ReaderRecordUsage, ReaderRecordChoice,
                ReaderRecordNoChoice, ReaderRecordError, ReaderSendInput, ReaderEnd
  <2>3. \/ UNCHANGED responses
        \/ \E r \in Response : ~Refusal(r) /\ responses' = IF gone THEN responses ELSE Append(responses, r)
    BY <1>4, ReaderPuts, Tags DEF Refusal
  <2>4. ~Refused /\ ~Refused'
    BY <1>1, <2>1, <2>2, <2>3, Putting DEF Refuses, Refused
  <2> QED
    BY <2>4 DEF Refuses
<1>5. CASE PipeRow
  BY <1>5 DEF PipeRow, handlerVars, readerVars, Refuses, Refused
<1>6. CASE ClientRow
  BY <1>6 DEF ClientRow, handlerVars, readerVars, pipeVars, Refuses, Refused, At
<1> QED
  BY <1>2, <1>3, <1>4, <1>5, <1>6 DEF Step

\* InputBlocksGeneration: once input detections or a failed call are reported, or
\* about to be, the LLM stream is not opened and nothing generated is sent.
THEOREM InputBlocksGenerationAlways == Spec => []InputBlocksGeneration
<1>1. Init => Refuses
  BY DEF Init, Refuses, Refused
<1>2. Control /\ Refuses /\ [Next]_vars => Refuses'
  BY Steps, RefusesNext
<1>3. Control /\ Refuses => InputBlocksGeneration
  BY DEF Refuses, Refused, Refusal, InputBlocksGeneration, Sent, Control, Reading
<1> QED
  BY <1>1, <1>2, <1>3, ControlAlways, PTL DEF Spec
-----------------------------------------------------------------------------
(* Chunks are answered in order.                                           *)

\* The batches of a choice are queued in text order, an error comes last.
Queued ==
    /\ \A k \in DOMAIN batches : batches[k].tag = "batch" => batches[k].upto <= covered[batches[k].choice]
    /\ \A k, l \in DOMAIN batches :
          (k < l /\ batches[k].tag = "batch" /\ batches[l].tag = "batch" /\ batches[k].choice = batches[l].choice)
          => batches[k].upto < batches[l].upto
    /\ \A k \in DOMAIN batches : batches[k].tag = "error" => k = Len(batches) /\ pipe = "failed"

\* What ends with half u of choice c has left the queue: all batches of c come after it ...
Ahead(c, u) ==
    /\ u <= covered[c]
    /\ \A k \in DOMAIN batches : (batches[k].tag = "batch" /\ batches[k].choice = c) => u < batches[k].upto

\* ... and follows all that was sent.
After(c, u) ==
    \A i \in DOMAIN responses : (responses[i].tag = "chunk" /\ responses[i].choice = c) => responses[i].upto < u

InOrder ==
    /\ hpc = "respond" => Ahead(batch.choice, batch.upto) /\ After(batch.choice, batch.upto)
    /\ hpc = "send" /\ outbox[1].tag = "chunk" =>
          Ahead(outbox[1].choice, outbox[1].upto) /\ After(outbox[1].choice, outbox[1].upto)
    /\ \A i \in DOMAIN responses : responses[i].tag = "chunk" => Ahead(responses[i].choice, responses[i].upto)
    /\ ChunksInOrder

Order == Queued /\ InOrder

\* Ahead and After in the next state.
AheadNext(c, u) ==
    /\ u <= covered'[c]
    /\ \A k \in DOMAIN batches' : (batches'[k].tag = "batch" /\ batches'[k].choice = c) => u < batches'[k].upto
AfterNext(c, u) ==
    \A i \in DOMAIN responses' : (responses'[i].tag = "chunk" /\ responses'[i].choice = c) => responses'[i].upto < u

LEMMA InOrderNext ==
    ASSUME hpc' = "respond" => AheadNext(batch'.choice, batch'.upto) /\ AfterNext(batch'.choice, batch'.upto),
           hpc' = "send" /\ outbox'[1].tag = "chunk" =>
               AheadNext(outbox'[1].choice, outbox'[1].upto) /\ AfterNext(outbox'[1].choice, outbox'[1].upto),
           \A i \in DOMAIN responses' : responses'[i].tag = "chunk" => AheadNext(responses'[i].choice, responses'[i].upto),
           ChunksInOrder'
    PROVE  InOrder'
  BY DEF InOrder, Ahead, After, AheadNext, AfterNext


LEMMA OrderHandler == ASSUME Control, Order, HandlerRow PROVE Order'
<1>1. UNCHANGED <<responses, covered>> /\ outbox = <<>> /\ hpc # "send"
  BY DEF HandlerRow, Frame
<1>2. ChunksInOrder'
  BY <1>1 DEF Order, InOrder, ChunksInOrder
<1>3. batches \in Seq(Batch) /\ responses \in Seq(Response) /\ covered \in [Choices -> Nat]
  BY DEF Control, Types
<1>4. \A c, u : After(c, u) => AfterNext(c, u)
  BY <1>1 DEF After, AfterNext
<1>5. CASE TakeRow /\ UNCHANGED pipe
  <2>1. /\ batches' \in Seq(Batch) /\ Len(batches') = Len(batches) - 1 /\ Len(batches) \in Nat /\ Len(batches) > 0
        /\ DOMAIN batches = 1 .. Len(batches) /\ DOMAIN batches' = 1 .. Len(batches) - 1
        /\ \A i \in 1 .. Len(batches) - 1 : batches'[i] = batches[i + 1]
        /\ Head(batches) = batches[1]
    BY <1>3, <1>5, Popped DEF TakeRow
  <2>2. \A k \in DOMAIN batches' : k + 1 \in DOMAIN batches /\ batches'[k] = batches[k + 1]
    BY <2>1
  <2>3. Queued'
    <3>1. ASSUME NEW k \in DOMAIN batches' PROVE batches'[k].tag = "batch" => batches'[k].upto <= covered[batches'[k].choice]
      BY <2>2 DEF Order, Queued
    <3>2. ASSUME NEW k \in DOMAIN batches', NEW l \in DOMAIN batches', k < l,
                 batches'[k].tag = "batch", batches'[l].tag = "batch", batches'[k].choice = batches'[l].choice
          PROVE  batches'[k].upto < batches'[l].upto
      <4>1. k + 1 < l + 1
        BY <2>1, <3>2
      <4> QED
        BY <2>2, <3>2, <4>1 DEF Order, Queued
    <3>3. ASSUME NEW k \in DOMAIN batches', batches'[k].tag = "error" PROVE k = Len(batches') /\ pipe' = "failed"
      <4>1. k + 1 = Len(batches) /\ pipe = "failed"
        BY <2>2, <3>3 DEF Order, Queued
      <4> QED
        BY <1>5, <2>1, <3>3, <4>1
    <3> QED
      BY <1>1, <3>1, <3>2, <3>3 DEF Queued
  <2>4. \A c, u : Ahead(c, u) => AheadNext(c, u)
    BY <1>1, <2>2 DEF Ahead, AheadNext
  <2>5. \A i \in DOMAIN responses' : responses'[i].tag = "chunk" => AheadNext(responses'[i].choice, responses'[i].upto)
    BY <1>1, <2>4 DEF Order, InOrder
  <2>6. CASE Head(batches).tag = "batch" /\ batch' = Head(batches) /\ Moves("respond")
    <3>1. batch' = batches[1] /\ batches[1].tag = "batch" /\ 1 \in DOMAIN batches /\ hpc' = "respond"
      BY <2>1, <2>6 DEF Moves
    <3>2. batches[1].upto <= covered[batches[1].choice]
      BY <3>1 DEF Order, Queued
    <3>3. ASSUME NEW k \in DOMAIN batches', batches'[k].tag = "batch", batches'[k].choice = batches[1].choice
          PROVE  batches[1].upto < batches'[k].upto
      <4>1. 1 < k + 1
        BY <2>1, <3>3
      <4> QED
        BY <2>2, <3>1, <3>3, <4>1 DEF Order, Queued
    <3>4. AheadNext(batch'.choice, batch'.upto)
      BY <1>1, <3>1, <3>2, <3>3 DEF AheadNext
    <3>5. AfterNext(batch'.choice, batch'.upto)
      BY <1>1, <3>1 DEF Order, InOrder, Ahead, AfterNext
    <3> QED
      BY <1>2, <2>3, <2>5, <3>1, <3>4, <3>5, InOrderNext DEF Order
  <2>7. CASE Head(batches).tag = "error" /\ Speaks(2, Err("pipeline"), "final")
    <3>1. hpc' = "send" /\ outbox'[1].tag # "chunk"
      BY <2>7, Tags DEF Speaks
    <3> QED
      BY <1>2, <2>3, <2>5, <3>1, InOrderNext DEF Order
  <2> QED
    BY <1>5, <2>6, <2>7 DEF TakeRow
<1>6. CASE UNCHANGED <<pipe, batches>> \/ SetupRow
  <2>1. UNCHANGED batches
    BY <1>6 DEF HandlerRow, SetupRow, EarlyRow, RefuseRow, TakeRow, EndRow, RespondRow, FinishRow, FinalRow
  <2>2. Queued'
    <3>1. pipe = "failed" => pipe' = "failed"
      BY <1>6 DEF SetupRow, Control, Phases, At, HandlerRow
    <3> QED
      BY <1>1, <2>1, <3>1 DEF Order, Queued
  <2>3. \A c, u : Ahead(c, u) => AheadNext(c, u)
    BY <1>1, <2>1 DEF Ahead, AheadNext
  <2>4. \A i \in DOMAIN responses' : responses'[i].tag = "chunk" => AheadNext(responses'[i].choice, responses'[i].upto)
    BY <1>1, <2>3 DEF Order, InOrder
  <2>5. CASE RespondRow
    <3>1. /\ hpc = "respond" /\ hpc' = "send"
          /\ outbox'[1].choice = batch.choice /\ outbox'[1].upto = batch.upto
      BY <2>5 DEF RespondRow
    <3>2. Ahead(batch.choice, batch.upto) /\ After(batch.choice, batch.upto)
      BY <3>1 DEF Order, InOrder
    <3> QED
      BY <1>2, <1>4, <2>2, <2>3, <2>4, <3>1, <3>2, InOrderNext DEF Order
  <2>6. CASE ~RespondRow
    <3>1. hpc' # "respond" /\ (hpc' = "send" => outbox'[1].tag # "chunk")
      <4>1. \A w : FinalOf(w).tag = "final"
        BY Tags DEF FinalOf
      <4> QED
        BY <1>6, <2>6, <4>1, Tags DEF HandlerRow, SetupRow, EarlyRow, RefuseRow, TakeRow, EndRow, FinishRow, FinalRow,
                              Moves, Speaks
    <3> QED
      BY <1>2, <2>2, <2>4, <3>1, InOrderNext DEF Order
  <2> QED
    BY <2>5, <2>6
<1> QED
  BY <1>5, <1>6 DEF HandlerRow

LEMMA OrderSends == ASSUME Control, Order, SendRow PROVE Order'
<1>1. /\ hpc = "send" /\ outbox[1] \in Response /\ UNCHANGED <<batches, covered, pipe>>
      /\ responses' = IF gone THEN responses ELSE Append(responses, outbox[1])
  BY DEF SendRow
<1>2. responses \in Seq(Response)
  BY DEF Control, Types
<1>3. hpc' # "respond" /\ (hpc' = "send" => outbox'[1].tag # "chunk")
  BY <1>1, Tags DEF SendRow, Control, Mail
<1>4. \A c, u : Ahead(c, u) => AheadNext(c, u)
  BY <1>1 DEF Ahead, AheadNext
<1>5. \A i \in DOMAIN responses' : responses'[i].tag = "chunk" => AheadNext(responses'[i].choice, responses'[i].upto)
  BY <1>1, <1>2, <1>4, Putting DEF Order, InOrder
<1>6. ChunksInOrder'
  <2> SUFFICES ASSUME NEW i \in DOMAIN responses', NEW j \in DOMAIN responses', i < j,
                      responses'[i].tag = "chunk", responses'[j].tag = "chunk",
                      responses'[i].choice = responses'[j].choice
               PROVE  responses'[i].upto < responses'[j].upto
    BY DEF ChunksInOrder
  <2>1. i \in DOMAIN responses /\ responses'[i] = responses[i]
    <3>1. DOMAIN responses' \subseteq 1 .. Len(responses) + 1 /\ DOMAIN responses = 1 .. Len(responses) /\ Len(responses) \in Nat
      BY <1>1, <1>2, Appended, Lengths
    <3>2. i \in DOMAIN responses
      BY <3>1
    <3> QED
      BY <1>1, <1>2, <3>2, Putting
  <2>2. CASE j \in DOMAIN responses
    <3>1. responses'[j] = responses[j]
      BY <1>1, <1>2, <2>2, Putting
    <3> QED
      BY <2>1, <2>2, <3>1 DEF Order, InOrder, ChunksInOrder
  <2>3. CASE j \notin DOMAIN responses
    <3>1. responses'[j] = outbox[1]
      BY <1>1, <1>2, <2>3, Putting
    <3> QED
      BY <1>1, <2>1, <3>1 DEF Order, InOrder, After
  <2> QED
    BY <2>2, <2>3
<1>7. Queued'
  BY <1>1 DEF Order, Queued
<1> QED
  BY <1>3, <1>5, <1>6, <1>7, InOrderNext DEF Order

LEMMA OrderReader == ASSUME Control, Order, ReaderSteps PROVE Order'
<1>1. UNCHANGED <<hpc, outbox, batch, batches, covered, pipe>>
  BY ReaderFrames DEF ReaderFrame, handlerVars, pipeVars
<1>2. responses \in Seq(Response)
  BY DEF Control, Types
<1>3. /\ \A i \in DOMAIN responses : i \in DOMAIN responses' /\ responses'[i] = responses[i]
      /\ \A i \in DOMAIN responses' : responses'[i].tag = "chunk" => i \in DOMAIN responses
  BY <1>2, ReaderPuts, Putting, Tags
<1>4. \A c, u : (Ahead(c, u) => AheadNext(c, u)) /\ (After(c, u) => AfterNext(c, u))
  BY <1>1, <1>3 DEF Ahead, AheadNext, After, AfterNext
<1>5. \A i \in DOMAIN responses' : responses'[i].tag = "chunk" => AheadNext(responses'[i].choice, responses'[i].upto)
  BY <1>3, <1>4 DEF Order, InOrder
<1>6. ChunksInOrder'
  BY <1>3 DEF Order, InOrder, ChunksInOrder
<1>7. Queued'
  BY <1>1 DEF Order, Queued
<1> QED
  BY <1>1, <1>4, <1>5, <1>6, <1>7, InOrderNext DEF Order, InOrder

LEMMA OrderPipe == ASSUME Control, Order, PipeRow PROVE Order'
<1>1. pipe = "running" /\ UNCHANGED <<hpc, outbox, batch, responses>>
  BY DEF PipeRow, handlerVars
<1>2. batches \in Seq(Batch) /\ responses \in Seq(Response) /\ covered \in [Choices -> Nat]
  BY DEF Control, Types
<1>3. ChunksInOrder' /\ \A c, u : After(c, u) => AfterNext(c, u)
  BY <1>1 DEF Order, InOrder, ChunksInOrder, After, AfterNext
<1>4. \A k \in DOMAIN batches : batches[k].tag = "batch" /\ batches[k].choice \in Choices /\ batches[k].upto \in Nat
  BY <1>1, <1>2, Lengths, BatchFields DEF Order, Queued
<1>5. ASSUME NEW c \in Choices, NEW h \in Uncovered(c), covered' = [covered EXCEPT ![c] = h]
      PROVE  /\ h \in Nat /\ covered[c] < h /\ covered[c] \in Nat /\ covered'[c] = h
             /\ \A d \in Choices : covered[d] <= covered'[d]
  <2>1. h \in Nat /\ covered[c] < h /\ covered[c] \in Nat
    BY HalfOf DEF Uncovered
  <2> QED
    BY <1>2, <1>5, <2>1
<1>6. \A d \in Choices : covered'[d] \in Nat /\ covered[d] \in Nat /\ covered[d] <= covered'[d]
  BY <1>2, <1>5 DEF PipeRow
<1>7. SUFFICES /\ Queued'
               /\ \A d \in Choices : \A u \in Nat : Ahead(d, u) => AheadNext(d, u)
  <2>1. hpc = "respond" => batch.choice \in Choices /\ batch.upto \in Nat
    BY BatchFields DEF Control, Backed, At
  <2>2. hpc = "send" /\ outbox[1].tag = "chunk" => outbox[1].choice \in Choices /\ outbox[1].upto \in Nat
    <3>1. hpc = "send" => outbox[1] \in Response
      BY Lengths DEF Control, Types, Mail
    <3> QED
      BY <3>1, ChunkFields
  <2>3. \A i \in DOMAIN responses : responses[i].tag = "chunk" => responses[i].choice \in Choices /\ responses[i].upto \in Nat
    BY <1>2, Lengths, ChunkFields
  <2> QED
    BY <1>1, <1>3, <1>7, <2>1, <2>2, <2>3, InOrderNext DEF Order, InOrder
<1>8. CASE UNCHANGED batches
  <2>1. \A k \in DOMAIN batches : batches[k].upto <= covered'[batches[k].choice]
    BY <1>4, <1>6 DEF Order, Queued
  <2>2. Queued'
    BY <1>4, <1>8, <2>1 DEF Order, Queued
  <2> QED
    BY <1>6, <1>8, <2>2 DEF Ahead, AheadNext
<1>9. ASSUME NEW b \in Batch, batches' = Append(batches, b),
             \/ b.tag = "error" /\ pipe' = "failed"
             \/ b.tag = "batch" /\ covered[b.choice] < b.upto /\ b.upto <= covered'[b.choice]
      PROVE  /\ Queued'
             /\ \A d \in Choices : \A u \in Nat : Ahead(d, u) => AheadNext(d, u)
  <2>1. /\ Len(batches') = Len(batches) + 1 /\ Len(batches) \in Nat
        /\ DOMAIN batches = 1 .. Len(batches) /\ DOMAIN batches' = 1 .. Len(batches) + 1
        /\ batches'[Len(batches) + 1] = b
        /\ \A i \in 1 .. Len(batches) : batches'[i] = batches[i]
    BY <1>2, <1>9, Appended
  <2>2. \A k \in DOMAIN batches' : k \in DOMAIN batches \/ k = Len(batches) + 1
    BY <2>1
  <2>3. b.tag = "batch" => b.choice \in Choices /\ b.upto \in Nat
    BY BatchFields
  <2>4. ASSUME NEW k \in DOMAIN batches', batches'[k].tag = "batch"
        PROVE  batches'[k].upto <= covered'[batches'[k].choice]
    <3>1. CASE k \in DOMAIN batches
      <4>1. batches[k].upto <= covered[batches[k].choice]
        BY <1>4, <3>1 DEF Order, Queued
      <4> QED
        BY <1>4, <1>6, <2>1, <3>1, <4>1
    <3>2. CASE k = Len(batches) + 1
      BY <1>9, <2>1, <2>4, <3>2
    <3> QED
      BY <2>2, <3>1, <3>2
  <2>5. ASSUME NEW k \in DOMAIN batches', NEW l \in DOMAIN batches', k < l,
               batches'[k].tag = "batch", batches'[l].tag = "batch", batches'[k].choice = batches'[l].choice
        PROVE  batches'[k].upto < batches'[l].upto
    <3>1. k \in DOMAIN batches /\ batches'[k] = batches[k]
      BY <2>1, <2>5
    <3>2. CASE l \in DOMAIN batches
      BY <2>1, <2>5, <3>1, <3>2 DEF Order, Queued
    <3>3. CASE l = Len(batches) + 1
      <4>1. batches'[l] = b /\ batches[k].choice = b.choice /\ b.tag = "batch" /\ covered[b.choice] < b.upto
        BY <1>9, <2>1, <2>5, <3>1, <3>3
      <4>2. batches[k].upto <= covered[batches[k].choice]
        BY <2>5, <3>1 DEF Order, Queued
      <4> QED
        BY <1>4, <1>6, <2>3, <3>1, <4>1, <4>2
    <3> QED
      BY <2>2, <3>2, <3>3
  <2>6. \A k \in DOMAIN batches' : batches'[k].tag = "error" => k = Len(batches') /\ pipe' = "failed"
    BY <1>4, <1>9, <2>1, <2>2
  <2>7. Queued'
    BY <2>4, <2>5, <2>6 DEF Queued
  <2>8. ASSUME NEW d \in Choices, NEW u \in Nat, Ahead(d, u) PROVE AheadNext(d, u)
    <3>1. u <= covered[d] /\ u <= covered'[d]
      BY <1>6, <2>8 DEF Ahead
    <3>2. ASSUME NEW k \in DOMAIN batches', batches'[k].tag = "batch", batches'[k].choice = d
          PROVE  u < batches'[k].upto
      <4>1. CASE k \in DOMAIN batches
        BY <2>1, <2>8, <3>2, <4>1 DEF Ahead
      <4>2. CASE k = Len(batches) + 1
        BY <1>6, <1>9, <2>1, <2>3, <3>1, <3>2, <4>2
      <4> QED
        BY <2>2, <4>1, <4>2
    <3> QED
      BY <3>1, <3>2 DEF AheadNext
  <2> QED
    BY <2>7, <2>8
<1>10. CASE \E c \in Choices : \E h \in Uncovered(c) : \E b \in Batch :
               /\ b.tag = "batch" /\ b.choice = c /\ b.upto = h
               /\ covered' = [covered EXCEPT ![c] = h] /\ batches' = Append(batches, b)
  <2>a. PICK c \in Choices : \E h \in Uncovered(c) : \E b \in Batch :
               /\ b.tag = "batch" /\ b.choice = c /\ b.upto = h
               /\ covered' = [covered EXCEPT ![c] = h] /\ batches' = Append(batches, b)
    BY <1>10
  <2>1. PICK h \in Uncovered(c), b \in Batch :
               /\ b.tag = "batch" /\ b.choice = c /\ b.upto = h
               /\ covered' = [covered EXCEPT ![c] = h] /\ batches' = Append(batches, b)
    BY <2>a
  <2>2. h \in Nat /\ covered[c] < h /\ covered'[c] = h
    BY <1>5, <2>1
  <2>3. covered[b.choice] < b.upto /\ b.upto <= covered'[b.choice]
    BY <2>1, <2>2
  <2> QED
    BY <1>9, <2>1, <2>3
<1>11. CASE pipe' = "failed" /\ batches' = Append(batches, [tag |-> "error"])
  BY <1>9, <1>11, BatchMembers
<1> QED
  BY <1>8, <1>10, <1>11 DEF PipeRow

LEMMA OrderClient == ASSUME Order, ClientRow PROVE Order'
  BY DEF ClientRow, handlerVars, pipeVars, Order, Queued, InOrder, Ahead, After, ChunksInOrder

LEMMA OrderNext == ASSUME Control, Order, [Next]_vars PROVE Order'
  BY Steps, OrderHandler, OrderSends, OrderReader, OrderPipe, OrderClient DEF Step

LEMMA OrderAlways == Spec => [](Control /\ Order)
<1>1. Init => Order
  BY DEF Init, Order, Queued, InOrder, ChunksInOrder
<1> QED
  BY <1>1, OrderNext, ControlAlways, PTL DEF Spec

\* ChunksInOrder: the chunks of a choice are answered in text order and each once,
\* however the tasks interleave and whatever fails, is lost or ends early.
THEOREM ChunksInOrderAlways == Spec => []ChunksInOrder
<1>1. Order => ChunksInOrder
  BY DEF Order, InOrder
<1> QED
  BY <1>1, OrderAlways, PTL
-----------------------------------------------------------------------------
(* The closing None.                                                       *)

\* What cannot go wrong when nothing may.
NoErrors ==
    /\ ~LlmMayFail => ~inputError /\ \A i \in DOMAIN msgs : msgs[i].kind \in {"choice", "usage"}
    /\ ~LlmMayFail /\ ~PipeMayFail => pipe # "failed"
    /\ ~SetupMayFail => missing = {}

\* The failures after which the code sends a None and goes on.
NoneIsFinal == ~CallMayFail /\ ~PipeMayFail /\ ~LlmMayFail

\* The None is the last response, and the handler stops after it only.
Ending ==
    /\ NoneIsFinal /\ Len(outbox) > 0 /\ outbox[Len(outbox)] = None => cont = "stopped"
    /\ Len(outbox) > 0 /\ cont = "stopped" => outbox[Len(outbox)] = None
    /\ NoneIsFinal => \A i \in DOMAIN responses : responses[i] = None => i = Len(responses) /\ hpc = "stopped"
    /\ hpc = "stopped" /\ ~gone => Len(responses) > 0 /\ responses[Len(responses)] = None

LEMMA NoErrorsNext == ASSUME Control, NoErrors, Step PROVE NoErrors'
<1>1. CASE HandlerRow
  <2>1. UNCHANGED <<inputError, msgs>>
    BY <1>1 DEF HandlerRow, Frame
  <2>2. (~SetupMayFail => UNCHANGED missing) /\ (UNCHANGED pipe \/ pipe' = "running")
    BY <1>1 DEF HandlerRow, SetupRow
  <2> QED
    BY <2>1, <2>2 DEF NoErrors
<1>2. CASE SendRow
  BY <1>2 DEF SendRow, NoErrors
<1>3. CASE ReaderSteps
  <2>1. UNCHANGED <<missing, pipe>>
    BY <1>3, ReaderFrames DEF ReaderFrame, handlerVars, pipeVars
  <2>2. msgs \in Seq(Message) /\ Len(msgs) \in Nat /\ DOMAIN msgs = 1 .. Len(msgs)
    BY Lengths DEF Control, Types
  <2>3. CASE \E m \in NextMessage : ReaderNext(m)
    <3>1. PICK m \in NextMessage : ReaderNext(m)
      BY <2>3
    <3>2. m \in Message /\ (~LlmMayFail => m.kind \in {"choice", "usage"})
      BY MessageFields DEF NextMessage
    <3>3. UNCHANGED inputError /\ msgs' = Append(msgs, m)
      BY <3>1 DEF ReaderNext
    <3>4. /\ DOMAIN msgs' = 1 .. Len(msgs) + 1 /\ msgs'[Len(msgs) + 1] = m
          /\ \A i \in 1 .. Len(msgs) : msgs'[i] = msgs[i]
      BY <2>2, <3>2, <3>3, Appended
    <3>5. \A i \in DOMAIN msgs' : msgs'[i] = m \/ (i \in DOMAIN msgs /\ msgs'[i] = msgs[i])
      BY <2>2, <3>4
    <3> QED
      BY <2>1, <3>2, <3>3, <3>5 DEF NoErrors
  <2>4. CASE ReaderRecordError
    <3>1. UNCHANGED msgs /\ Current.kind = "error" /\ Len(msgs) \in DOMAIN msgs
      BY <2>2, <2>4 DEF ReaderRecordError, Control, Reading
    <3> QED
      BY <2>1, <3>1 DEF NoErrors, Current
  <2>5. CASE UNCHANGED <<msgs, inputError>>
    BY <2>1, <2>5 DEF NoErrors
  <2> QED
    BY <1>3, <2>3, <2>4, <2>5 DEF ReaderSteps, ReaderForward, ReaderRecordUsage, ReaderRecordChoice,
                                  ReaderRecordNoChoice, ReaderSendInput, ReaderEnd
<1>4. CASE PipeRow
  BY <1>4 DEF PipeRow, NoErrors, handlerVars, readerVars
<1>5. CASE ClientRow
  BY <1>5 DEF ClientRow, NoErrors, handlerVars, readerVars, pipeVars
<1> QED
  BY <1>1, <1>2, <1>3, <1>4, <1>5 DEF Step

LEMMA EndingNext == ASSUME Control, Order, NoErrors, Ending, Step PROVE Ending'
<1>1. responses \in Seq(Response) /\ Len(responses) \in Nat /\ DOMAIN responses = 1 .. Len(responses)
  BY Lengths DEF Control, Types
<1>2. CASE HandlerRow
  <2>1. UNCHANGED <<responses, gone>> /\ outbox = <<>> /\ hpc # "send"
    BY <1>2 DEF HandlerRow, Frame
  <2>2. hpc # "stopped" /\ hpc' # "stopped"
    BY <1>2 DEF HandlerRow, SetupRow, EarlyRow, RefuseRow, TakeRow, EndRow, RespondRow, FinishRow, FinalRow,
                Moves, Speaks
  <2>3. (NoneIsFinal => \A i \in DOMAIN responses : responses[i] # None)
    BY <2>2 DEF Ending
  <2>4. SUFFICES \/ Len(outbox') = 0
                 \/ cont' = "stopped" /\ outbox'[Len(outbox')] = None
                 \/ cont' # "stopped" /\ (NoneIsFinal => outbox'[Len(outbox')] # None)
    BY <2>1, <2>2, <2>3, <2>4 DEF Ending
  <2>5. ASSUME NEW h, Moves(h) PROVE Len(outbox') = 0
    BY <2>5 DEF Moves
  <2>6. ASSUME NEW a, NEW h, h # "stopped", a.tag # "none", Speaks(1, a, h)
        PROVE cont' # "stopped" /\ (NoneIsFinal => outbox'[Len(outbox')] # None)
    BY <2>6, Tags DEF Speaks
  <2>7. CASE EarlyRow \/ EndRow
    BY <2>5, <2>7 DEF EarlyRow, EndRow
  <2>8. CASE RefuseRow
    BY <2>8 DEF RefuseRow, Speaks
  <2>9. CASE SetupRow
    BY <2>5, <2>6, <2>9, Tags DEF SetupRow
  <2>10. CASE TakeRow
    <3>1. CASE Head(batches).tag = "error" /\ Speaks(2, Err("pipeline"), "final")
      <4>1. 1 \in DOMAIN batches /\ batches[1].tag = "error"
        BY <2>10, <3>1, Popped DEF TakeRow, Control, Types
      <4>2. ~NoneIsFinal
        BY <4>1 DEF Order, Queued, NoErrors, NoneIsFinal
      <4> QED
        BY <3>1, <4>2 DEF Speaks
    <3> QED
      BY <2>5, <2>10, <3>1 DEF TakeRow
  <2>11. CASE RespondRow
    BY <2>11, Tags DEF RespondRow
  <2>12. CASE FinishRow
    BY <2>5, <2>6, <2>12, Tags DEF FinishRow
  <2>13. CASE FinalRow
    <3>1. CASE \E w \in BOOLEAN : Speaks(1, FinalOf(w), "end")
      BY <2>6, <3>1, Tags DEF FinalOf
    <3>2. CASE CallMayFail /\ Speaks(2, Err("whole"), "end")
      BY <3>2 DEF Speaks, NoneIsFinal
    <3>3. CASE Speaks(1, None, "stopped")
      BY <3>3 DEF Speaks
    <3> QED
      BY <2>5, <2>13, <3>1, <3>2, <3>3 DEF FinalRow
  <2> QED
    BY <1>2, <2>7, <2>8, <2>9, <2>10, <2>11, <2>12, <2>13 DEF HandlerRow
<1>3. CASE SendRow
  <2>1. /\ hpc = "send" /\ outbox[1] \in Response /\ UNCHANGED <<cont, onGone, gone>>
        /\ responses' = IF gone THEN responses ELSE Append(responses, outbox[1])
        /\ cont = "stopped" => onGone = "stopped"
    BY <1>3 DEF SendRow, Control, Mail
  <2>2. NoneIsFinal => \A i \in DOMAIN responses : responses[i] # None
    BY <2>1 DEF Ending
  <2>3. CASE Len(outbox) = 1
    <3>1. outbox' = <<>> /\ hpc' = IF gone THEN onGone ELSE cont
      BY <1>3, <2>3 DEF SendRow
    <3>2. NoneIsFinal /\ outbox[1] = None => cont = "stopped"
      BY <2>3 DEF Ending
    <3>3. cont = "stopped" => outbox[1] = None
      BY <2>3 DEF Ending
    <3>4. NoneIsFinal => \A i \in DOMAIN responses' : responses'[i] = None => i = Len(responses') /\ hpc' = "stopped"
      BY <1>1, <2>1, <2>2, <3>1, <3>2, Putting
    <3>5. hpc' = "stopped" /\ ~gone => Len(responses') > 0 /\ responses'[Len(responses')] = None
      BY <1>1, <2>1, <3>1, <3>3, Putting
    <3> QED
      BY <2>1, <3>1, <3>4, <3>5 DEF Ending
  <2>4. CASE Len(outbox) = 2
    <3>1. outbox[2] = None /\ outbox[1] # None /\ hpc' = "send" /\ Len(outbox') = 1 /\ outbox'[1] = None
      BY <1>3, <2>4 DEF SendRow, Control, Mail
    <3>2. NoneIsFinal => cont = "stopped"
      BY <2>4, <3>1 DEF Ending
    <3>3. NoneIsFinal => \A i \in DOMAIN responses' : responses'[i] # None
      BY <1>1, <2>1, <2>2, <3>1, Putting
    <3> QED
      BY <2>1, <3>1, <3>2, <3>3 DEF Ending
  <2> QED
    BY <1>3, <2>3, <2>4 DEF SendRow
<1>4. CASE ReaderSteps
  <2>1. UNCHANGED <<hpc, outbox, cont, gone, request>>
    BY <1>4, ReaderFrames DEF ReaderFrame, handlerVars, clientVars
  <2>2. CASE UNCHANGED responses
    BY <2>1, <2>2 DEF Ending
  <2>3. CASE ~UNCHANGED responses
    <3>1. /\ hpc = "await_reader"
          /\ \E r \in Response : r # None /\ responses' = IF gone THEN responses ELSE Append(responses, r)
      BY <1>4, <2>3, ReaderPuts, Tags DEF Control, Phases, Reading
    <3>2. NoneIsFinal => \A i \in DOMAIN responses' : responses'[i] # None
      BY <1>1, <3>1, Putting DEF Ending
    <3> QED
      BY <2>1, <3>1, <3>2 DEF Ending
  <2> QED
    BY <2>2, <2>3
<1>5. CASE PipeRow
  BY <1>5 DEF PipeRow, handlerVars, clientVars, Ending
<1>6. CASE ClientRow
  BY <1>6 DEF ClientRow, handlerVars, Ending
<1> QED
  BY <1>2, <1>3, <1>4, <1>5, <1>6 DEF Step

LEMMA EndingAlways == Spec => [](Control /\ Order /\ NoErrors /\ Ending)
<1>1. Init => NoErrors /\ Ending
  BY DEF Init, NoErrors, Ending
<1>2. Control /\ Order /\ NoErrors /\ Ending /\ [Next]_vars => NoErrors' /\ Ending'
  BY Steps, NoErrorsNext, EndingNext
<1> QED
  BY <1>1, <1>2, OrderAlways, PTL DEF Spec

\* NothingAfterNone: nothing follows the None, as long as no unary call, no call of
\* the pipeline and no message of the LLM fails.  Detection streams that cannot be
\* created, lost batches and a client that leaves do no harm.
THEOREM NothingAfterNoneAlways ==
    ASSUME ~CallMayFail, ~PipeMayFail, ~LlmMayFail
    PROVE  Spec => []NothingAfterNone
<1>1. ASSUME Control, Ending PROVE NothingAfterNone
  <2>1. responses \in Seq(Response) /\ Len(responses) \in Nat /\ DOMAIN responses = 1 .. Len(responses)
    BY <1>1, Lengths DEF Control, Types
  <2> QED
    BY <1>1, <2>1 DEF Ending, NoneIsFinal, NothingAfterNone
<1> QED
  BY <1>1, EndingAlways, PTL
-----------------------------------------------------------------------------
(* The final state and the final message.                                  *)

\* Neither detection streams, nor the pipeline, nor the LLM fail.
Clean == ~SetupMayFail /\ ~PipeMayFail /\ ~LlmMayFail

\* What the reader has recorded of what it has taken.
Recorded ==
    /\ usage => KeepsState
    /\ ~LlmMayFail => (Len(msgs) > 0 => msgs[1].kind = "choice")
    /\ ~LlmMayFail =>
          (KeepsState /\ ~gone /\ Len(msgs) > 0 => metadata \/ (Len(msgs) = 1 /\ rpc \in {"forward", "record"}))
    /\ \A i \in DOMAIN msgs : msgs[i].kind = "usage" => i = Len(msgs)
    /\ KeepsState /\ ~gone /\ Len(msgs) > 0 /\ Current.kind = "usage" => usage \/ rpc \in {"forward", "record"}
    /\ ~LlmMayFail => (rpc = "closed" /\ ~gone => Unfinished = {})

\* The handler comes to its end after the reader, or because the client is gone.
Final ==
    Clean => /\ pipe = "closed" => rpc = "closed"
             /\ At = "final" => rpc = "closed" \/ gone
             /\ At = "end" /\ ~gone => rpc = "closed"
             /\ At = "stopped" /\ ~gone => rpc \in {"idle", "closed"}
             /\ hpc = "panicked" => gone

Reports(r) == r.tag = "final" /\ r.usage

\* Usage is on its way to the client once the handler is past the final message.
Reporting ==
    (Clean /\ ~CallMayFail /\ ~gone /\ usage /\ At \in {"end", "stopped"}) =>
        \/ \E i \in DOMAIN responses : Reports(responses[i])
        \/ \E i \in DOMAIN outbox : Reports(outbox[i])

LEMMA RecordedKept ==
    ASSUME Recorded, UNCHANGED <<request, rpc, msgs, metadata, usage>>, gone => gone'
    PROVE  Recorded'
<1>1. UNCHANGED <<KeepsState, Unfinished, Current>>
  BY DEF KeepsState, Unfinished, HasFinished, Current
<1> QED
  BY <1>1 DEF Recorded

LEMMA RecordedReader == ASSUME Control, NoErrors, Recorded, ReaderSteps PROVE Recorded'
<1>1. UNCHANGED <<request, gone>> /\ UNCHANGED KeepsState
  BY ReaderFrames DEF ReaderFrame, handlerVars, clientVars, KeepsState
<1>2. msgs \in Seq(Message) /\ Len(msgs) \in Nat /\ DOMAIN msgs = 1 .. Len(msgs)
  BY Lengths DEF Control, Types
<1>3. CASE \E m \in NextMessage : ReaderNext(m)
  <2>1. PICK m \in NextMessage : ReaderNext(m)
    BY <1>3
  <2>2. /\ rpc = "next" /\ rpc' \in {"record", "forward"} /\ msgs' = Append(msgs, m)
        /\ \A i \in DOMAIN msgs : msgs[i].kind # "usage"
        /\ UNCHANGED <<metadata, usage>>
    BY <2>1 DEF ReaderNext, stateVars
  <2>3. /\ Len(msgs') = Len(msgs) + 1 /\ DOMAIN msgs' = 1 .. Len(msgs) + 1
        /\ msgs'[Len(msgs) + 1] = m /\ \A i \in 1 .. Len(msgs) : msgs'[i] = msgs[i]
    BY <1>2, <2>1, <2>2, Appended DEF NextMessage
  <2>4. ~LlmMayFail /\ Len(msgs) = 0 => m.kind = "choice"
    <3>1. ~LlmMayFail => m.kind \in {"choice", "usage"} /\ (m.kind = "usage" => Unfinished = {})
      BY MessageFields DEF NextMessage
    <3>2. Len(msgs) = 0 => Unfinished # {}
      BY <1>2, ChatChoicesAssumption DEF Unfinished, HasFinished
    <3> QED
      BY <3>1, <3>2
  <2>5. ~LlmMayFail => msgs'[1].kind = "choice"
    <3>1. CASE Len(msgs) = 0
      BY <2>3, <2>4, <3>1
    <3>2. CASE Len(msgs) > 0
      BY <1>2, <2>3, <3>2 DEF Recorded
    <3> QED
      BY <1>2, <3>1, <3>2
  <2>6. \A i \in DOMAIN msgs' : msgs'[i].kind = "usage" => i = Len(msgs')
    BY <1>2, <2>2, <2>3
  <2>7. ~LlmMayFail /\ KeepsState /\ ~gone => metadata \/ Len(msgs') = 1
    BY <1>2, <2>2, <2>3 DEF Recorded
  <2> QED
    BY <1>1, <2>2, <2>5, <2>6, <2>7 DEF Recorded
<1>4. CASE ReaderEnd
  <2>1. /\ rpc = "next" /\ rpc' = "closed" /\ UNCHANGED <<msgs, metadata, usage>>
        /\ Unfinished = {} \/ LlmMayFail
    BY <1>4 DEF ReaderEnd, stateVars
  <2>2. UNCHANGED <<Unfinished, Current>>
    BY <2>1 DEF Unfinished, HasFinished, Current
  <2> QED
    BY <1>1, <2>1, <2>2 DEF Recorded
<1>5. CASE ReaderForward
  <2>1. /\ rpc = "forward" /\ UNCHANGED <<msgs, metadata, usage>>
        /\ rpc' = IF Current.kind = "error" THEN "next" ELSE IF gone THEN "closed" ELSE "record"
    BY <1>5 DEF ReaderForward, stateVars
  <2>2. UNCHANGED Current
    BY <2>1 DEF Current
  <2>3. Len(msgs) > 0 /\ (~LlmMayFail => Current.kind # "error")
    BY <1>2, <2>1 DEF Control, Reading, NoErrors, Current
  <2>4. rpc' = "closed" => gone
    BY <2>1
  <2>5. Current.kind = "usage" /\ ~gone => rpc' = "record"
    BY <2>1
  <2>6. ~LlmMayFail /\ ~gone => rpc' = "record"
    BY <2>1, <2>3
  <2> QED
    BY <1>1, <2>1, <2>2, <2>4, <2>5, <2>6 DEF Recorded
<1>6. CASE ReaderRecordUsage
  <2>1. /\ rpc = "record" /\ rpc' = "next" /\ usage' = KeepsState /\ UNCHANGED <<msgs, metadata>>
        /\ Current.kind = "usage"
    BY <1>6 DEF ReaderRecordUsage
  <2>2. UNCHANGED Current
    BY <2>1 DEF Current
  <2>3. ~LlmMayFail => Len(msgs) # 1
    BY <2>1 DEF Recorded, Current
  <2> QED
    BY <1>1, <2>1, <2>2, <2>3 DEF Recorded
<1>7. CASE ReaderRecordChoice \/ ReaderRecordNoChoice
  <2>1. /\ rpc = "record" /\ rpc' \in {"next", "send_input"} /\ UNCHANGED <<msgs, usage>>
        /\ metadata' = (metadata \/ (KeepsState /\ Len(msgs) = 1)) /\ Current.kind # "usage"
    BY <1>7 DEF ReaderRecordChoice, ReaderRecordNoChoice
  <2>2. UNCHANGED Current
    BY <2>1 DEF Current
  <2> QED
    BY <1>1, <2>1, <2>2 DEF Recorded
<1>8. CASE ReaderRecordError \/ ReaderSendInput
  <2>1. /\ rpc \in {"record", "send_input"} /\ rpc' = "next" /\ UNCHANGED <<msgs, usage, metadata>>
        /\ Current.kind # "usage" /\ (~LlmMayFail => rpc # "record")
    <3>1. CASE ReaderRecordError
      BY <1>2, <3>1 DEF ReaderRecordError, stateVars, Control, Reading, NoErrors, Current
    <3>2. CASE ReaderSendInput
      BY <3>2 DEF ReaderSendInput, stateVars, Control, Reading
    <3> QED
      BY <1>8, <3>1, <3>2
  <2>2. UNCHANGED Current
    BY <2>1 DEF Current
  <2> QED
    BY <1>1, <2>1, <2>2 DEF Recorded
<1> QED
  BY <1>3, <1>4, <1>5, <1>6, <1>7, <1>8 DEF ReaderSteps

LEMMA RecordedNext == ASSUME Control, NoErrors, Recorded, Step PROVE Recorded'
<1>1. CASE HandlerRow
  <2>1. UNCHANGED <<request, msgs, metadata, usage, gone>> /\ (UNCHANGED rpc \/ (rpc = "idle" /\ rpc' = "next"))
    BY <1>1 DEF HandlerRow, Frame, stateVars, EarlyRow, SetupRow, Control, Phases, At
  <2>2. CASE UNCHANGED rpc
    BY <2>1, <2>2, RecordedKept
  <2>3. CASE rpc = "idle" /\ rpc' = "next"
    <3>1. msgs' = <<>> /\ ~usage'
      BY <2>1, <2>3 DEF Control, Reading
    <3> QED
      BY <2>3, <3>1 DEF Recorded
  <2> QED
    BY <2>1, <2>2, <2>3
<1>2. CASE SendRow
  BY <1>2, RecordedKept DEF SendRow, stateVars
<1>3. CASE ReaderSteps
  BY <1>3, RecordedReader
<1>4. CASE PipeRow
  BY <1>4, RecordedKept DEF PipeRow, handlerVars, readerVars, stateVars, clientVars
<1>5. CASE ClientRow
  BY <1>5, RecordedKept DEF ClientRow, handlerVars, readerVars, stateVars
<1> QED
  BY <1>1, <1>2, <1>3, <1>4, <1>5 DEF Step

LEMMA FinalNext == ASSUME Control, Order, NoErrors, Recorded, Final, Step PROVE Final'
<1> SUFFICES ASSUME Clean PROVE Final'
  BY DEF Final
<1>1. pipe # "failed" /\ missing # Choices
  BY ChatChoicesAssumption DEF NoErrors, Clean
<1>2. /\ pipe = "closed" => rpc = "closed"
      /\ At = "final" => rpc = "closed" \/ gone
      /\ At = "end" /\ ~gone => rpc = "closed"
      /\ At = "stopped" /\ ~gone => rpc \in {"idle", "closed"}
      /\ hpc = "panicked" => gone
  BY DEF Final
<1>3. CASE HandlerRow
  <2>1. hpc # "send" /\ UNCHANGED <<gone, metadata, usage, request>>
    BY <1>3 DEF HandlerRow, Frame, stateVars
  <2>2. ASSUME hpc = "final", request.whole \/ usage, ~metadata PROVE gone
    <3>1. KeepsState
      BY <2>2 DEF KeepsState, Recorded
    <3>2. ~gone => Len(msgs) > 0
      <4>1. ~gone => Unfinished = {} /\ rpc = "closed"
        BY <1>2, <2>2 DEF Recorded, Clean, At
      <4>2. msgs = <<>> => Unfinished # {}
        BY ChatChoicesAssumption DEF Unfinished, HasFinished
      <4> QED
        BY <4>1, <4>2, Lengths DEF Control, Types
    <3> QED
      BY <1>2, <2>2, <3>1, <3>2 DEF Recorded, Clean, At
  <2>3. CASE EarlyRow /\ UNCHANGED pipe
    BY <2>1, <2>3 DEF EarlyRow, Moves, Final, At, Control, Phases
  <2>4. CASE RefuseRow /\ UNCHANGED <<rpc, pipe>>
    BY <2>1, <2>4 DEF RefuseRow, Speaks, Final, At, Control, Phases
  <2>5. CASE SetupRow
    BY <2>1, <2>5 DEF SetupRow, Moves, Speaks, Final, At, Control, Phases
  <2>6. CASE TakeRow /\ UNCHANGED <<rpc, pipe>>
    <3>1. Head(batches).tag # "error"
      <4>1. batches # <<>> => 1 \in DOMAIN batches /\ Head(batches) = batches[1]
        BY Popped DEF Control, Types
      <4> QED
        BY <1>1, <2>6, <4>1 DEF TakeRow, Order, Queued
    <3> QED
      BY <1>2, <2>1, <2>6, <3>1 DEF TakeRow, Moves, Final, At
  <2>7. CASE EndRow /\ UNCHANGED <<rpc, pipe>>
    BY <1>1, <1>2, <2>1, <2>7 DEF EndRow, Moves, Final, At
  <2>8. CASE (RespondRow \/ FinishRow) /\ UNCHANGED <<rpc, pipe>>
    BY <1>2, <2>1, <2>8 DEF RespondRow, FinishRow, Moves, Speaks, Final, At
  <2>9. CASE FinalRow /\ UNCHANGED <<rpc, pipe>>
    BY <1>2, <2>1, <2>2, <2>9 DEF FinalRow, Moves, Speaks, Final, At
  <2> QED
    BY <1>3, <2>3, <2>4, <2>5, <2>6, <2>7, <2>8, <2>9 DEF HandlerRow
<1>4. CASE SendRow
  BY <1>2, <1>4 DEF SendRow, Final, At, Control, Mail
<1>5. CASE ReaderSteps
  <2>1. UNCHANGED <<At, hpc, pipe, gone>>
    BY <1>5, ReaderFrames DEF ReaderFrame, handlerVars, pipeVars, clientVars, At
  <2>2. rpc \notin {"idle", "closed"}
    BY <1>5 DEF ReaderSteps, ReaderNext, ReaderForward, ReaderRecordUsage, ReaderRecordChoice,
                ReaderRecordNoChoice, ReaderRecordError, ReaderSendInput, ReaderEnd
  <2> QED
    BY <1>2, <2>1, <2>2 DEF Final
<1>6. CASE PipeRow
  BY <1>1, <1>2, <1>6 DEF PipeRow, handlerVars, readerVars, clientVars, Final, At
<1>7. CASE ClientRow
  BY <1>2, <1>7 DEF ClientRow, handlerVars, readerVars, pipeVars, Final, At
<1> QED
  BY <1>3, <1>4, <1>5, <1>6, <1>7 DEF Step

LEMMA ReportingNext == ASSUME Control, Order, Recorded, Final, Reporting, Step PROVE Reporting'
<1> SUFFICES ASSUME Clean, ~CallMayFail, ~gone', usage', At' \in {"end", "stopped"}
             PROVE  \/ \E i \in DOMAIN responses' : Reports(responses'[i])
                    \/ \E i \in DOMAIN outbox' : Reports(outbox'[i])
  BY DEF Reporting, Reports
<1>1. responses \in Seq(Response) /\ outbox \in Seq(Response)
  BY DEF Control, Types
<1>2. CASE HandlerRow
  <2>1. /\ UNCHANGED <<responses, gone, usage, request>> /\ outbox = <<>> /\ hpc # "send"
        /\ usage
    BY <1>2 DEF HandlerRow, Frame, stateVars
  <2>2. rpc # "idle" /\ KeepsState
    BY <2>1 DEF Control, Reading, Recorded
  <2>3. hpc \in {"final", "end"} /\ FinalRow
    BY <1>2, <2>1, <2>2 DEF HandlerRow, SetupRow, EarlyRow, RefuseRow, TakeRow, EndRow, RespondRow, FinishRow, FinalRow,
                Moves, Speaks, At, Control, Phases
  <2>4. CASE hpc = "end"
    BY <2>1, <2>4 DEF Reporting, At
  <2>5. CASE hpc = "final"
    <3>1. \E w \in BOOLEAN : Speaks(1, FinalOf(w), "end")
      BY <2>1, <2>3, <2>5 DEF FinalRow, Moves, At
    <3>2. \A w : Reports(FinalOf(w))
      BY <2>1, Tags DEF Reports, FinalOf
    <3>3. 1 \in DOMAIN outbox' /\ Reports(outbox'[1])
      BY <3>1, <3>2 DEF Speaks
    <3> QED
      BY <3>3
  <2> QED
    BY <2>3, <2>4, <2>5
<1>3. CASE SendRow
  <2>1. /\ UNCHANGED <<gone, usage>> /\ outbox[1] \in Response /\ ~gone
        /\ responses' = IF gone THEN responses ELSE Append(responses, outbox[1])
        /\ At \in {"end", "stopped"}
    BY <1>3 DEF SendRow, stateVars, At, Control, Mail
  <2>2. \/ \E i \in DOMAIN responses : Reports(responses[i])
        \/ \E i \in DOMAIN outbox : Reports(outbox[i])
    BY <2>1 DEF Reporting, SendRow
  <2>3. \A i \in DOMAIN outbox : Reports(outbox[i]) => i = 1
    <3>1. \A i \in DOMAIN outbox : i = 1 \/ outbox[i] = None
      BY <1>1, <1>3, Lengths DEF SendRow
    <3> QED
      BY <3>1, Tags DEF Reports
  <2> QED
    BY <1>1, <2>1, <2>2, <2>3, Putting
<1>4. CASE ReaderSteps
  <2>1. UNCHANGED <<At, outbox, gone>>
    BY <1>4, ReaderFrames DEF ReaderFrame, handlerVars, clientVars, At
  <2>2. rpc \notin {"idle", "closed"}
    BY <1>4 DEF ReaderSteps, ReaderNext, ReaderForward, ReaderRecordUsage, ReaderRecordChoice,
                ReaderRecordNoChoice, ReaderRecordError, ReaderSendInput, ReaderEnd
  <2> QED
    BY <2>1, <2>2 DEF Final
<1>5. CASE PipeRow
  BY <1>5 DEF PipeRow, handlerVars, readerVars, stateVars, clientVars, Reporting, At
<1>6. CASE ClientRow
  BY <1>6 DEF ClientRow, handlerVars, readerVars, stateVars, Reporting, At
<1> QED
  BY <1>2, <1>3, <1>4, <1>5, <1>6 DEF Step

LEMMA FinalAlways == Spec => [](Control /\ NoErrors /\ Ending /\ Recorded /\ Final /\ Reporting)
<1>1. Init => Recorded /\ Final /\ Reporting
  BY DEF Init, Recorded, Final, Reporting, At
<1>2. Control /\ Order /\ NoErrors /\ Recorded /\ Final /\ Reporting /\ [Next]_vars => Recorded' /\ Final' /\ Reporting'
  BY Steps, RecordedNext, FinalNext, ReportingNext
<1> QED
  BY <1>1, <1>2, EndingAlways, PTL DEF Spec

\* EndsWithNone: a client that is still there gets the None, and the handler does not
\* panic on missing metadata, as long as every detection stream is created and
\* neither the pipeline nor the LLM fails.  Unary calls may fail.
THEOREM EndsWithNoneAlways ==
    ASSUME ~SetupMayFail, ~PipeMayFail, ~LlmMayFail
    PROVE  Spec => []EndsWithNone
<1>1. Control /\ Ending /\ Final => EndsWithNone
  BY DEF Ending, Final, Clean, EndsWithNone, HandlerDone
<1> QED
  BY <1>1, FinalAlways, PTL

\* StateIsFinal: when the final message is made up the reader has taken the whole LLM
\* stream, under the same assumptions and if the client stays.
THEOREM StateIsFinalAlways ==
    ASSUME ~SetupMayFail, ~PipeMayFail, ~LlmMayFail, ~MayLeave
    PROVE  Spec => []StateIsFinal
<1>1. Init => ~gone
  BY DEF Init
<1>2. Control /\ ~gone /\ [Next]_vars => ~gone'
  <2>1. ASSUME Control, ~gone, Step PROVE ~gone'
    BY <2>1, ReaderFrames DEF Step, HandlerRow, Frame, SendRow, ReaderFrame, PipeRow, ClientRow, clientVars
  <2> QED
    BY <2>1, Steps
<1>3. Final /\ ~gone => StateIsFinal
  BY DEF Final, Clean, StateIsFinal, At
<1> QED
  BY <1>1, <1>2, <1>3, FinalAlways, PTL DEF Spec

\* UsageReported: usage the LLM reported is in the final message, under the same
\* assumptions and if the unary calls succeed.  The client may leave.
THEOREM UsageReportedAlways ==
    ASSUME ~CallMayFail, ~SetupMayFail, ~PipeMayFail, ~LlmMayFail
    PROVE  Spec => []UsageReported
<1>1. ASSUME Control, Recorded, Final, Reporting PROVE UsageReported
  <2> SUFFICES ASSUME hpc = "stopped", KeepsState, ~gone, NEW k \in DOMAIN msgs, msgs[k].kind = "usage"
               PROVE  \E i \in DOMAIN responses : responses[i].tag = "final" /\ responses[i].usage
    BY DEF UsageReported
  <2>1. Len(msgs) > 0 /\ Current.kind = "usage"
    BY <1>1, Lengths DEF Control, Types, Recorded, Current
  <2>2. usage
    BY <1>1, <2>1 DEF Recorded, Final, Clean, At
  <2>3. outbox = <<>>
    BY <1>1, NotSending DEF Control
  <2> QED
    BY <1>1, <2>2, <2>3 DEF Reporting, Reports, Clean, At
<1> QED
  BY <1>1, FinalAlways, PTL
-----------------------------------------------------------------------------
(* All text is answered.                                                   *)

\* The client is gone, or has been told of a failure, or is about to be.
Failing ==
    \/ gone
    \/ \E i \in DOMAIN responses : responses[i].tag \in {"error", "input"}
    \/ \E i \in DOMAIN outbox : outbox[i].tag \in {"error", "input"}

EndsAt(r, c) == r.choice = c /\ r.upto = covered[c]

\* The chunk that reaches up to covered[c] is in the queue, in the handler's hands or sent.
Carried(c) ==
    \/ covered[c] = 0
    \/ \E i \in DOMAIN responses : responses[i].tag = "chunk" /\ EndsAt(responses[i], c)
    \/ \E i \in DOMAIN batches : batches[i].tag = "batch" /\ EndsAt(batches[i], c)
    \/ hpc = "respond" /\ EndsAt(batch, c)
    \/ hpc = "send" /\ outbox[1].tag = "chunk" /\ EndsAt(outbox[1], c)

\* A failure is not kept from the client.
Told ==
    ~Failing => /\ missing = {}
                /\ pipe = "failed" => \E k \in DOMAIN batches : batches[k].tag = "error"

\* Text the reader has taken is in the pipeline, or about to be.
Fed ==
    ~Failing /\ request.chunk =>
        \A i \in DOMAIN msgs : (msgs[i].kind = "choice" /\ msgs[i].text) =>
            i \in texts[msgs[i].choice] \/ (i = Len(msgs) /\ rpc \in {"record", "send_input"})

\* The batch stream closes after all of the text, the handler ends after it.
Drained ==
    ~Failing => /\ pipe = "closed" => rpc = "closed" /\ \A c \in Choices : Uncovered(c) = {}
                /\ request.chunk /\ At \in {"final", "end", "stopped"} => pipe = "closed" /\ batches = <<>>

Carrying == ~Failing /\ ~MayLose => \A c \in Choices : Carried(c)

Complete == Told /\ Fed /\ Drained /\ Carrying

\* A failure, once on its way, reaches the client or the client is gone.
LEMMA FailingStays == ASSUME Control, Step, Failing PROVE Failing'
<1>1. responses \in Seq(Response) /\ outbox \in Seq(Response) /\ gone \in BOOLEAN
  BY DEF Control, Types
<1>2. CASE HandlerRow
  BY <1>2 DEF HandlerRow, Frame, Failing
<1>3. CASE SendRow
  <2>1. /\ UNCHANGED gone /\ outbox[1] \in Response
        /\ responses' = IF gone THEN responses ELSE Append(responses, outbox[1])
        /\ \A i \in DOMAIN outbox : i = 1 \/ outbox[i] = None
    BY <1>1, <1>3, Lengths DEF SendRow
  <2> QED
    BY <1>1, <2>1, Putting, Tags DEF Failing
<1>4. CASE ReaderSteps
  <2>1. UNCHANGED <<outbox, gone>>
    BY <1>4, ReaderFrames DEF ReaderFrame, handlerVars, clientVars
  <2>2. \A i \in DOMAIN responses : i \in DOMAIN responses' /\ responses'[i] = responses[i]
    BY <1>1, <1>4, ReaderPuts, Putting
  <2> QED
    BY <2>1, <2>2 DEF Failing
<1>5. CASE PipeRow
  BY <1>5 DEF PipeRow, handlerVars, clientVars, Failing
<1>6. CASE ClientRow
  BY <1>6 DEF ClientRow, handlerVars, Failing
<1> QED
  BY <1>2, <1>3, <1>4, <1>5, <1>6 DEF Step

\* A step of the handler that says an error or the input detections is a failure.
LEMMA SaysFailure ==
    ASSUME NEW n \in {1, 2}, NEW a, a.tag \in {"error", "input"}, NEW h, Speaks(n, a, h)
    PROVE  Failing'
  BY DEF Speaks, Failing

LEMMA CompleteHandler == ASSUME Control, Order, Complete, HandlerRow PROVE Complete'
<1>1. CASE Failing'
  BY <1>1 DEF Complete, Told, Fed, Drained, Carrying
<1>2. CASE ~Failing'
  <2>1. /\ hpc # "send" /\ outbox = <<>>
        /\ UNCHANGED <<request, responses, gone, msgs, texts, covered>>
    BY DEF HandlerRow, Frame
  <2>2. ~Failing
    BY <1>2, FailingStays DEF Step
  <2>3. ~RefuseRow
    BY <1>2, SaysFailure, Tags DEF RefuseRow
  <2>4. UNCHANGED missing
    BY <1>2, SaysFailure, Tags DEF HandlerRow, SetupRow
  <2>5. TakeRow => Head(batches).tag = "batch" /\ batch' = Head(batches) /\ Moves("respond")
    BY <1>2, SaysFailure, Tags DEF TakeRow
  <2>6. batches \in Seq(Batch)
    BY DEF Control, Types
  <2>7. TakeRow => /\ Head(batches) = batches[1] /\ 1 \in DOMAIN batches
                   /\ \A k \in DOMAIN batches : k = 1 \/ (k - 1 \in DOMAIN batches' /\ batches'[k - 1] = batches[k])
    <3> SUFFICES ASSUME TakeRow
                 PROVE  /\ Head(batches) = batches[1] /\ 1 \in DOMAIN batches
                        /\ \A k \in DOMAIN batches : k = 1 \/ (k - 1 \in DOMAIN batches' /\ batches'[k - 1] = batches[k])
      OBVIOUS
    <3>1. /\ Len(batches) \in Nat /\ Len(batches) > 0 /\ Head(batches) = batches[1]
          /\ DOMAIN batches = 1 .. Len(batches) /\ DOMAIN batches' = 1 .. Len(batches) - 1
          /\ \A i \in 1 .. Len(batches) - 1 : batches'[i] = batches[i + 1]
      BY <2>6, Popped DEF TakeRow
    <3>2. ASSUME NEW k \in DOMAIN batches, k # 1 PROVE k - 1 \in DOMAIN batches' /\ batches'[k - 1] = batches[k]
      <4>1. k - 1 \in 1 .. Len(batches) - 1 /\ (k - 1) + 1 = k
        BY <3>1, <3>2
      <4> QED
        BY <3>1, <4>1
    <3> QED
      BY <3>1, <3>2
  <2>8. ~TakeRow => UNCHANGED batches
    BY DEF HandlerRow
  <2>9. Told'
    <3>1. pipe' = "failed" => pipe = "failed"
      BY DEF HandlerRow, SetupRow
    <3>2. pipe = "failed" => \E k \in DOMAIN batches' : batches'[k].tag = "error"
      BY <2>2, <2>5, <2>7, <2>8 DEF Complete, Told
    <3> QED
      BY <2>2, <2>4, <3>1, <3>2 DEF Complete, Told
  <2>10. Fed'
    <3>1. UNCHANGED rpc \/ msgs = <<>>
      BY DEF HandlerRow, EarlyRow, SetupRow, Control, Phases, Reading, At
    <3> QED
      BY <2>1, <2>2, <3>1 DEF Complete, Fed
  <2>11. Drained'
    <3>1. pipe' = "closed" => UNCHANGED <<pipe, rpc>>
      BY DEF HandlerRow, EarlyRow, SetupRow, Control, Phases, At
    <3>2. \A c \in Choices : UNCHANGED Uncovered(c)
      BY <2>1 DEF Uncovered, Halves
    <3>3. ASSUME request.chunk, At' \in {"final", "end", "stopped"} PROVE pipe' = "closed" /\ batches' = <<>>
      <4>1. CASE EndRow /\ UNCHANGED <<pipe, batches>>
        BY <2>2, <4>1 DEF EndRow, Complete, Told
      <4>2. CASE FinalRow /\ UNCHANGED <<pipe, batches>>
        <5>1. At \in {"final", "end"}
          BY <2>1, <3>3, <4>2 DEF FinalRow, At, Control, Phases
        <5> QED
          BY <2>2, <3>3, <4>2, <5>1 DEF Complete, Drained
      <4> QED
        BY <2>3, <2>5, <3>3, <4>1, <4>2 DEF HandlerRow, EarlyRow, SetupRow, RespondRow, FinishRow, Moves, Speaks, At
    <3> QED
      BY <2>1, <2>2, <3>1, <3>2, <3>3 DEF Complete, Drained
  <2>12. Carrying'
    <3> SUFFICES ASSUME ~MayLose, NEW c \in Choices PROVE Carried(c)'
      BY DEF Carrying
    <3>1. Carried(c) /\ UNCHANGED <<covered, responses>>
      BY <2>1, <2>2 DEF Complete, Carrying
    <3>2. CASE \E i \in DOMAIN batches : batches[i].tag = "batch" /\ EndsAt(batches[i], c)
      <4>1. CASE TakeRow
        BY <2>5, <2>7, <3>1, <3>2, <4>1 DEF Moves, Carried, EndsAt
      <4>2. CASE ~TakeRow
        BY <2>8, <3>1, <3>2, <4>2 DEF Carried, EndsAt
      <4> QED
        BY <4>1, <4>2
    <3>3. CASE hpc = "respond" /\ EndsAt(batch, c)
      <4>1. RespondRow
        BY <3>3 DEF HandlerRow, EarlyRow, RefuseRow, SetupRow, TakeRow, EndRow, FinishRow, FinalRow
      <4> QED
        BY <3>1, <3>3, <4>1 DEF RespondRow, Carried, EndsAt
    <3>4. CASE covered[c] = 0 \/ \E i \in DOMAIN responses : responses[i].tag = "chunk" /\ EndsAt(responses[i], c)
      BY <3>1, <3>4 DEF Carried, EndsAt
    <3> QED
      BY <2>1, <3>1, <3>2, <3>3, <3>4 DEF Carried
  <2> QED
    BY <2>9, <2>10, <2>11, <2>12 DEF Complete
<1> QED
  BY <1>1, <1>2

LEMMA CompleteSends == ASSUME Control, Complete, SendRow PROVE Complete'
<1>1. CASE Failing'
  BY <1>1 DEF Complete, Told, Fed, Drained, Carrying
<1>2. CASE ~Failing'
  <2>1. ~Failing /\ ~gone
    BY <1>2, FailingStays DEF Step, Failing
  <2>2. /\ hpc = "send" /\ outbox[1] \in Response
        /\ UNCHANGED <<request, missing, batch, rpc, pipe, batches, gone, msgs, texts, covered>>
        /\ responses' = Append(responses, outbox[1])
        /\ At' = At
    BY <2>1 DEF SendRow, At
  <2>3. \A c \in Choices : UNCHANGED Uncovered(c)
    BY <2>2 DEF Uncovered, Halves
  <2>4. Told' /\ Fed' /\ Drained'
    BY <2>1, <2>2, <2>3 DEF Complete, Told, Fed, Drained
  <2>5. Carrying'
    <3> SUFFICES ASSUME ~MayLose, NEW c \in Choices PROVE Carried(c)'
      BY DEF Carrying
    <3>1. Carried(c)
      BY <2>1 DEF Complete, Carrying
    <3>2. /\ \A i \in DOMAIN responses : i \in DOMAIN responses' /\ responses'[i] = responses[i]
          /\ Len(responses) + 1 \in DOMAIN responses' /\ responses'[Len(responses) + 1] = outbox[1]
      BY <2>2, Appended DEF Control, Types
    <3> QED
      BY <2>2, <3>1, <3>2 DEF Carried, EndsAt
  <2> QED
    BY <2>4, <2>5 DEF Complete
<1> QED
  BY <1>1, <1>2

LEMMA CompleteReader == ASSUME Control, Complete, ReaderSteps PROVE Complete'
<1>1. CASE Failing'
  BY <1>1 DEF Complete, Told, Fed, Drained, Carrying
<1>2. CASE ~Failing'
  <2>1. ~Failing /\ missing = {}
    BY <1>2, FailingStays DEF Step, Complete, Told
  <2>2. UNCHANGED <<request, hpc, cont, outbox, missing, batch, pipe, batches, covered>>
    BY ReaderFrames DEF ReaderFrame, handlerVars, pipeVars
  <2>3. rpc \notin {"idle", "closed"}
    BY DEF ReaderSteps, ReaderNext, ReaderForward, ReaderRecordUsage, ReaderRecordChoice,
           ReaderRecordNoChoice, ReaderRecordError, ReaderSendInput, ReaderEnd
  <2>4. pipe # "closed"
    BY <2>1, <2>3 DEF Complete, Drained
  <2>5. Told' /\ Drained'
    BY <2>1, <2>2, <2>4 DEF Complete, Told, Drained, At
  <2>6. Carrying'
    <3>1. \A i \in DOMAIN responses : i \in DOMAIN responses' /\ responses'[i] = responses[i]
      BY ReaderPuts, Putting DEF Control, Types
    <3> QED
      BY <2>1, <2>2, <3>1 DEF Complete, Carrying, Carried, EndsAt
  <2>7. Fed'
    <3> SUFFICES ASSUME request.chunk PROVE Fed'
      BY <2>2 DEF Fed
    <3>1. msgs \in Seq(Message) /\ Len(msgs) \in Nat /\ DOMAIN msgs = 1 .. Len(msgs)
      BY Lengths DEF Control, Types
    <3>2. \A i \in DOMAIN msgs : (msgs[i].kind = "choice" /\ msgs[i].text) =>
              i \in texts[msgs[i].choice] \/ (i = Len(msgs) /\ rpc \in {"record", "send_input"})
      BY <2>1 DEF Complete, Fed
    <3>3. CASE \E m \in NextMessage : ReaderNext(m)
      <4>1. PICK m \in Message : ReaderNext(m)
        BY <3>3 DEF NextMessage
      <4>2. rpc = "next" /\ rpc' = "record" /\ msgs' = Append(msgs, m) /\ UNCHANGED texts
        BY <4>1 DEF ReaderNext
      <4>3. /\ Len(msgs') = Len(msgs) + 1 /\ DOMAIN msgs' = 1 .. Len(msgs) + 1
            /\ \A i \in 1 .. Len(msgs) : msgs'[i] = msgs[i]
        BY <3>1, <4>2, Appended
      <4>4. \A i \in DOMAIN msgs' : (i \in DOMAIN msgs /\ msgs'[i] = msgs[i]) \/ i = Len(msgs')
        BY <3>1, <4>3
      <4> QED
        BY <3>2, <4>2, <4>4 DEF Fed
    <3>4. CASE ReaderRecordChoice
      <4>1. /\ UNCHANGED <<msgs, texts>> /\ rpc = "record"
            /\ rpc' = IF Current.text THEN "send_input" ELSE "next"
        BY <3>4 DEF ReaderRecordChoice
      <4> QED
        BY <3>2, <4>1 DEF Fed, Current
    <3>5. CASE ReaderSendInput
      <4>1. /\ UNCHANGED msgs /\ rpc' = "next"
            /\ texts' = [texts EXCEPT ![Current.choice] = @ \union {Len(msgs)}]
            /\ Len(msgs) > 0
        BY <2>1, <3>5 DEF ReaderSendInput, Control, Reading
      <4>2. texts \in [Choices -> SUBSET Nat] /\ Current.choice \in Choices
        BY <3>1, <3>5, Lengths, MessageFields DEF Control, Types, Reading, ReaderSendInput, Current
      <4>3. Len(msgs) \in texts'[Current.choice] /\ \A c \in Choices : texts[c] \subseteq texts'[c]
        BY <4>1, <4>2
      <4>4. \A i \in DOMAIN msgs : msgs[i].kind = "choice" => msgs[i].choice \in Choices
        BY <3>1, Lengths, MessageFields
      <4> QED
        BY <3>2, <4>1, <4>3, <4>4 DEF Fed, Current
    <3>6. CASE ReaderForward
      BY <3>6 DEF ReaderForward, Control, Reading
    <3>7. CASE ReaderRecordUsage \/ ReaderRecordNoChoice \/ ReaderRecordError
      <4>1. UNCHANGED <<msgs, texts>> /\ rpc = "record" /\ Current.kind # "choice"
        BY <3>7 DEF ReaderRecordUsage, ReaderRecordNoChoice, ReaderRecordError
      <4> QED
        BY <3>2, <4>1 DEF Fed, Current
    <3>8. CASE ReaderEnd
      BY <3>2, <3>8 DEF ReaderEnd, Fed
    <3> QED
      BY <3>3, <3>4, <3>5, <3>6, <3>7, <3>8 DEF ReaderSteps
  <2> QED
    BY <2>5, <2>6, <2>7 DEF Complete
<1> QED
  BY <1>1, <1>2

LEMMA CompletePipe == ASSUME Control, Complete, PipeRow PROVE Complete'
<1>1. CASE Failing'
  BY <1>1 DEF Complete, Told, Fed, Drained, Carrying
<1>2. CASE ~Failing'
  <2>1. /\ pipe = "running"
        /\ UNCHANGED <<request, hpc, cont, outbox, missing, batch, rpc, msgs, texts, responses, gone>>
    BY DEF PipeRow, handlerVars, readerVars, clientVars
  <2>2. ~Failing /\ missing = {}
    BY <1>2, FailingStays DEF Step, Complete, Told
  <2>3. batches \in Seq(Batch) /\ covered \in [Choices -> Nat]
    BY DEF Control, Types
  <2>4. /\ \A k \in DOMAIN batches : k \in DOMAIN batches' /\ batches'[k] = batches[k]
        /\ \A b \in Batch : batches' = Append(batches, b) => \E k \in DOMAIN batches' : batches'[k] = b
    <3>1. ASSUME NEW b \in Batch, batches' = Append(batches, b)
          PROVE  /\ \A k \in DOMAIN batches : k \in DOMAIN batches' /\ batches'[k] = batches[k]
                 /\ \E k \in DOMAIN batches' : batches'[k] = b
      BY <2>3, <3>1, Appended
    <3>2. UNCHANGED batches \/ \E b \in Batch : batches' = Append(batches, b)
      BY BatchMembers DEF PipeRow
    <3> QED
      BY <3>1, <3>2
  <2>5. Told'
    <3>1. pipe' = "failed" => batches' = Append(batches, [tag |-> "error"])
      BY <2>1 DEF PipeRow
    <3> QED
      BY <2>1, <2>2, <2>4, <3>1, BatchMembers DEF Told
  <2>6. Fed'
    BY <2>1, <2>2 DEF Complete, Fed
  <2>7. Drained'
    <3>1. pipe' = "closed" => rpc = "closed" /\ UNCHANGED covered /\ \A c \in Choices : Uncovered(c) = {}
      BY <2>1, <2>2, ChatChoicesAssumption DEF PipeRow
    <3>2. ~(request.chunk /\ At \in {"final", "end", "stopped"})
      BY <2>1, <2>2 DEF Complete, Drained
    <3> QED
      BY <2>1, <3>1, <3>2 DEF Drained, At, Uncovered, Halves
  <2>8. Carrying'
    <3> SUFFICES ASSUME ~MayLose, NEW c \in Choices PROVE Carried(c)'
      BY DEF Carrying
    <3>1. Carried(c)
      BY <2>2 DEF Complete, Carrying
    <3>2. CASE covered'[c] = covered[c]
      BY <2>1, <2>4, <3>1, <3>2 DEF Carried, EndsAt
    <3>3. CASE covered'[c] # covered[c]
      <4>1. \E b \in Batch : b.tag = "batch" /\ b.choice = c /\ b.upto = covered'[c] /\ batches' = Append(batches, b)
        BY <2>3, <3>3 DEF PipeRow
      <4> QED
        BY <2>4, <4>1 DEF Carried, EndsAt
    <3> QED
      BY <3>2, <3>3
  <2> QED
    BY <2>5, <2>6, <2>7, <2>8 DEF Complete
<1> QED
  BY <1>1, <1>2

LEMMA CompleteClient == ASSUME Control, Complete, ClientRow PROVE Complete'
<1>1. CASE Failing'
  BY <1>1 DEF Complete, Told, Fed, Drained, Carrying
<1>2. CASE ~Failing'
  <2>1. ~Failing
    BY <1>2, FailingStays DEF Step
  <2>2. UNCHANGED <<request, hpc, cont, outbox, missing, batch, rpc, msgs, texts, pipe, covered, batches, responses>>
    BY DEF ClientRow, handlerVars, readerVars, pipeVars
  <2>3. \A c \in Choices : UNCHANGED Uncovered(c)
    BY <2>2 DEF Uncovered, Halves
  <2>4. \A c \in Choices : UNCHANGED Carried(c)
    BY <2>2 DEF Carried, EndsAt
  <2> QED
    BY <2>1, <2>2, <2>3, <2>4 DEF Complete, Told, Fed, Drained, Carrying, At
<1> QED
  BY <1>1, <1>2

\* TextComplete: a request with chunk detectors that ends without an error has sent
\* all text, whatever may fail, as long as the batch stream loses no batch.
THEOREM TextCompleteAlways ==
    ASSUME ~MayLose
    PROVE  Spec => []TextComplete
<1>1. Init => Complete
  BY DEF Init, Complete, Told, Fed, Drained, Carrying, Carried, At
<1>2. Control /\ Order /\ Complete /\ [Next]_vars => Complete'
  BY Steps, CompleteHandler, CompleteSends, CompleteReader, CompletePipe, CompleteClient DEF Step
<1>3. ASSUME Control, Complete PROVE TextComplete
  <2> SUFFICES ASSUME hpc = "stopped", request.chunk, ~Sent("error"), ~Sent("input"), ~gone,
                      NEW i \in DOMAIN msgs, msgs[i].kind = "choice", msgs[i].text
               PROVE  \E j \in DOMAIN responses : /\ responses[j].tag = "chunk"
                                                  /\ responses[j].choice = msgs[i].choice
                                                  /\ responses[j].upto >= 2 * i
    BY DEF TextComplete
  <2>1. outbox = <<>>
    BY <1>3, NotSending DEF Control
  <2>2. ~Failing
    BY <2>1 DEF Failing, Sent
  <2> DEFINE c == msgs[i].choice
  <2>3. c \in Choices /\ i \in Nat
    BY <1>3, Lengths, MessageFields DEF Control, Types
  <2>4. pipe = "closed" /\ batches = <<>> /\ rpc = "closed" /\ Uncovered(c) = {}
    BY <1>3, <2>2, <2>3 DEF Complete, Drained, At
  <2>5. i \in texts[c]
    BY <1>3, <2>2, <2>4 DEF Complete, Fed
  <2>6. 2 * i \in Halves(c) /\ covered[c] \in Nat /\ i > 0
    BY <1>3, <2>3, <2>5, HalfOf
  <2>7. 2 * i <= covered[c] /\ covered[c] # 0
    BY <2>3, <2>4, <2>6 DEF Uncovered
  <2>8. Carried(c)
    BY <1>3, <2>2, <2>3 DEF Complete, Carrying
  <2>9. PICK j \in DOMAIN responses : responses[j].tag = "chunk" /\ EndsAt(responses[j], c)
    BY <2>4, <2>7, <2>8 DEF Carried
  <2> QED
    BY <2>7, <2>9 DEF EndsAt
<1> QED
  BY <1>1, <1>2, <1>3, OrderAlways, PTL DEF Spec
=============================================================================
