--------------------- MODULE CompletionsStreaming_proofs ---------------------
(***************************************************************************)
(* What one streaming completions request keeps, whatever fails, is lost   *)
(* or leaves, for any number of choices and messages, every capacity of    *)
(* the response channel and every kind of request.                         *)
(***************************************************************************)
EXTENDS CompletionsStreaming, FiniteSetTheorems, WellFoundedInduction, TLAPS

Batch ==
    [tag : {"batch"}, choice : Choices, from : Nat, upto : Nat, half : Nat] \cup [tag : {"error"}]

Response ==
    [tag : {"chunk"}, choice : Choices, half : Nat, finish : BOOLEAN]
        \cup [tag : {"tail"}, choice : Choices, index : Nat]
        \cup [tag : {"raw"}, index : Nat]
        \cup [tag : {"final"}, usage : BOOLEAN, emptyWarning : BOOLEAN]
        \cup [tag : {"input", "none"}]
        \cup [tag : {"error"}, cause : {"call", "setup", "pipeline", "lookup", "whole", "llm"}]

\* The completions of choice c in CompletionState.
Completed(c) == state.completions[c]

\* Where the handler is, or goes once its responses are sent.
At == IF hpc = "send" THEN cont.next ELSE hpc

Types ==
    /\ request \in [input : BOOLEAN, chunk : BOOLEAN, whole : BOOLEAN]
    /\ outbox \in Seq(Response) /\ responses \in Seq(Response)
    /\ batches \in Seq(Batch) /\ msgs \in Seq(Message)
    /\ state.completions \in [Choices -> SUBSET Nat] /\ state.usage \in BOOLEAN /\ state.empty \in BOOLEAN
    /\ texts \in [Choices -> SUBSET Nat] /\ covered \in [Choices -> Nat] /\ tracker \in [Choices -> Nat]
    /\ gone \in BOOLEAN /\ lost \in BOOLEAN
    /\ todo \subseteq Choices /\ missing \subseteq Choices /\ blank \subseteq Choices

\* The outbox: one response, or a refusal and the None; the None goes with the end.
Mail ==
    /\ hpc = "send" <=> Len(outbox) > 0
    /\ Len(outbox) <= 2
    /\ Len(outbox) = 2 => outbox[2] = None /\ outbox[1] # None
    /\ hpc = "send" => /\ cont.next \in {"setup", "await_batch", "tail", "final", "end", "stopped"}
                       /\ cont.gone = cont.next \/ (cont.next \in {"await_batch", "tail"} /\ cont.gone = "final")
                       /\ cont.next = "stopped" <=> outbox[Len(outbox)] = None

\* What runs while the handler is where.
Phases ==
    /\ hpc \in {"validate", "input", "open"} => rpc = "idle" /\ pipe = "off" /\ responses = <<>>
    /\ At = "setup" => request.chunk /\ rpc = "idle" /\ pipe = "off"
    /\ At \in {"await_batch", "respond", "tail"} => request.chunk /\ pipe # "off"
    /\ At = "await_reader" => ~request.chunk
    /\ pipe # "off" => request.chunk /\ rpc # "idle"
    /\ pipe = "off" => batches = <<>>
    /\ ~request.chunk /\ rpc \notin {"idle", "closed"} => hpc = "await_reader"

\* The reader's place in its loop.
Reading ==
    /\ rpc = "idle" => msgs = <<>>
    /\ rpc = "forward" => ~request.chunk
    /\ rpc = "send_input" => request.chunk /\ Current.kind = "choice" /\ Len(msgs) \in Completed(Current.choice)
    /\ rpc \in {"forward", "record", "send_input"} => Len(msgs) > 0

\* The completions of a choice are messages of that choice.
Filed ==
    \A c \in Choices : \A i \in Completed(c) :
        i \in 1 .. Len(msgs) /\ msgs[i].kind = "choice" /\ msgs[i].choice = c

\* Text comes after its completion; only choices without text get the empty one.
Sourced ==
    \A c \in Choices : /\ texts[c] \subseteq Completed(c)
                       /\ c \in missing => texts[c] = {}
                       /\ covered[c] = 0 \/ MessageOf(covered[c]) \in texts[c]
                       /\ c \in blank => rpc = "closed" /\ c \notin missing /\ texts[c] = {}

\* A batch with text refers to completions that are in the map; one without is
\* that of the empty text.
IsBacked(b) ==
    /\ b.choice \notin missing
    /\ b.half = 0 => rpc = "closed" /\ texts[b.choice] = {} /\ b.from = 1 /\ b.upto = 1
    /\ b.half # 0 => /\ b.upto = MessageOf(b.half) /\ b.from <= b.upto
                     /\ {b.from, b.upto} \subseteq Completed(b.choice)

Backed ==
    /\ \A i \in DOMAIN batches : batches[i].tag = "batch" => IsBacked(batches[i])
    /\ hpc = "respond" => batch \in Batch /\ batch.tag = "batch" /\ IsBacked(batch)

\* A batch has been answered for the message the tracker holds; the flush
\* visits the choices that have one.
Trackers ==
    /\ \A c \in Choices : tracker[c] # 0 => c \notin missing /\ tracker[c] \in Completed(c)
    /\ At = "tail" => \A c \in todo : tracker[c] # 0

Control == Types /\ Mail /\ Phases /\ Reading /\ Filed /\ Sourced /\ Backed /\ Trackers
-----------------------------------------------------------------------------
(* Facts about sets of naturals, sequences, messages and responses.        *)

\* A nonempty set of naturals has a least element, and Min is it.
LEMMA MinOf ==
    ASSUME NEW S \in SUBSET Nat, S # {}
    PROVE  Sets!Min(S) \in S /\ \A y \in S : Sets!Min(S) <= y
<1> DEFINE R == StrictSubsetOrdering(Nat)
           Below(y) == 0 .. y
           T == {Below(y) : y \in S}
<1>1. T \subseteq FiniteSubsetsOf(Nat) /\ T # {}
  <2>1. ASSUME NEW y \in S PROVE IsFiniteSet(Below(y)) /\ Below(y) \in SUBSET Nat
    <3>1. Below(y) \in SUBSET Nat /\ \A k \in Below(y) : k <= y
      OBVIOUS
    <3> QED
      BY <3>1, FS_BoundedSetOfNaturals
  <2> QED
    BY <2>1 DEF FiniteSubsetsOf
<1>2. IsWellFoundedOn(R, FiniteSubsetsOf(Nat))
  BY FS_StrictSubsetOrderingWellFounded
<1> HIDE DEF T, R
<1>3. PICK t \in T : \A u \in T : ~(<<u, t>> \in R)
  BY <1>1, <1>2, WFMin
<1>4. PICK x \in S : t = Below(x)
  BY <1>3 DEF T
<1>5. ASSUME NEW y \in S PROVE x <= y
  <2>1. CASE y < x
    <3>1. /\ Below(y) \in SUBSET Nat /\ Below(x) \in SUBSET Nat
          /\ Below(y) \subseteq Below(x) /\ x \in Below(x) /\ x \notin Below(y)
      BY <2>1
    <3> HIDE DEF Below
    <3>2. <<Below(y), Below(x)>> \in R
      BY <3>1 DEF R, StrictSubsetOrdering
    <3> QED
      BY <1>3, <1>4, <3>2 DEF T
  <2> QED
    BY <2>1
<1> QED
  BY <1>5 DEF Sets!Min

\* A nonempty bounded set of naturals has a greatest element, and Max is it.
LEMMA MaxOf ==
    ASSUME NEW S \in SUBSET Nat, S # {}, NEW n \in Nat, \A s \in S : s <= n
    PROVE  Sets!Max(S) \in S /\ \A y \in S : y <= Sets!Max(S)
<1> DEFINE T == {n - s : s \in S}
<1>1. T \in SUBSET Nat /\ T # {}
  <2>1. \A s \in S : n - s \in Nat
    OBVIOUS
  <2> QED
    BY <2>1
<1>2. PICK m \in T : \A y \in T : m <= y
  BY <1>1, MinOf
<1>3. PICK x \in S : m = n - x
  BY <1>2
<1>4. ASSUME NEW y \in S PROVE x >= y
  <2>1. n - y \in T
    OBVIOUS
  <2> QED
    BY <1>2, <1>3, <2>1
<1>5. Sets!Max(S) \in S /\ \A y \in S : Sets!Max(S) >= y
  BY <1>4 DEF Sets!Max
<1> QED
  BY <1>5

LEMMA Appended ==
    ASSUME NEW S, NEW s \in Seq(S), NEW e \in S
    PROVE  /\ Append(s, e) \in Seq(S) /\ Len(s) \in Nat /\ Len(Append(s, e)) = Len(s) + 1
           /\ DOMAIN s = 1 .. Len(s) /\ DOMAIN Append(s, e) = 1 .. Len(s) + 1
           /\ Append(s, e)[Len(s) + 1] = e
           /\ \A i \in 1 .. Len(s) : Append(s, e)[i] = s[i]
  OBVIOUS

LEMMA Popped ==
    ASSUME NEW S, NEW s \in Seq(S), s # <<>>
    PROVE  /\ Tail(s) \in Seq(S) /\ Len(Tail(s)) = Len(s) - 1 /\ Len(s) \in Nat /\ Len(s) > 0
           /\ DOMAIN s = 1 .. Len(s) /\ DOMAIN Tail(s) = 1 .. Len(s) - 1
           /\ Head(s) = s[1] /\ Head(s) \in S
           /\ \A i \in 1 .. Len(s) - 1 : Tail(s)[i] = s[i + 1]
  OBVIOUS

LEMMA Lengths ==
    ASSUME NEW S, NEW s \in Seq(S)
    PROVE  /\ Len(s) \in Nat /\ DOMAIN s = 1 .. Len(s) /\ (s = <<>> <=> Len(s) = 0)
           /\ \A i \in 1 .. Len(s) : s[i] \in S
  OBVIOUS

LEMMA Listed ==
    ASSUME NEW S, NEW a \in S, NEW b \in S
    PROVE  /\ <<a>> \in Seq(S) /\ Len(<<a>>) = 1 /\ <<a>>[1] = a
           /\ <<a, b>> \in Seq(S) /\ Len(<<a, b>>) = 2 /\ <<a, b>>[1] = a /\ <<a, b>>[2] = b
  OBVIOUS

LEMMA Members ==
    /\ None \in Response /\ [tag |-> "input"] \in Response
    /\ \A x \in {"call", "setup", "pipeline", "lookup", "whole", "llm"} : Err(x) \in Response
    /\ \A c \in Choices : \A n \in Nat : \A f \in BOOLEAN :
          [tag |-> "chunk", choice |-> c, half |-> n, finish |-> f] \in Response
    /\ \A c \in Choices : \A n \in Nat : [tag |-> "tail", choice |-> c, index |-> n] \in Response
    /\ \A n \in Nat : [tag |-> "raw", index |-> n] \in Response
    /\ \A u, w \in BOOLEAN : [tag |-> "final", usage |-> u, emptyWarning |-> w] \in Response
  BY DEF None, Err, Response

LEMMA Tags ==
    /\ None.tag = "none" /\ [tag |-> "input"].tag = "input"
    /\ \A x : Err(x).tag = "error"
    /\ \A c, n, f : /\ [tag |-> "chunk", choice |-> c, half |-> n, finish |-> f].tag = "chunk"
                    /\ [tag |-> "chunk", choice |-> c, half |-> n, finish |-> f].choice = c
                    /\ [tag |-> "chunk", choice |-> c, half |-> n, finish |-> f].finish = f
    /\ \A c, n : /\ [tag |-> "tail", choice |-> c, index |-> n].tag = "tail"
                 /\ [tag |-> "tail", choice |-> c, index |-> n].choice = c
                 /\ [tag |-> "tail", choice |-> c, index |-> n].index = n
    /\ \A n : [tag |-> "raw", index |-> n].tag = "raw"
    /\ \A u, w : [tag |-> "final", usage |-> u, emptyWarning |-> w].tag = "final"
  BY DEF None, Err

LEMMA BatchMembers ==
    /\ [tag |-> "error"] \in Batch /\ [tag |-> "error"].tag = "error"
    /\ \A c \in Choices : \A m, n, h \in Nat :
          LET b == [tag |-> "batch", choice |-> c, from |-> m, upto |-> n, half |-> h]
          IN  b \in Batch /\ b.tag = "batch" /\ b.choice = c /\ b.from = m /\ b.upto = n /\ b.half = h
  BY DEF Batch

LEMMA BatchFields ==
    \A b \in Batch : /\ b.tag \in {"batch", "error"}
                     /\ b.tag = "batch" => b.choice \in Choices /\ b.from \in Nat /\ b.upto \in Nat /\ b.half \in Nat
  BY DEF Batch

LEMMA MessageFields ==
    \A m \in Message : /\ m.kind \in {"choice", "usage", "nochoice", "error"}
                       /\ m.kind = "choice" => m.choice \in Choices /\ m.finish \in BOOLEAN
  BY DEF Message

LEMMA Halving == \A h \in Nat : MessageOf(h) \in Nat /\ MessageOf(2 * h) = h /\ MessageOf(2 * h - 1) = h
  BY DEF MessageOf

LEMMA HalvingMonotone == \A g, h \in Nat : g <= h => MessageOf(g) <= MessageOf(h)
  BY DEF MessageOf
-----------------------------------------------------------------------------
(* What each step of the handler comes to, with the outbox spelt out.      *)

Moves(next) == hpc' = next /\ outbox' = <<>>

\* The handler has n responses to send, the first of them a, and goes to next,
\* or to ifGone when the client has left.
SpeaksOr(n, a, next, ifGone) ==
    /\ hpc' = "send" /\ cont'.next = next /\ cont'.gone = ifGone
    /\ outbox' \in Seq(Response) /\ Len(outbox') = n /\ DOMAIN outbox' = 1 .. n
    /\ outbox'[1] = a /\ (n = 2 => outbox'[2] = None)

Speaks(n, a, next) == SpeaksOr(n, a, next, next)

EarlyRow ==
    /\ \/ hpc = "validate" /\ \E h \in {"input", "open"} : Moves(h) /\ UNCHANGED rpc
       \/ hpc = "input" /\ Moves("open") /\ UNCHANGED rpc
       \/ hpc = "open" /\ request.chunk /\ Moves("setup") /\ rpc' = "idle"
       \/ hpc = "open" /\ ~request.chunk /\ Moves("await_reader") /\ rpc' = "next"
    /\ UNCHANGED <<todo, missing, pipe, batches, batch, tracker>>

RefuseRow ==
    /\ hpc \in {"validate", "input", "open"}
    /\ \E a \in {[tag |-> "input"], Err("call")} : Speaks(2, a, "stopped")
    /\ UNCHANGED <<todo, missing, rpc, pipe, batches, batch, tracker>>

SetupRow ==
    /\ hpc = "setup"
    /\ \/ Moves("setup") /\ UNCHANGED <<missing, rpc, pipe>>
       \/ /\ Speaks(1, Err("setup"), "setup")
          /\ missing' \subseteq Choices /\ UNCHANGED <<rpc, pipe>>
       \/ Moves("await_batch") /\ rpc' = "next" /\ pipe' = "running" /\ UNCHANGED missing
    /\ UNCHANGED <<batches, batch, tracker>>

TakeRow ==
    /\ hpc = "await_batch" /\ batches # <<>> /\ batches' = Tail(batches) /\ batch' = Head(batches)
    /\ \/ Head(batches).tag = "batch" /\ Moves("respond")
       \/ Head(batches).tag = "error" /\ Speaks(1, Err("pipeline"), "final")
    /\ UNCHANGED <<todo, missing, rpc, pipe, tracker>>

\* What is sent for a batch whose completions were found, the last being the i-th message.
Answer(i) ==
    [tag |-> "chunk", choice |-> batch.choice, half |-> batch.half, finish |-> msgs[i].finish]

\* The lookup has succeeded.
RespondRow ==
    /\ hpc = "respond"
    /\ tracker' = [tracker EXCEPT ![batch.choice] = batch.upto]
    /\ batch.choice \in Choices /\ batch.upto \in Completed(batch.choice)
    /\ Answer(batch.upto) \in Response
    /\ SpeaksOr(1, Answer(batch.upto), "await_batch", "final")
    /\ UNCHANGED <<todo, missing, rpc, pipe, batches, batch>>

\* The lookup has failed: the batch is that of an empty text.
LookupRow ==
    /\ hpc = "respond" /\ batch.half = 0
    /\ Moves("panicked") \/ Speaks(1, Err("lookup"), "final")
    /\ UNCHANGED <<todo, missing, rpc, pipe, batches, batch, tracker>>

EndRow ==
    /\ hpc = "await_batch" /\ batches = <<>> /\ pipe \in {"closed", "failed"}
    /\ todo' = {c \in Choices : tracker[c] # 0}
    /\ Moves("tail")
    /\ UNCHANGED <<missing, rpc, pipe, batches, batch, tracker>>

Rest(c) == [tag |-> "tail", choice |-> c, index |-> Sets!Max(Completed(c))]

TailRow ==
    /\ hpc = "tail"
    /\ \/ \E c \in todo :
            /\ todo' = todo \ {c}
            /\ \/ TailDue(c) /\ Rest(c) \in Response /\ SpeaksOr(1, Rest(c), "tail", "final")
               \/ ~TailDue(c) /\ Moves("tail")
       \/ todo = {} /\ Moves("final") /\ UNCHANGED todo
    /\ UNCHANGED <<missing, rpc, pipe, batches, batch, tracker>>

FinalRow ==
    /\ \/ hpc = "await_reader" /\ rpc = "closed" /\ \E h \in {"final", "end"} : Moves(h)
       \/ hpc = "final" /\ \E h \in {"end", "panicked"} : Moves(h)
       \/ hpc = "final" /\ \E a \in Response : a.tag = "final" /\ Speaks(1, a, "end")
       \/ hpc = "final" /\ Speaks(1, Err("whole"), "end")
       \/ hpc = "end" /\ Speaks(1, None, "stopped")
    /\ UNCHANGED <<todo, missing, rpc, pipe, batches, batch, tracker>>

Frame == UNCHANGED <<request, responses, gone, msgs, state, texts, inputError, covered, blank, lost>>

HandlerRow ==
    /\ hpc # "send" /\ outbox = <<>> /\ todo' \subseteq Choices
    /\ Frame
    /\ \/ EarlyRow \/ RefuseRow \/ SetupRow \/ TakeRow \/ RespondRow \/ LookupRow
       \/ EndRow \/ TailRow \/ FinalRow

LEMMA Saying ==
    ASSUME NEW a \in Response, NEW next, NEW ifGone
    PROVE  /\ Say(<<a>>, next, ifGone) => SpeaksOr(1, a, next, ifGone)
           /\ Say(<<a>>, next, next) => Speaks(1, a, next)
           /\ Refuse(a) => Speaks(2, a, "stopped")
<1>1. /\ <<a>> \in Seq(Response) /\ Len(<<a>>) = 1 /\ <<a>>[1] = a
      /\ <<a, None>> \in Seq(Response) /\ Len(<<a, None>>) = 2
      /\ <<a, None>>[1] = a /\ <<a, None>>[2] = None
  BY Members, Listed
<1>2. DOMAIN <<a>> = 1 .. 1 /\ DOMAIN <<a, None>> = 1 .. 2
  BY <1>1, Lengths
<1> HIDE DEF None
<1>3. ASSUME Say(<<a>>, next, ifGone) PROVE SpeaksOr(1, a, next, ifGone)
  BY <1>1, <1>2, <1>3 DEF Say, SpeaksOr
<1>4. ASSUME Say(<<a>>, next, next) PROVE Speaks(1, a, next)
  BY <1>1, <1>2, <1>4 DEF Say, Speaks, SpeaksOr
<1>5. ASSUME Refuse(a) PROVE Speaks(2, a, "stopped")
  BY <1>1, <1>2, <1>5 DEF Refuse, Say, Speaks, SpeaksOr
<1> QED
  BY <1>3, <1>4, <1>5

\* The outbox is empty whenever the handler is not sending.
LEMMA NotSending == ASSUME Types, Mail, hpc # "send" PROVE outbox = <<>>
  BY Lengths DEF Types, Mail

LEMMA Going == ASSUME outbox = <<>>, NEW next, Goto(next) PROVE Moves(next)
  BY DEF Goto, Moves

\* The completions of a choice, if any, have a last one.
LEMMA LastCompleted ==
    ASSUME Types, Filed, NEW c \in Choices, Completed(c) # {}
    PROVE  /\ Sets!Max(Completed(c)) \in Completed(c) /\ Sets!Max(Completed(c)) \in Nat
           /\ \A i \in Completed(c) : i <= Sets!Max(Completed(c))
<1>1. Completed(c) \in SUBSET Nat /\ Len(msgs) \in Nat
  BY Lengths DEF Types, Completed
<1>2. \A i \in Completed(c) : i <= Len(msgs)
  BY <1>1 DEF Filed
<1> QED
  BY <1>1, <1>2, MaxOf

\* What the lookup finds ends with the chunk's last message, if it was filed.
LEMMA Looking ==
    ASSUME Control, hpc = "respond", InChunk(batch) # {}
    PROVE  /\ batch.choice \in Choices /\ batch.upto \in Completed(batch.choice)
           /\ Sets!Max(InChunk(batch)) = batch.upto
           /\ Answer(batch.upto) \in Response
<1>1. batch \in Batch /\ batch.tag = "batch" /\ IsBacked(batch)
  BY DEF Control, Backed
<1>2. batch.choice \in Choices /\ batch.from \in Nat /\ batch.upto \in Nat /\ batch.half \in Nat
  BY <1>1, BatchFields
<1>3. Completed(batch.choice) \in SUBSET Nat
  BY <1>2 DEF Control, Types, Completed
<1>4. /\ InChunk(batch) \in SUBSET Nat
      /\ \A i \in InChunk(batch) : i \in Completed(batch.choice) /\ batch.from <= i /\ i <= batch.upto
  BY <1>3 DEF InChunk, Completed
<1>5. batch.upto \in InChunk(batch)
  <2>1. CASE batch.half = 0
    <3>1. batch.from = 1 /\ batch.upto = 1
      BY <1>1, <2>1 DEF IsBacked
    <3>2. PICK i \in InChunk(batch) : TRUE
      OBVIOUS
    <3>3. i = 1
      BY <1>4, <3>1, <3>2
    <3> QED
      BY <3>1, <3>2, <3>3
  <2>2. CASE batch.half # 0
    BY <1>1, <1>2, <2>2 DEF IsBacked, InChunk, Completed
  <2> QED
    BY <2>1, <2>2
<1>6. Sets!Max(InChunk(batch)) \in InChunk(batch) /\ batch.upto <= Sets!Max(InChunk(batch))
  BY <1>2, <1>4, <1>5, MaxOf
<1>7. Sets!Max(InChunk(batch)) = batch.upto
  BY <1>2, <1>4, <1>6
<1>8. batch.upto \in 1 .. Len(msgs) /\ msgs[batch.upto].kind = "choice"
  BY <1>2, <1>4, <1>5 DEF Control, Filed
<1>9. msgs[batch.upto] \in Message
  BY <1>8, Lengths DEF Control, Types
<1>10. msgs[batch.upto].finish \in BOOLEAN
  BY <1>8, <1>9, MessageFields
<1> QED
  BY <1>2, <1>4, <1>5, <1>7, <1>10, Members DEF Answer

LEMMA HandlerRows == ASSUME Control, Handler, ~HandlerSends PROVE HandlerRow
<1>1. hpc # "send" => outbox = <<>>
  BY NotSending DEF Control
<1> USE DEF loopVars, readerVars, pipeVars, clientVars
<1>2. todo \subseteq Choices /\ missing \subseteq Choices
  BY DEF Control, Types
<1>3. CASE Validate
  <2>1. \/ \E h \in {"input", "open"} : Goto(h)
        \/ Refuse(Err("call"))
    BY <1>3 DEF Validate
  <2>2. \/ \E h \in {"input", "open"} : Moves(h)
        \/ Speaks(2, Err("call"), "stopped")
    BY <1>1, <1>3, <2>1, Going, Saying, Members DEF Validate
  <2> QED
    BY <1>1, <1>2, <1>3, <2>2 DEF Validate, HandlerRow, Frame, EarlyRow, RefuseRow
<1>4. CASE InputDetection
  <2>1. \/ Moves("open") \/ \E a \in {[tag |-> "input"], Err("call")} : Speaks(2, a, "stopped")
    BY <1>1, <1>4, Going, Saying, Members DEF InputDetection
  <2> QED
    BY <1>1, <1>2, <1>4, <2>1 DEF InputDetection, HandlerRow, Frame, EarlyRow, RefuseRow
<1>5. CASE OpenStream
  <2>1. \/ request.chunk /\ Moves("setup") /\ rpc' = "idle"
        \/ ~request.chunk /\ Moves("await_reader") /\ rpc' = "next"
        \/ Speaks(2, Err("call"), "stopped") /\ UNCHANGED rpc
    BY <1>1, <1>5, Going, Saying, Members DEF OpenStream
  <2> QED
    BY <1>1, <1>2, <1>5, <2>1 DEF OpenStream, HandlerRow, Frame, EarlyRow, RefuseRow
<1>6. CASE \E c \in Choices : SetupChoice(c)
  <2>1. PICK c \in Choices : SetupChoice(c)
    BY <1>6
  <2>2. \/ Moves("setup") /\ UNCHANGED missing
        \/ Speaks(1, Err("setup"), "setup") /\ missing' = missing \union {c}
    BY <1>1, <2>1, Going, Saying, Members DEF SetupChoice
  <2> QED
    BY <1>1, <1>2, <2>1, <2>2 DEF SetupChoice, HandlerRow, Frame, SetupRow
<1>7. CASE SetupDone
  <2>1. Moves("await_batch")
    BY <1>1, <1>7, Going DEF SetupDone
  <2> QED
    BY <1>1, <1>2, <1>7, <2>1 DEF SetupDone, HandlerRow, Frame, SetupRow
<1>8. CASE TakeBatch
  <2>1. Head(batches).tag \in {"batch", "error"}
    BY <1>8, Popped, BatchFields DEF TakeBatch, Control, Types
  <2>2. \/ Head(batches).tag = "batch" /\ Moves("respond")
        \/ Head(batches).tag = "error" /\ Speaks(1, Err("pipeline"), "final")
    BY <1>1, <1>8, <2>1, Going, Saying, Members DEF TakeBatch, StopWith
  <2> QED
    BY <1>1, <1>2, <1>8, <2>2 DEF TakeBatch, HandlerRow, Frame, TakeRow
<1>9. CASE BatchesEnd
  <2>1. Moves("tail")
    BY <1>1, <1>9, Going DEF BatchesEnd
  <2> QED
    BY <1>1, <1>2, <1>9, <2>1 DEF BatchesEnd, HandlerRow, Frame, EndRow
<1>10. CASE Respond
  <2>1. CASE state.completions[batch.choice] = {} /\ Goto("panicked") /\ UNCHANGED tracker
    <3>1. batch.half = 0
      BY <1>10, <2>1 DEF Respond, Control, Backed, IsBacked, Completed
    <3> QED
      BY <1>1, <1>2, <1>10, <2>1, <3>1, Going DEF Respond, HandlerRow, Frame, LookupRow
  <2>2. CASE InChunk(batch) = {} /\ Say(StopWith("lookup"), "final", "final") /\ UNCHANGED tracker
    <3>1. batch.half = 0
      <4>1. batch \in Batch /\ batch.tag = "batch" /\ IsBacked(batch)
        BY <1>10 DEF Respond, Control, Backed
      <4>2. batch.upto \in Nat /\ batch.from \in Nat
        BY <4>1, BatchFields
      <4>3. batch.half # 0 => batch.upto \in InChunk(batch)
        BY <4>1, <4>2 DEF IsBacked, InChunk, Completed
      <4> QED
        BY <2>2, <4>3
    <3>2. Speaks(1, Err("lookup"), "final")
      BY <2>2, Saying, Members DEF StopWith
    <3> QED
      BY <1>1, <1>2, <1>10, <2>2, <3>1, <3>2 DEF Respond, HandlerRow, Frame, LookupRow
  <2>3. CASE /\ InChunk(batch) # {}
             /\ tracker' = [tracker EXCEPT ![batch.choice] = Tracked(batch)]
             /\ Say(<<Answer(Sets!Max(InChunk(batch)))>>, "await_batch", "final")
    <3>1. /\ batch.choice \in Choices /\ batch.upto \in Completed(batch.choice)
          /\ Sets!Max(InChunk(batch)) = batch.upto /\ Answer(batch.upto) \in Response
      BY <1>10, <2>3, Looking DEF Respond
    <3>2. SpeaksOr(1, Answer(batch.upto), "await_batch", "final")
      BY <2>3, <3>1, Saying
    <3>3. tracker' = [tracker EXCEPT ![batch.choice] = batch.upto]
      BY <2>3 DEF Tracked
    <3> QED
      BY <1>1, <1>2, <1>10, <3>1, <3>2, <3>3 DEF Respond, HandlerRow, Frame, RespondRow
  <2> QED
    BY <1>10, <2>1, <2>2, <2>3 DEF Respond, Answer
<1>11. CASE \E c \in Choices : SendTail(c)
  <2>1. PICK c \in Choices : SendTail(c)
    BY <1>11
  <2>2. CASE TailDue(c)
    <3>1. Completed(c) # {}
      BY <2>1 DEF SendTail, Control, Trackers, At
    <3>2. Rest(c) \in Response
      BY <3>1, LastCompleted, Members DEF Rest, Control
    <3>3. SpeaksOr(1, Rest(c), "tail", "final")
      BY <2>1, <2>2, <3>2, Saying DEF SendTail, Rest, Completed
    <3> QED
      BY <1>1, <1>2, <2>1, <2>2, <3>2, <3>3 DEF SendTail, HandlerRow, Frame, TailRow
  <2>3. CASE ~TailDue(c)
    BY <1>1, <1>2, <2>1, <2>3, Going DEF SendTail, HandlerRow, Frame, TailRow
  <2> QED
    BY <2>2, <2>3
<1>12. CASE TailDone
  BY <1>1, <1>2, <1>12, Going DEF TailDone, HandlerRow, Frame, TailRow
<1>13. CASE AwaitReader
  <2>1. \E h \in {"final", "end"} : Moves(h)
    BY <1>1, <1>13, Going DEF AwaitReader
  <2> QED
    BY <1>1, <1>2, <1>13, <2>1 DEF AwaitReader, HandlerRow, Frame, FinalRow
<1>14. CASE FinalMessage
  <2>1. \/ \E h \in {"end", "panicked"} : Goto(h)
        \/ \E u, w \in BOOLEAN : Say(<<[tag |-> "final", usage |-> u, emptyWarning |-> w]>>, "end", "end")
        \/ Say(<<Err("whole")>>, "end", "end")
    <3>1. state.usage \in BOOLEAN /\ state.empty \in BOOLEAN /\ FALSE \in BOOLEAN
      BY DEF Control, Types
    <3> QED
      BY <1>14, <3>1 DEF FinalMessage, WholeDoc, StopWith
  <2>2. \/ \E h \in {"end", "panicked"} : Moves(h)
        \/ \E a \in Response : a.tag = "final" /\ Speaks(1, a, "end")
        \/ Speaks(1, Err("whole"), "end")
    <3>1. ASSUME NEW u \in BOOLEAN, NEW w \in BOOLEAN,
                 Say(<<[tag |-> "final", usage |-> u, emptyWarning |-> w]>>, "end", "end")
          PROVE  \E a \in Response : a.tag = "final" /\ Speaks(1, a, "end")
      <4> DEFINE a == [tag |-> "final", usage |-> u, emptyWarning |-> w]
      <4>1. a \in Response /\ a.tag = "final"
        BY Members, Tags
      <4> HIDE DEF a
      <4>2. Speaks(1, a, "end")
        BY <3>1, <4>1, Saying DEF a
      <4> QED
        BY <4>1, <4>2
    <3> QED
      BY <1>1, <1>14, <2>1, <3>1, Going, Saying, Members DEF FinalMessage
  <2> QED
    BY <1>1, <1>2, <1>14, <2>2 DEF FinalMessage, HandlerRow, Frame, FinalRow
<1>15. CASE SayNone
  <2>1. Speaks(1, None, "stopped")
    BY <1>15, Saying, Members DEF SayNone
  <2> QED
    BY <1>1, <1>2, <1>15, <2>1 DEF SayNone, HandlerRow, Frame, FinalRow
<1> QED
  BY <1>3, <1>4, <1>5, <1>6, <1>7, <1>8, <1>9, <1>10, <1>11, <1>12, <1>13, <1>14, <1>15 DEF Handler
-----------------------------------------------------------------------------
(* Control is kept by every step.                                          *)

LEMMA InitControl == Init => Control
<1> SUFFICES ASSUME Init PROVE Control
  OBVIOUS
<1>1. Types
  <2>1. <<>> \in Seq(Response) /\ <<>> \in Seq(Batch) /\ <<>> \in Seq(Message)
    OBVIOUS
  <2>2. request \in [input : BOOLEAN, chunk : BOOLEAN, whole : BOOLEAN]
    BY CompletionsAssumption DEF Init
  <2>3. /\ state.completions \in [Choices -> SUBSET Nat]
        /\ state.usage \in BOOLEAN /\ state.empty \in BOOLEAN
    BY DEF Init
  <2> QED
    BY <2>1, <2>2, <2>3 DEF Init, Types
<1>2. Mail /\ Phases /\ Reading /\ Filed /\ Sourced /\ Backed /\ Trackers
  BY DEF Init, Mail, Phases, Reading, Filed, Sourced, Backed, Trackers, At, Completed
<1> QED
  BY <1>1, <1>2 DEF Control

\* Before the stream is read there is nothing.
LEMMA NothingYet ==
    ASSUME Control, rpc = "idle"
    PROVE  /\ batches = <<>> /\ hpc # "respond"
           /\ \A c \in Choices : Completed(c) = {} /\ texts[c] = {} /\ tracker[c] = 0 /\ c \notin blank
<1>1. msgs = <<>> /\ pipe = "off" /\ Len(msgs) = 0
  BY DEF Control, Reading, Phases
<1>2. \A c \in Choices : Completed(c) = {}
  BY <1>1 DEF Control, Filed
<1>3. \A c \in Choices : texts[c] = {} /\ c \notin blank
  BY <1>2 DEF Control, Sourced
<1>4. \A c \in Choices : tracker[c] = 0
  BY <1>2 DEF Control, Trackers
<1> QED
  BY <1>1, <1>2, <1>3, <1>4 DEF Control, Phases, At

LEMMA ControlHandler == ASSUME Control, HandlerRow PROVE Control'
<1>1. /\ hpc # "send" /\ outbox = <<>> /\ todo' \subseteq Choices /\ missing' \subseteq Choices
      /\ UNCHANGED <<request, responses, gone, msgs, state, texts, inputError, covered, blank, lost>>
  BY DEF HandlerRow, Frame, EarlyRow, RefuseRow, SetupRow, TakeRow, RespondRow, LookupRow, EndRow, TailRow, FinalRow,
         Control, Types
<1>2. outbox' \in Seq(Response) /\ (outbox' = <<>> \/ Len(outbox') \in {1, 2})
  <2>1. <<>> \in Seq(Response)
    OBVIOUS
  <2>2. outbox' = <<>> \/ (outbox' \in Seq(Response) /\ Len(outbox') \in {1, 2})
    BY DEF HandlerRow, EarlyRow, RefuseRow, SetupRow, TakeRow, RespondRow, LookupRow, EndRow, TailRow, FinalRow,
           Moves, Speaks, SpeaksOr
  <2> QED
    BY <2>1, <2>2
<1>3. batches' = batches \/ (batches # <<>> /\ batches' = Tail(batches))
  BY DEF HandlerRow, EarlyRow, RefuseRow, SetupRow, TakeRow, RespondRow, LookupRow, EndRow, TailRow, FinalRow
<1>4. missing' = missing \/ (hpc = "setup" /\ rpc = "idle" /\ rpc' = "idle")
  BY DEF HandlerRow, EarlyRow, RefuseRow, SetupRow, TakeRow, RespondRow, LookupRow, EndRow, TailRow, FinalRow,
         Control, Phases, At
<1>5. /\ rpc' = rpc \/ (rpc = "idle" /\ rpc' = "next")
  BY DEF HandlerRow, EarlyRow, RefuseRow, SetupRow, TakeRow, RespondRow, LookupRow, EndRow, TailRow, FinalRow,
         Control, Phases, At
<1>6. /\ tracker' \in [Choices -> Nat]
      /\ \A c \in Choices : tracker'[c] # 0 =>
            tracker'[c] = tracker[c] \/ (missing' = missing /\ c \notin missing /\ tracker'[c] \in Completed(c))
  <2>1. tracker \in [Choices -> Nat] /\ state.completions \in [Choices -> SUBSET Nat]
    BY DEF Control, Types
  <2>2. CASE RespondRow
    <3>1. /\ batch.choice \in Choices /\ batch.upto \in Completed(batch.choice) /\ batch.choice \notin missing
          /\ tracker' = [tracker EXCEPT ![batch.choice] = batch.upto] /\ missing' = missing
      BY <2>2 DEF RespondRow, Control, Backed, IsBacked
    <3>2. batch.upto \in Nat
      BY <2>1, <3>1 DEF Completed
    <3> QED
      BY <2>1, <3>1, <3>2
  <2>3. CASE ~RespondRow
    <3>1. tracker' = tracker
      BY <2>3 DEF HandlerRow, EarlyRow, RefuseRow, SetupRow, TakeRow, LookupRow, EndRow, TailRow, FinalRow
    <3> QED
      BY <2>1, <3>1
  <2> QED
    BY <2>2, <2>3
<1>7. Types'
  <2>1. batches' \in Seq(Batch)
    <3>1. batches \in Seq(Batch)
      BY DEF Control, Types
    <3> QED
      BY <1>3, <3>1, Popped
  <2> QED
    BY <1>1, <1>2, <1>6, <2>1 DEF Control, Types
<1>8. Mail'
  <2>1. ASSUME NEW h, Moves(h), h # "send" PROVE Mail'
    BY <2>1 DEF Moves, Mail
  <2>2. ASSUME NEW n \in {1, 2}, NEW a, NEW h, NEW g, SpeaksOr(n, a, h, g),
               h \in {"setup", "await_batch", "tail", "final", "end", "stopped"},
               g = h \/ (h \in {"await_batch", "tail"} /\ g = "final"),
               n = 2 => a # None, h = "stopped" <=> (n = 2 \/ a = None)
        PROVE Mail'
    <3>1. /\ hpc' = "send" /\ cont'.next = h /\ cont'.gone = g
          /\ Len(outbox') = n /\ outbox'[1] = a /\ (n = 2 => outbox'[2] = None)
      BY <2>2 DEF SpeaksOr
    <3>2. outbox'[Len(outbox')] = None <=> (n = 2 \/ a = None)
      BY <2>2, <3>1
    <3> QED
      BY <2>2, <3>1, <3>2 DEF Mail
  <2>3. CASE EarlyRow
    BY <2>1, <2>3 DEF EarlyRow
  <2>4. CASE RefuseRow
    <3>1. PICK a \in {[tag |-> "input"], Err("call")} : SpeaksOr(2, a, "stopped", "stopped")
      BY <2>4 DEF RefuseRow, Speaks
    <3>2. a # None
      BY <3>1, Tags
    <3> QED
      BY <2>2, <3>1, <3>2
  <2>5. CASE SetupRow
    BY <2>1, <2>2, <2>5, Tags DEF SetupRow, Speaks
  <2>6. CASE TakeRow
    BY <2>1, <2>2, <2>6, Tags DEF TakeRow, Speaks
  <2>7. CASE RespondRow
    <3>1. SpeaksOr(1, Answer(batch.upto), "await_batch", "final") /\ Answer(batch.upto) # None
      BY <2>7, Tags DEF RespondRow, Answer
    <3> QED
      BY <2>2, <3>1
  <2>8. CASE LookupRow
    BY <2>1, <2>2, <2>8, Tags DEF LookupRow, Speaks
  <2>9. CASE EndRow
    BY <2>1, <2>9 DEF EndRow
  <2>10. CASE TailRow
    <3>1. CASE \E c \in todo : SpeaksOr(1, Rest(c), "tail", "final")
      <4>1. PICK c \in todo : SpeaksOr(1, Rest(c), "tail", "final")
        BY <3>1
      <4>2. Rest(c) # None
        BY Tags DEF Rest
      <4> QED
        BY <2>2, <4>1, <4>2
    <3>2. CASE Moves("tail") \/ Moves("final")
      BY <2>1, <3>2
    <3> QED
      BY <2>10, <3>1, <3>2 DEF TailRow
  <2>11. CASE FinalRow
    <3>1. CASE \E a \in Response : a.tag = "final" /\ Speaks(1, a, "end")
      BY <2>2, <3>1, Tags DEF Speaks
    <3>2. CASE \E h \in {"final", "end", "panicked"} : Moves(h)
      BY <2>1, <3>2
    <3>3. CASE Speaks(1, Err("whole"), "end") \/ Speaks(1, None, "stopped")
      BY <2>2, <3>3, Tags DEF Speaks
    <3> QED
      BY <2>11, <3>1, <3>2, <3>3 DEF FinalRow
  <2> QED
    BY <2>3, <2>4, <2>5, <2>6, <2>7, <2>8, <2>9, <2>10, <2>11 DEF HandlerRow
<1>9. Phases'
  BY <1>1 DEF HandlerRow, EarlyRow, RefuseRow, SetupRow, TakeRow, RespondRow, LookupRow, EndRow, TailRow, FinalRow,
              Moves, Speaks, SpeaksOr, Control, Phases, At
<1>10. Reading' /\ Filed'
  BY <1>1, <1>5 DEF Control, Reading, Filed, Current, Completed
<1>11. Sourced'
  <2>1. CASE rpc = "idle"
    <3>1. \A c \in Choices : texts[c] = {} /\ c \notin blank
      BY <2>1, NothingYet
    <3> QED
      BY <1>1, <3>1 DEF Control, Sourced, Completed, MessageOf
  <2>2. CASE rpc # "idle"
    BY <1>1, <1>4, <1>5, <2>2 DEF Control, Sourced, Completed, MessageOf
  <2> QED
    BY <2>1, <2>2
<1>12. Backed'
  <2>1. batches \in Seq(Batch)
    BY DEF Control, Types
  <2>2. CASE rpc = "idle"
    <3>1. batches' = <<>> /\ hpc' # "respond"
      BY <1>3, <2>2, NothingYet DEF HandlerRow, EarlyRow, RefuseRow, SetupRow, TakeRow, RespondRow, LookupRow,
             EndRow, TailRow, FinalRow, Moves, Speaks, SpeaksOr
    <3> QED
      BY <3>1 DEF Backed
  <2>3. CASE rpc # "idle"
    <3>1. UNCHANGED <<rpc, missing, texts, state>>
      BY <1>1, <1>4, <1>5, <2>3
    <3>2. \A b : IsBacked(b) => (IsBacked(b))'
      BY <3>1 DEF IsBacked, Completed, MessageOf
    <3>3. ASSUME NEW i \in DOMAIN batches' PROVE \E k \in DOMAIN batches : batches'[i] = batches[k]
      <4>1. CASE batches # <<>> /\ batches' = Tail(batches)
        <5>1. i + 1 \in DOMAIN batches /\ batches'[i] = batches[i + 1]
          BY <2>1, <3>3, <4>1, Popped
        <5> QED
          BY <5>1
      <4> QED
        BY <1>3, <4>1
    <3>4. (\A i \in DOMAIN batches : batches[i].tag = "batch" => IsBacked(batches[i]))'
      BY <3>1, <3>3 DEF Control, Backed, IsBacked, Completed, MessageOf
    <3>5. hpc' = "respond" => batches # <<>> /\ batch' = batches[1] /\ batches[1].tag = "batch"
      <4>1. batches # <<>> => Head(batches) = batches[1]
        BY <2>1, Popped
      <4> QED
        BY <4>1 DEF HandlerRow, EarlyRow, RefuseRow, SetupRow, TakeRow, RespondRow, LookupRow, EndRow, TailRow,
                    FinalRow, Moves, Speaks, SpeaksOr
    <3>6. batches # <<>> => 1 \in DOMAIN batches /\ batches[1] \in Batch
      BY <2>1, Lengths
    <3>7. hpc' = "respond" => batch' \in Batch /\ batch'.tag = "batch" /\ IsBacked(batch)'
      BY <3>1, <3>5, <3>6 DEF Control, Backed, IsBacked, Completed, MessageOf
    <3> QED
      BY <3>4, <3>7 DEF Backed
  <2> QED
    BY <2>2, <2>3
<1>13. Trackers'
  <2>1. \A c \in Choices : tracker'[c] # 0 => c \notin missing' /\ tracker'[c] \in Completed(c)
    <3>1. CASE rpc = "idle"
      BY <1>4, <1>6, <3>1, NothingYet
    <3>2. CASE rpc # "idle"
      BY <1>4, <1>6, <3>2 DEF Control, Trackers
    <3> QED
      BY <3>1, <3>2
  <2>2. At' = "tail" => \A c \in todo' : tracker'[c] # 0
    <3>1. CASE EndRow
      BY <3>1 DEF EndRow
    <3>2. CASE TailRow
      BY <3>2 DEF TailRow, Control, Trackers, At
    <3>3. CASE ~EndRow /\ ~TailRow
      BY <3>3 DEF HandlerRow, EarlyRow, RefuseRow, SetupRow, TakeRow, RespondRow, LookupRow, FinalRow,
                  Moves, Speaks, SpeaksOr, At
    <3> QED
      BY <3>1, <3>2, <3>3
  <2> QED
    BY <1>1, <2>1, <2>2 DEF Trackers, Completed
<1> QED
  BY <1>7, <1>8, <1>9, <1>10, <1>11, <1>12, <1>13 DEF Control
-----------------------------------------------------------------------------
\* The handler sends the first response of its outbox.
SendRow ==
    /\ hpc = "send" /\ outbox[1] \in Response
    /\ UNCHANGED <<request, cont, todo, missing, batch, tracker, rpc, pipe, batches, gone,
                   msgs, state, texts, inputError, covered, blank, lost>>
    /\ responses' = IF gone THEN responses ELSE Append(responses, outbox[1])
    /\ \/ Len(outbox) = 1 /\ outbox' = <<>> /\ hpc' = IF gone THEN cont.gone ELSE cont.next
       \/ /\ Len(outbox) = 2 /\ outbox[2] = None
          /\ hpc' = "send" /\ outbox' \in Seq(Response) /\ Len(outbox') = 1 /\ DOMAIN outbox' = 1 .. 1
          /\ outbox'[1] = None

LEMMA SendRows == ASSUME Control, HandlerSends PROVE SendRow
<1>1. hpc = "send" /\ outbox \in Seq(Response) /\ Len(outbox) > 0
  BY DEF HandlerSends, Control, Types, Mail
<1>2. outbox # <<>>
  BY <1>1
<1> DEFINE rest == Tail(outbox)
<1>3. /\ rest \in Seq(Response) /\ Len(rest) = Len(outbox) - 1 /\ Len(outbox) \in Nat
      /\ Head(outbox) = outbox[1] /\ outbox[1] \in Response
      /\ \A i \in 1 .. Len(outbox) - 1 : rest[i] = outbox[i + 1]
  BY <1>1, <1>2, Popped
<1>4. /\ responses' = IF gone THEN responses ELSE Append(responses, outbox[1])
      /\ outbox' = Tail(outbox)
      /\ hpc' = IF Tail(outbox) # <<>> THEN "send" ELSE IF gone THEN cont.gone ELSE cont.next
      /\ UNCHANGED <<request, cont, todo, missing, batch, tracker, rpc, pipe, batches, gone,
                     msgs, state, texts, inputError, covered, blank, lost>>
  BY <1>3 DEF HandlerSends, Put, loopVars, readerVars, pipeVars, clientVars
<1> HIDE DEF rest
<1>5. CASE Len(outbox) = 1
  <2>1. rest \in Seq(Response) /\ Len(rest) = 0
    BY <1>3, <1>5
  <2>2. rest = <<>>
    BY <2>1, Lengths
  <2> QED
    BY <1>1, <1>3, <1>4, <1>5, <2>2 DEF SendRow, rest
<1>6. CASE Len(outbox) = 2
  <2>1. rest \in Seq(Response) /\ Len(rest) = 1 /\ rest[1] = outbox[2]
    <3>1. 1 \in 1 .. Len(outbox) - 1
      BY <1>6
    <3> QED
      BY <1>3, <1>6, <3>1
  <2>2. DOMAIN rest = 1 .. 1 /\ rest # <<>>
    BY <2>1, Lengths
  <2>3. outbox[2] = None
    BY <1>6 DEF Control, Mail
  <2> QED
    BY <1>1, <1>3, <1>4, <1>6, <2>1, <2>2, <2>3 DEF SendRow, rest
<1> QED
  BY <1>1, <1>3, <1>5, <1>6 DEF Control, Mail

\* What a response is once it is appended, or not.
LEMMA Putting ==
    ASSUME responses \in Seq(Response), NEW r \in Response,
           responses' = IF gone THEN responses ELSE Append(responses, r)
    PROVE  /\ responses' \in Seq(Response)
           /\ \A i \in DOMAIN responses : i \in DOMAIN responses' /\ responses'[i] = responses[i]
           /\ \A i \in DOMAIN responses' :
                 i \in DOMAIN responses \/ (i = Len(responses) + 1 /\ responses'[i] = r /\ ~gone)
           /\ ~gone => Len(responses) + 1 \in DOMAIN responses' /\ responses'[Len(responses) + 1] = r
           /\ ~gone => Len(responses') = Len(responses) + 1
<1>1. CASE gone
  BY <1>1
<1>2. CASE ~gone
  BY <1>2, Appended
<1> QED
  BY <1>1, <1>2

\* Where sending leads: on, or to the final message once the client is gone.
LEMMA Sending ==
    ASSUME Control, SendRow
    PROVE  /\ At \in {"setup", "await_batch", "tail", "final", "end", "stopped"}
           /\ At' = At \/ (At \in {"await_batch", "tail"} /\ At' = "final" /\ gone)
           /\ hpc' \in {"send", At'}
<1>1. /\ cont.next \in {"setup", "await_batch", "tail", "final", "end", "stopped"}
      /\ cont.gone = cont.next \/ (cont.next \in {"await_batch", "tail"} /\ cont.gone = "final")
      /\ At = cont.next /\ cont' = cont
  BY DEF SendRow, At, Control, Mail
<1> QED
  BY <1>1 DEF SendRow, At

LEMMA ControlSends == ASSUME Control, SendRow PROVE Control'
<1>1. /\ hpc = "send" /\ outbox[1] \in Response
      /\ UNCHANGED <<request, cont, todo, missing, batch, tracker, rpc, pipe, batches, gone,
                     msgs, state, texts, inputError, covered, blank, lost>>
      /\ responses' = IF gone THEN responses ELSE Append(responses, outbox[1])
  BY DEF SendRow
<1>2. responses \in Seq(Response) /\ responses' \in Seq(Response)
  BY <1>1, Putting DEF Control, Types
<1>3. Types'
  <2>1. <<>> \in Seq(Response)
    OBVIOUS
  <2>2. outbox' \in Seq(Response)
    BY <2>1 DEF SendRow
  <2> QED
    BY <1>1, <1>2, <2>2 DEF Control, Types
<1>4. /\ At \in {"setup", "await_batch", "tail", "final", "end", "stopped"}
      /\ At' = At \/ (At \in {"await_batch", "tail"} /\ At' = "final" /\ gone)
      /\ hpc' \in {"send", At'}
  BY Sending
<1>5. Mail'
  <2>1. CASE Len(outbox) = 1
    <3>1. outbox' = <<>> /\ hpc' \in {cont.next, cont.gone}
      BY <2>1 DEF SendRow
    <3>2. hpc' # "send"
      BY <1>1, <3>1 DEF Control, Mail
    <3> QED
      BY <3>1, <3>2 DEF Mail
  <2>2. CASE Len(outbox) = 2
    <3>1. hpc' = "send" /\ Len(outbox') = 1 /\ outbox'[1] = None
      BY <2>2 DEF SendRow
    <3>2. cont' = cont /\ cont.next = "stopped" /\ cont.gone = "stopped"
      BY <1>1, <2>2 DEF Control, Mail
    <3> QED
      BY <3>1, <3>2 DEF Mail
  <2> QED
    BY <2>1, <2>2 DEF SendRow
<1>6. Phases'
  BY <1>1, <1>4 DEF Control, Phases, At
<1>7. Reading' /\ Filed' /\ Sourced'
  BY <1>1 DEF Control, Reading, Filed, Sourced, Current, Completed, MessageOf
<1>8. Backed' /\ Trackers'
  BY <1>1, <1>4 DEF Control, Backed, IsBacked, Trackers, MessageOf, Completed
<1> QED
  BY <1>3, <1>5, <1>6, <1>7, <1>8 DEF Control
-----------------------------------------------------------------------------
ReaderFrame ==
    UNCHANGED <<request, todo, missing, batch, tracker, hpc, outbox, cont, pipe, covered, batches, lost, gone>>

LEMMA ReaderFrames == ASSUME ReaderSteps PROVE ReaderFrame
  BY DEF ReaderSteps, ReaderNext, ReaderForward, ReaderRecord, ReaderSendInput, ReaderEnd,
         ReaderFrame, handlerVars, loopVars, pipeVars, clientVars

\* The reader only sends what it forwards.
LEMMA ReaderPuts ==
    ASSUME Control, ReaderSteps
    PROVE  \/ UNCHANGED responses
           \/ /\ rpc = "forward"
              /\ \E r \in Response : /\ r.tag = "raw" \/ r = Err("llm")
                                     /\ responses' = IF gone THEN responses ELSE Append(responses, r)
<1>1. CASE ReaderForward
  <2> DEFINE r == IF Current.kind = "error" THEN Err("llm") ELSE [tag |-> "raw", index |-> Len(msgs)]
  <2>1. r \in Response /\ (r.tag = "raw" \/ r = Err("llm"))
    BY Lengths, Members, Tags DEF Control, Types
  <2> QED
    BY <1>1, <2>1 DEF ReaderForward, Put
<1>2. CASE ~ReaderForward
  BY <1>2 DEF ReaderSteps, ReaderNext, ReaderRecord, ReaderSendInput, ReaderEnd
<1> QED
  BY <1>1, <1>2

\* Recording a message.
RecordRow ==
    /\ rpc = "record" /\ rpc' \in {"send_input", "next"}
    /\ rpc' = "send_input" <=> (request.chunk /\ Current.kind = "choice" /\ Current.text)
    /\ state'.usage \in BOOLEAN /\ state'.empty \in BOOLEAN
    /\ state'.completions = IF KeepsState /\ Current.kind = "choice"
                            THEN [state.completions EXCEPT ![Current.choice] = @ \union {Len(msgs)}]
                            ELSE state.completions
    /\ UNCHANGED <<msgs, texts, blank, responses>>

LEMMA RecordRows == ASSUME Control, ReaderRecord PROVE RecordRow
<1> DEFINE m == state.meta \/ (KeepsState /\ Len(msgs) = 1 /\ Current.kind \in {"choice", "nochoice"})
           u == state.usage \/ (KeepsState /\ Current.kind = "usage")
           e == state.empty \/ MarksEmpty
           s == IF KeepsState /\ Current.kind = "choice"
                THEN [state.completions EXCEPT ![Current.choice] = @ \union {Len(msgs)}]
                ELSE state.completions
<1>1. u \in BOOLEAN /\ e \in BOOLEAN
  BY Zenon
<1>2. state' = [meta |-> m, usage |-> u, empty |-> e, completions |-> s]
  BY Zenon DEF ReaderRecord, FiledUnder
<1> HIDE DEF m, u, e, s
<1>3. state'.usage = u /\ state'.empty = e /\ state'.completions = s
  BY <1>2
<1> QED
  BY <1>1, <1>3 DEF RecordRow, ReaderRecord, pipeVars, s

\* Batches stay backed while the map only grows.
LEMMA BatchesStayBacked ==
    ASSUME Control, UNCHANGED <<batches, batch, hpc, missing>>,
           rpc = "closed" => rpc' = "closed" /\ texts' = texts,
           \A c \in Choices : Completed(c) \subseteq state'.completions[c]
    PROVE  Backed'
<1>1. batches \in Seq(Batch) /\ \A i \in DOMAIN batches : batches[i] \in Batch
  BY Lengths DEF Control, Types
<1>2. ASSUME NEW b \in Batch, b.tag = "batch", IsBacked(b)
      PROVE  /\ b.choice \notin missing'
             /\ b.half = 0 => rpc' = "closed" /\ texts'[b.choice] = {} /\ b.from = 1 /\ b.upto = 1
             /\ b.half # 0 => /\ b.upto = MessageOf(b.half) /\ b.from <= b.upto
                              /\ {b.from, b.upto} \subseteq state'.completions[b.choice]
  BY <1>2, BatchFields DEF IsBacked
<1> QED
  BY <1>1, <1>2 DEF Control, Backed, IsBacked, Completed, MessageOf

LEMMA ControlReader == ASSUME Control, ReaderSteps PROVE Control'
<1>1. UNCHANGED <<request, todo, missing, batch, tracker, hpc, outbox, cont, pipe, covered, batches, lost, gone>>
  BY ReaderFrames DEF ReaderFrame
<1>2. Mail'
  BY <1>1 DEF Control, Mail
<1>3. msgs \in Seq(Message) /\ Len(msgs) \in Nat /\ responses \in Seq(Response)
      /\ state.completions \in [Choices -> SUBSET Nat] /\ texts \in [Choices -> SUBSET Nat]
  BY Lengths DEF Control, Types
<1>4. Len(msgs) > 0 => Current \in Message
  BY <1>3, Lengths DEF Current
<1>5. CASE \E m \in NextMessage : ReaderNext(m)
  <2>1. PICK m \in Message : ReaderNext(m)
    BY <1>5 DEF NextMessage
  <2>2. /\ rpc = "next" /\ msgs' = Append(msgs, m) /\ rpc' = IF request.chunk THEN "record" ELSE "forward"
        /\ UNCHANGED <<state, texts, blank, responses>>
    BY <2>1 DEF ReaderNext, pipeVars
  <2>3. /\ msgs' \in Seq(Message) /\ Len(msgs') = Len(msgs) + 1
        /\ \A i \in 1 .. Len(msgs) : msgs'[i] = msgs[i]
    BY <1>3, <2>2, Appended
  <2>4. Types'
    BY <1>1, <2>2, <2>3 DEF Control, Types
  <2>5. Phases' /\ Reading'
    BY <1>1, <1>3, <2>2, <2>3 DEF Control, Phases, Reading, At
  <2>6. Filed'
    BY <1>3, <2>2, <2>3 DEF Control, Filed, Completed
  <2>7. Sourced' /\ Trackers'
    BY <1>1, <2>2 DEF Control, Sourced, Trackers, Completed, MessageOf, At
  <2>8. Backed'
    BY <1>1, <2>2, BatchesStayBacked DEF Completed
  <2> QED
    BY <1>2, <2>4, <2>5, <2>6, <2>7, <2>8 DEF Control
<1>6. CASE ReaderForward
  <2>1. /\ rpc = "forward" /\ rpc' \in {"next", "closed", "record"} /\ UNCHANGED <<msgs, state, texts, blank>>
    BY <1>6 DEF ReaderForward, pipeVars
  <2>2. responses' \in Seq(Response)
    BY <1>3, ReaderPuts, Putting
  <2>3. Types'
    BY <1>1, <2>1, <2>2 DEF Control, Types
  <2>4. Phases' /\ Reading'
    BY <1>1, <2>1 DEF Control, Phases, Reading, At
  <2>5. Filed' /\ Sourced' /\ Trackers'
    BY <1>1, <2>1 DEF Control, Filed, Sourced, Trackers, Completed, MessageOf, At
  <2>6. Backed'
    BY <1>1, <2>1, BatchesStayBacked DEF Completed
  <2> QED
    BY <1>2, <2>3, <2>4, <2>5, <2>6 DEF Control
<1>7. CASE ReaderRecord
  <2>1. RecordRow
    BY <1>7, RecordRows
  <2>2. /\ rpc = "record" /\ rpc' \in {"send_input", "next"}
        /\ rpc' = "send_input" => request.chunk /\ Current.kind = "choice"
        /\ UNCHANGED <<msgs, texts, blank, responses>>
    BY <2>1 DEF RecordRow
  <2>3. Len(msgs) > 0 /\ Len(msgs) \in 1 .. Len(msgs) /\ (Current.kind = "choice" => Current.choice \in Choices)
    BY <1>3, <1>4, <2>2, MessageFields DEF Control, Reading
  <2>4. /\ state'.completions \in [Choices -> SUBSET Nat]
        /\ \A c \in Choices : state.completions[c] \subseteq state'.completions[c]
        /\ \A c \in Choices : \A i \in state'.completions[c] :
              i \in state.completions[c] \/ (i = Len(msgs) /\ Current.kind = "choice" /\ Current.choice = c)
        /\ KeepsState /\ Current.kind = "choice" => Len(msgs) \in state'.completions[Current.choice]
    BY <1>3, <2>1, <2>3 DEF RecordRow
  <2>5. Types'
    BY <1>1, <2>1, <2>2, <2>4 DEF Control, Types, RecordRow
  <2>6. Phases' /\ Reading'
    BY <1>1, <2>2, <2>3, <2>4 DEF Control, Phases, Reading, At, Current, KeepsState, Completed
  <2>7. Filed'
    BY <2>2, <2>3, <2>4 DEF Control, Filed, Current, Completed
  <2>8. Sourced'
    BY <1>1, <2>2, <2>4 DEF Control, Sourced, Completed, MessageOf
  <2>9. Trackers'
    BY <1>1, <2>2, <2>4 DEF Control, Trackers, Completed, At
  <2>10. Backed'
    BY <1>1, <2>2, <2>4, BatchesStayBacked DEF Completed
  <2> QED
    BY <1>2, <2>5, <2>6, <2>7, <2>8, <2>9, <2>10 DEF Control
<1>8. CASE ReaderSendInput
  <2>1. /\ rpc = "send_input" /\ rpc' = "next"
        /\ texts' = IF Current.choice \in missing THEN texts
                    ELSE [texts EXCEPT ![Current.choice] = @ \union {Len(msgs)}]
        /\ UNCHANGED <<msgs, state, blank, responses>>
    BY <1>8 DEF ReaderSendInput, pipeVars
  <2>2. Current.choice \in Choices /\ Len(msgs) \in Completed(Current.choice)
    BY <1>4, <2>1, MessageFields DEF Control, Reading
  <2>3. /\ texts' \in [Choices -> SUBSET Nat]
        /\ \A c \in Choices : texts[c] \subseteq texts'[c] /\ texts'[c] \subseteq Completed(c)
        /\ \A c \in Choices : c \in missing => texts'[c] = texts[c]
    BY <1>3, <2>1, <2>2 DEF Control, Sourced
  <2>4. Types'
    BY <1>1, <2>1, <2>3 DEF Control, Types
  <2>5. Phases' /\ Reading'
    BY <1>1, <2>1 DEF Control, Phases, Reading, At
  <2>6. Filed' /\ Trackers'
    BY <1>1, <2>1 DEF Control, Filed, Trackers, Completed, At
  <2>7. Sourced'
    BY <1>1, <2>1, <2>3 DEF Control, Sourced, Completed, MessageOf
  <2>8. Backed'
    BY <1>1, <2>1, BatchesStayBacked DEF Completed
  <2> QED
    BY <1>2, <2>4, <2>5, <2>6, <2>7, <2>8 DEF Control
<1>9. CASE ReaderEnd
  <2>1. /\ rpc = "next" /\ rpc' = "closed" /\ UNCHANGED <<msgs, state, texts, responses>>
        /\ blank' \subseteq Choices /\ \A c \in blank' : c \notin missing /\ texts[c] = {}
    BY <1>9 DEF ReaderEnd
  <2>2. Types'
    BY <1>1, <2>1 DEF Control, Types
  <2>3. Phases' /\ Reading'
    BY <1>1, <2>1 DEF Control, Phases, Reading, At
  <2>4. Filed' /\ Sourced' /\ Trackers'
    BY <1>1, <2>1 DEF Control, Filed, Sourced, Trackers, Completed, MessageOf, At
  <2>5. Backed'
    BY <1>1, <2>1, BatchesStayBacked DEF Completed
  <2> QED
    BY <1>2, <2>2, <2>3, <2>4, <2>5 DEF Control
<1> QED
  BY <1>5, <1>6, <1>7, <1>8, <1>9 DEF ReaderSteps
-----------------------------------------------------------------------------
\* What a step of the pipeline comes to.
PipeRow ==
    /\ pipe = "running"
    /\ UNCHANGED <<request, todo, missing, batch, tracker, hpc, outbox, cont, rpc, msgs, state, texts,
                   responses, gone>>
    /\ \/ \E c \in Choices : \E h \in Uncovered(c) : \E b \in Batch :
             /\ b.tag = "batch" /\ b.choice = c /\ b.half = h /\ h # 0 /\ IsBacked(b)
             /\ covered' = [covered EXCEPT ![c] = h]
             /\ batches' = Append(batches, b) /\ UNCHANGED <<pipe, lost, blank>>
       \/ \E c \in Choices : \E h \in Uncovered(c) :
             lost' = TRUE /\ covered' = [covered EXCEPT ![c] = h] /\ UNCHANGED <<batches, pipe, blank>>
       \/ \E c \in blank :
             /\ blank' = blank \ {c} /\ UNCHANGED <<pipe, lost, covered>>
             /\ \/ UNCHANGED batches
                \/ \E b \in Batch : /\ b.tag = "batch" /\ b.choice = c /\ b.half = 0 /\ IsBacked(b)
                                    /\ batches' = Append(batches, b)
       \/ /\ pipe' = "failed" /\ batches' = Append(batches, [tag |-> "error"])
          /\ UNCHANGED <<covered, lost, blank>>
       \/ /\ \/ missing = Choices
             \/ rpc = "closed" /\ blank = {} /\ \A c \in Choices : Uncovered(c) = {}
          /\ pipe' = "closed" /\ UNCHANGED <<batches, covered, lost, blank>>

Halves(c) == UNION {{2 * i - 1, 2 * i} : i \in texts[c]}

LEMMA HalfOf ==
    ASSUME Control, NEW c \in Choices
    PROVE  /\ Uncovered(c) = {h \in Halves(c) : h > covered[c]}
           /\ \A h \in Halves(c) : h \in Nat \ {0} /\ MessageOf(h) \in texts[c]
           /\ \A i \in texts[c] : i \in Nat \ {0} /\ 2 * i \in Halves(c)
           /\ covered[c] \in Nat
<1>1. texts[c] \in SUBSET Nat /\ covered[c] \in Nat
  BY DEF Control, Types
<1>2. \A i \in texts[c] : i \in 1 .. Len(msgs)
  BY DEF Control, Filed, Sourced
<1>3. ASSUME NEW i \in texts[c]
      PROVE  /\ i \in Nat \ {0} /\ 2 * i \in Nat \ {0} /\ 2 * i - 1 \in Nat \ {0}
             /\ MessageOf(2 * i) = i /\ MessageOf(2 * i - 1) = i
  <2>1. Len(msgs) \in Nat
    BY Lengths DEF Control, Types
  <2>2. i \in Nat \ {0}
    BY <1>1, <1>2, <2>1
  <2> QED
    BY <2>2, Halving
<1> QED
  BY <1>1, <1>3 DEF Halves, Uncovered

LEMMA PipeRows == ASSUME Control, Pipeline \/ PipeFails \/ PipeForwardsError PROVE PipeRow
<1> USE DEF handlerVars, loopVars, readerVars, clientVars
<1>1. ASSUME NEW c \in Choices, NEW h \in Uncovered(c), PipeBatch(c, h) PROVE PipeRow
  <2> DEFINE g == Sets!Min(Uncovered(c))
             b == MkBatch(c, h)
  <2>1. Uncovered(c) \in SUBSET Nat /\ \A k \in Uncovered(c) : k \in Nat \ {0} /\ MessageOf(k) \in texts[c]
    BY HalfOf
  <2>2. g \in Uncovered(c) /\ g <= h
    BY <1>1, <2>1, MinOf
  <2> HIDE DEF g
  <2>3. b = [tag |-> "batch", choice |-> c, from |-> MessageOf(g), upto |-> MessageOf(h), half |-> h]
    BY DEF MkBatch, g
  <2>4. /\ g \in Nat /\ h \in Nat /\ h # 0 /\ MessageOf(g) \in texts[c] /\ MessageOf(h) \in texts[c]
        /\ MessageOf(g) \in Nat /\ MessageOf(h) \in Nat /\ MessageOf(g) <= MessageOf(h)
    BY <1>1, <2>1, <2>2, Halving, HalvingMonotone
  <2> HIDE DEF b
  <2>5. b \in Batch /\ b.tag = "batch" /\ b.choice = c /\ b.from = MessageOf(g) /\ b.upto = MessageOf(h) /\ b.half = h
    BY <2>3, <2>4, BatchMembers
  <2>6. IsBacked(b)
    BY <2>4, <2>5 DEF IsBacked, Control, Sourced
  <2>7. /\ covered' = [covered EXCEPT ![c] = h] /\ pipe = "running"
        /\ (batches' = Append(batches, b) /\ UNCHANGED lost) \/ (lost' = TRUE /\ UNCHANGED batches)
        /\ UNCHANGED <<pipe, blank, handlerVars, readerVars, responses, clientVars>>
    BY <1>1 DEF PipeBatch, b
  <2> QED
    BY <1>1, <2>4, <2>5, <2>6, <2>7 DEF PipeRow
<1>2. ASSUME NEW c \in Choices, PipeBlank(c) PROVE PipeRow
  <2> DEFINE b == [tag |-> "batch", choice |-> c, from |-> 1, upto |-> 1, half |-> 0]
  <2>1. b \in Batch /\ b.tag = "batch" /\ b.choice = c /\ b.from = 1 /\ b.upto = 1 /\ b.half = 0
    BY BatchMembers
  <2>2. /\ c \in blank /\ blank' = blank \ {c} /\ pipe = "running"
        /\ UNCHANGED batches \/ batches' = Append(batches, b)
        /\ UNCHANGED <<pipe, covered, lost, handlerVars, readerVars, responses, clientVars>>
    BY <1>2 DEF PipeBlank
  <2> HIDE DEF b
  <2>3. IsBacked(b)
    BY <2>1, <2>2 DEF IsBacked, Control, Sourced
  <2> QED
    BY <2>1, <2>2, <2>3 DEF PipeRow
<1>3. CASE PipeFails \/ PipeForwardsError
  BY <1>3 DEF PipeFails, PipeForwardsError, PipeError, PipeRow
<1>4. CASE PipeCloses
  BY <1>4 DEF PipeCloses, Drained, PipeRow
<1> QED
  BY <1>1, <1>2, <1>3, <1>4 DEF Pipeline

LEMMA ControlPipe == ASSUME Control, PipeRow PROVE Control'
<1>1. /\ pipe = "running"
      /\ UNCHANGED <<request, todo, missing, batch, tracker, hpc, outbox, cont, rpc, msgs, state, texts,
                     responses, gone>>
  BY DEF PipeRow
<1>2. batches \in Seq(Batch) /\ covered \in [Choices -> Nat] /\ lost \in BOOLEAN /\ blank \subseteq Choices
  BY DEF Control, Types
<1>3. pipe' \in {"running", "failed", "closed"} /\ lost' \in BOOLEAN /\ blank' \subseteq blank
  BY <1>1, <1>2 DEF PipeRow
<1>4. covered' \in [Choices -> Nat] /\ \A c \in Choices : covered'[c] = covered[c] \/ MessageOf(covered'[c]) \in texts[c]
  <2>1. \A c \in Choices : \A h \in Uncovered(c) : h \in Nat /\ MessageOf(h) \in texts[c]
    BY HalfOf
  <2> QED
    BY <1>2, <2>1 DEF PipeRow
<1>5. batches' = batches \/ \E b \in Batch : (b.tag = "batch" => IsBacked(b)) /\ batches' = Append(batches, b)
  BY BatchMembers DEF PipeRow
<1>6. /\ batches' \in Seq(Batch)
      /\ (\A i \in DOMAIN batches : batches[i].tag = "batch" => IsBacked(batches[i]))'
  <2>1. CASE batches' = batches
    BY <1>1, <1>2, <2>1 DEF Control, Backed, IsBacked, MessageOf, Completed
  <2>2. CASE \E b \in Batch : (b.tag = "batch" => IsBacked(b)) /\ batches' = Append(batches, b)
    <3>1. PICK b \in Batch : (b.tag = "batch" => IsBacked(b)) /\ batches' = Append(batches, b)
      BY <2>2
    <3>2. /\ batches' \in Seq(Batch) /\ Len(batches) \in Nat
          /\ DOMAIN batches' = 1 .. Len(batches) + 1 /\ DOMAIN batches = 1 .. Len(batches)
          /\ batches'[Len(batches) + 1] = b /\ \A i \in 1 .. Len(batches) : batches'[i] = batches[i]
      BY <1>2, <3>1, Appended
    <3>3. \A i \in DOMAIN batches' : batches'[i] = b \/ (i \in DOMAIN batches /\ batches'[i] = batches[i])
      BY <3>2
    <3> QED
      BY <1>1, <3>1, <3>2, <3>3 DEF Control, Backed, IsBacked, MessageOf, Completed
  <2> QED
    BY <1>5, <2>1, <2>2
<1>7. Types'
  BY <1>1, <1>2, <1>3, <1>4, <1>6 DEF Control, Types
<1>8. Mail'
  BY <1>1 DEF Control, Mail
<1>9. Phases'
  BY <1>1, <1>3 DEF Control, Phases, At
<1>10. Reading' /\ Filed' /\ Trackers'
  BY <1>1 DEF Control, Reading, Filed, Trackers, Current, Completed, At
<1>11. Sourced'
  BY <1>1, <1>3, <1>4 DEF Control, Sourced, Completed, MessageOf
<1>12. Backed'
  BY <1>1, <1>6 DEF Control, Backed, IsBacked, MessageOf, Completed
<1> QED
  BY <1>7, <1>8, <1>9, <1>10, <1>11, <1>12 DEF Control

\* The client's steps.
ClientRow ==
    /\ UNCHANGED <<request, todo, missing, batch, tracker, hpc, outbox, cont, rpc, msgs, state, texts,
                   pipe, covered, batches, lost, blank, responses>>
    /\ gone' \in BOOLEAN /\ (gone => gone')

LEMMA ClientRows == ASSUME Types, ClientReads \/ ClientLeaves \/ UNCHANGED vars PROVE ClientRow
<1> USE DEF handlerVars, loopVars, readerVars, pipeVars
<1>1. gone \in BOOLEAN
  BY DEF Types
<1>2. CASE ClientReads
  BY <1>1, <1>2 DEF ClientReads, ClientRow
<1>3. CASE ClientLeaves
  BY <1>3 DEF ClientLeaves, ClientRow
<1>4. CASE UNCHANGED vars
  BY <1>1, <1>4 DEF vars, clientVars, ClientRow
<1> QED
  BY <1>2, <1>3, <1>4

LEMMA ControlClient == ASSUME Control, ClientRow PROVE Control'
<1>1. UNCHANGED <<request, todo, missing, batch, tracker, hpc, outbox, cont, rpc, msgs, state, texts,
                  pipe, covered, batches, lost, blank, responses>>
  BY DEF ClientRow
<1>2. Types'
  BY <1>1 DEF Control, Types, ClientRow
<1>3. Mail' /\ Phases' /\ Reading' /\ Filed'
  BY <1>1 DEF Control, Mail, Phases, Reading, Filed, At, Current, Completed
<1>4. Sourced' /\ Backed' /\ Trackers'
  BY <1>1 DEF Control, Sourced, Backed, Trackers, IsBacked, MessageOf, At, Completed
<1> QED
  BY <1>2, <1>3, <1>4 DEF Control

\* Every step is one of these.
Step == HandlerRow \/ SendRow \/ ReaderSteps \/ PipeRow \/ ClientRow

LEMMA Steps == ASSUME Control, [Next]_vars PROVE Step
<1>1. CASE Handler
  BY <1>1, HandlerRows, SendRows DEF Step
<1>2. CASE ReaderSteps
  BY <1>2 DEF Step
<1>3. CASE Pipeline \/ PipeFails \/ PipeForwardsError
  BY <1>3, PipeRows DEF Step
<1>4. CASE ClientReads \/ ClientLeaves \/ UNCHANGED vars
  BY <1>4, ClientRows DEF Step, Control
<1> QED
  BY <1>1, <1>2, <1>3, <1>4 DEF Next, Finished

LEMMA ControlNext == ASSUME Control, [Next]_vars PROVE Control'
  BY Steps, ControlHandler, ControlSends, ControlReader, ControlPipe, ControlClient DEF Step

LEMMA ControlAlways == Spec => []Control
  BY InitControl, ControlNext, PTL DEF Spec

\* LookupsSucceed: a completion is in CompletionState before its text is sent to the
\* chunkers, so the first and the last message of every chunk with text are found
\* when the chunk is answered, however early it comes and whatever fails.
THEOREM LookupsSucceedAlways == Spec => []LookupsSucceed
<1>1. Control => LookupsSucceed
  BY DEF Control, Backed, IsBacked, LookupsSucceed, Completed
<1> QED
  BY <1>1, ControlAlways, PTL
-----------------------------------------------------------------------------
(* The None ends the stream of responses.                                  *)

\* Once the None is sent the handler has stopped, and nobody else sends.
Ending ==
    \A i \in DOMAIN responses : responses[i] = None => i = Len(responses) /\ hpc = "stopped"

LEMMA EndingNext == ASSUME Control, Ending, Step PROVE Ending'
<1>1. responses \in Seq(Response) /\ outbox \in Seq(Response) /\ Len(responses) \in Nat
  BY Lengths DEF Control, Types
<1>2. CASE HandlerRow
  <2>1. UNCHANGED responses /\ hpc # "stopped"
    BY <1>2 DEF HandlerRow, Frame, EarlyRow, RefuseRow, SetupRow, TakeRow, RespondRow, LookupRow, EndRow,
                TailRow, FinalRow
  <2> QED
    BY <2>1 DEF Ending
<1>3. CASE SendRow
  <2>1. /\ hpc = "send" /\ outbox[1] \in Response
        /\ responses' = IF gone THEN responses ELSE Append(responses, outbox[1])
    BY <1>3 DEF SendRow
  <2>2. \A i \in DOMAIN responses : responses[i] # None
    BY <2>1 DEF Ending
  <2>3. outbox[1] = None => hpc' = "stopped"
    <3>1. CASE Len(outbox) = 1
      BY <1>3, <2>1, <3>1 DEF SendRow, Control, Mail
    <3>2. CASE Len(outbox) = 2
      BY <3>2 DEF Control, Mail
    <3> QED
      BY <1>3, <3>1, <3>2 DEF SendRow
  <2>4. \A i \in DOMAIN responses' : responses'[i] = None => i = Len(responses') /\ outbox[1] = None
    BY <1>1, <2>1, <2>2, Putting
  <2> QED
    BY <2>3, <2>4 DEF Ending
<1>4. CASE ReaderSteps
  <2>1. UNCHANGED <<hpc, gone>>
    BY <1>4, ReaderFrames DEF ReaderFrame
  <2>2. CASE UNCHANGED responses
    BY <2>1, <2>2 DEF Ending
  <2>3. CASE rpc = "forward" /\ \E r \in Response : /\ r.tag = "raw" \/ r = Err("llm")
                                                    /\ responses' = IF gone THEN responses ELSE Append(responses, r)
    <3>1. hpc = "await_reader"
      BY <2>3 DEF Control, Phases, Reading
    <3>2. \A i \in DOMAIN responses : responses[i] # None
      BY <3>1 DEF Ending
    <3>3. PICK r \in Response : /\ r # None
                                /\ responses' = IF gone THEN responses ELSE Append(responses, r)
      BY <2>3, Tags
    <3>4. \A i \in DOMAIN responses' : responses'[i] # None
      BY <1>1, <3>2, <3>3, Putting
    <3> QED
      BY <3>4 DEF Ending
  <2> QED
    BY <1>4, <2>2, <2>3, ReaderPuts
<1>5. CASE PipeRow
  BY <1>5 DEF PipeRow, Ending
<1>6. CASE ClientRow
  BY <1>6 DEF ClientRow, Ending
<1> QED
  BY <1>2, <1>3, <1>4, <1>5, <1>6 DEF Step

\* NothingAfterNone: no response follows the None that the route turns into [DONE]:
\* an error of the pipeline or of a lookup ends the batches and not the request, and
\* the reader has returned before the handler ends a request it forwards.
THEOREM NothingAfterNoneAlways == Spec => []NothingAfterNone
<1>1. Init => Ending
  BY DEF Init, Ending
<1>2. Control /\ Ending /\ [Next]_vars => Ending'
  BY Steps, EndingNext
<1>3. Control /\ Ending => NothingAfterNone
  BY Lengths DEF Control, Types, Ending, NothingAfterNone
<1> QED
  BY <1>1, <1>2, <1>3, ControlAlways, PTL DEF Spec
-----------------------------------------------------------------------------
(* Chunks are answered in order.                                           *)

\* b is a batch of choice c.
BatchOf(b, c) == b.tag = "batch" /\ b.choice = c

\* The batches of a choice are queued in text order; a failed pipeline says so.
Queued ==
    /\ \A k \in DOMAIN batches : batches[k].tag = "batch" => batches[k].half <= covered[batches[k].choice]
    /\ \A k, l \in DOMAIN batches :
          k < l /\ batches[k].tag = "batch" /\ BatchOf(batches[l], batches[k].choice) /\ batches[l].half # 0
              => batches[k].half < batches[l].half
    /\ At \in {"await_batch", "respond"} /\ pipe = "failed" => \E k \in DOMAIN batches : batches[k].tag = "error"

\* The batch that is being answered comes before those that are queued.
Following ==
    hpc = "respond" => /\ batch.half <= covered[batch.choice]
                       /\ \A k \in DOMAIN batches :
                             BatchOf(batches[k], batch.choice) /\ batches[k].half # 0 => batch.half < batches[k].half

Order == Queued /\ Following

LEMMA Taken ==
    ASSUME Control, TakeRow
    PROVE  /\ batches \in Seq(Batch) /\ batches' \in Seq(Batch)
           /\ 1 \in DOMAIN batches /\ batch' = batches[1]
           /\ \A k \in DOMAIN batches' : k + 1 \in DOMAIN batches /\ batches'[k] = batches[k + 1]
           /\ \A k \in DOMAIN batches : k = 1 \/ \E l \in DOMAIN batches' : batches'[l] = batches[k]
           /\ \A k, l \in DOMAIN batches' : k < l => k + 1 < l + 1
           /\ \A k \in DOMAIN batches' : 1 < k + 1
<1>1. batches \in Seq(Batch)
  BY DEF Control, Types
<1>2. /\ batches' \in Seq(Batch) /\ Len(batches) \in Nat /\ Len(batches) > 0 /\ batch' = batches[1]
      /\ DOMAIN batches = 1 .. Len(batches) /\ DOMAIN batches' = 1 .. Len(batches) - 1
      /\ \A i \in 1 .. Len(batches) - 1 : batches'[i] = batches[i + 1]
  BY <1>1, Popped DEF TakeRow
<1>3. ASSUME NEW k \in DOMAIN batches, k # 1 PROVE \E l \in DOMAIN batches' : batches'[l] = batches[k]
  <2>1. k - 1 \in 1 .. Len(batches) - 1 /\ (k - 1) + 1 = k
    BY <1>2, <1>3
  <2> QED
    BY <1>2, <2>1
<1> QED
  BY <1>1, <1>2, <1>3

LEMMA NotTaken ==
    ASSUME HandlerRow, ~TakeRow
    PROVE  UNCHANGED batches /\ hpc' # "respond" /\ pipe' \in {pipe, "running"}
  BY DEF HandlerRow, EarlyRow, RefuseRow, SetupRow, RespondRow, LookupRow, EndRow, TailRow, FinalRow,
         Moves, Speaks, SpeaksOr

\* What the pipeline adds to the queue.
LEMMA Grown ==
    ASSUME Control, PipeRow
    PROVE  /\ \A k \in DOMAIN batches : k \in DOMAIN batches' /\ batches'[k] = batches[k]
           /\ \/ UNCHANGED batches
              \/ \E b \in Batch :
                    /\ Len(batches) + 1 \in DOMAIN batches' /\ batches'[Len(batches) + 1] = b
                    /\ \A k \in DOMAIN batches' : k \in DOMAIN batches \/ k = Len(batches) + 1
                    /\ \A k \in DOMAIN batches : k < Len(batches) + 1 /\ Len(batches) + 1 \notin DOMAIN batches
                    /\ \/ b.tag = "error" /\ UNCHANGED covered
                       \/ /\ b.tag = "batch" /\ b.choice \in Choices
                          /\ \/ b.half = 0 /\ UNCHANGED covered /\ covered[b.choice] = 0
                             \/ /\ covered[b.choice] < b.half /\ covered'[b.choice] = b.half /\ b.half # 0
                                /\ \A d \in Choices \ {b.choice} : covered'[d] = covered[d]
           /\ \A c \in Choices : covered[c] \in Nat /\ covered'[c] \in Nat /\ covered[c] <= covered'[c]
           /\ pipe' = "failed" => \E k \in DOMAIN batches' : batches'[k].tag = "error"
<1>1. batches \in Seq(Batch) /\ covered \in [Choices -> Nat]
  BY DEF Control, Types
<1>2. ASSUME NEW b \in Batch, batches' = Append(batches, b)
      PROVE  /\ \A k \in DOMAIN batches : k \in DOMAIN batches' /\ batches'[k] = batches[k]
             /\ Len(batches) + 1 \in DOMAIN batches' /\ batches'[Len(batches) + 1] = b
             /\ \A k \in DOMAIN batches' : k \in DOMAIN batches \/ k = Len(batches) + 1
             /\ \A k \in DOMAIN batches : k < Len(batches) + 1 /\ Len(batches) + 1 \notin DOMAIN batches
  BY <1>1, <1>2, Appended
<1>3. ASSUME NEW c \in Choices, NEW h \in Uncovered(c), covered' = [covered EXCEPT ![c] = h]
      PROVE  /\ h \in Nat \ {0} /\ covered[c] < h /\ covered'[c] = h /\ \A d \in Choices \ {c} : covered'[d] = covered[d]
             /\ \A d \in Choices : covered'[d] \in Nat /\ covered[d] <= covered'[d]
  <2>1. h \in Nat \ {0} /\ covered[c] < h
    BY HalfOf
  <2> QED
    BY <1>1, <1>3, <2>1
<1>4. CASE \E c \in Choices : \E h \in Uncovered(c) : \E b \in Batch :
              /\ b.tag = "batch" /\ b.choice = c /\ b.half = h
              /\ covered' = [covered EXCEPT ![c] = h]
              /\ batches' = Append(batches, b) /\ UNCHANGED pipe
  <2>1. PICK c \in Choices : \E h \in Uncovered(c) : \E b \in Batch :
              /\ b.tag = "batch" /\ b.choice = c /\ b.half = h
              /\ covered' = [covered EXCEPT ![c] = h]
              /\ batches' = Append(batches, b) /\ UNCHANGED pipe
    BY <1>4
  <2>2. PICK h \in Uncovered(c), b \in Batch :
              /\ b.tag = "batch" /\ b.choice = c /\ b.half = h
              /\ covered' = [covered EXCEPT ![c] = h]
              /\ batches' = Append(batches, b) /\ UNCHANGED pipe
    BY <2>1
  <2>3. pipe' # "failed"
    BY <2>2 DEF PipeRow
  <2> QED
    BY <1>1, <1>2, <1>3, <2>2, <2>3
<1>5. CASE \E c \in Choices : \E h \in Uncovered(c) :
              covered' = [covered EXCEPT ![c] = h] /\ UNCHANGED <<batches, pipe>>
  <2>1. pipe' # "failed"
    BY <1>5 DEF PipeRow
  <2> QED
    BY <1>1, <1>3, <1>5, <2>1
<1>6. CASE \E c \in blank : /\ UNCHANGED <<pipe, covered>>
                            /\ \E b \in Batch : /\ b.tag = "batch" /\ b.choice = c /\ b.half = 0
                                                /\ batches' = Append(batches, b)
  <2>1. PICK c \in blank : \E b \in Batch : b.tag = "batch" /\ b.choice = c /\ b.half = 0 /\ batches' = Append(batches, b)
    BY <1>6
  <2>2. PICK b \in Batch : b.tag = "batch" /\ b.choice = c /\ b.half = 0 /\ batches' = Append(batches, b)
    BY <2>1
  <2>3. c \in Choices /\ covered[c] = 0
    BY DEF Control, Types, Sourced
  <2>4. pipe' # "failed"
    BY <1>6 DEF PipeRow
  <2> QED
    BY <1>1, <1>2, <1>6, <2>2, <2>3, <2>4
<1>7. CASE batches' = Append(batches, [tag |-> "error"]) /\ UNCHANGED covered
  BY <1>1, <1>2, <1>7, BatchMembers
<1>8. CASE UNCHANGED <<batches, covered>> /\ pipe' # "failed"
  BY <1>1, <1>8
<1> QED
  BY <1>4, <1>5, <1>6, <1>7, <1>8 DEF PipeRow

LEMMA OrderNext == ASSUME Control, Order, Step PROVE Order'
<1>1. /\ batches \in Seq(Batch) /\ covered \in [Choices -> Nat] /\ Len(batches) \in Nat /\ DOMAIN batches = 1 .. Len(batches)
      /\ \A k \in DOMAIN batches : batches[k].tag = "batch" => batches[k].choice \in Choices /\ batches[k].half \in Nat
      /\ hpc = "respond" => batch.choice \in Choices /\ batch.half \in Nat
  BY Lengths, BatchFields DEF Control, Types, Backed
<1>2. CASE TakeRow /\ HandlerRow
  <2>1. UNCHANGED <<covered, pipe>> /\ hpc = "await_batch"
    BY <1>2 DEF HandlerRow, Frame, TakeRow
  <2>2. /\ 1 \in DOMAIN batches /\ batch' = batches[1]
        /\ \A k \in DOMAIN batches' : k + 1 \in DOMAIN batches /\ batches'[k] = batches[k + 1]
        /\ \A k \in DOMAIN batches : k = 1 \/ \E l \in DOMAIN batches' : batches'[l] = batches[k]
        /\ \A k, l \in DOMAIN batches' : k < l => k + 1 < l + 1
        /\ \A k \in DOMAIN batches' : 1 < k + 1
    BY <1>2, Taken
  <2>3. \/ batches[1].tag = "batch" /\ hpc' = "respond"
        \/ batches[1].tag = "error" /\ At' = "final" /\ hpc' = "send"
    BY <1>2, <2>2, Popped, <1>1 DEF TakeRow, Moves, Speaks, SpeaksOr, At
  <2>4. Queued'
    <3>1. \A k \in DOMAIN batches' : batches'[k].tag = "batch" => batches'[k].half <= covered'[batches'[k].choice]
      BY <2>1, <2>2 DEF Order, Queued
    <3>2. \A k, l \in DOMAIN batches' :
             k < l /\ batches'[k].tag = "batch" /\ BatchOf(batches'[l], batches'[k].choice) /\ batches'[l].half # 0
                 => batches'[k].half < batches'[l].half
      BY <2>2 DEF Order, Queued
    <3>3. At' \in {"await_batch", "respond"} /\ pipe' = "failed" => \E k \in DOMAIN batches' : batches'[k].tag = "error"
      <4> SUFFICES ASSUME At' \in {"await_batch", "respond"}, pipe' = "failed"
                   PROVE  \E k \in DOMAIN batches' : batches'[k].tag = "error"
        OBVIOUS
      <4>1. batches[1].tag = "batch"
        BY <2>3
      <4>2. PICK k \in DOMAIN batches : batches[k].tag = "error"
        BY <2>1 DEF Order, Queued, At
      <4> QED
        BY <2>2, <4>1, <4>2
    <3> QED
      BY <3>1, <3>2, <3>3 DEF Queued, BatchOf
  <2>5. Following'
    <3>1. hpc' = "respond" => batches[1].tag = "batch"
      BY <2>3
    <3>2. hpc' = "respond" => batch'.half <= covered'[batch'.choice]
      BY <2>1, <2>2, <3>1 DEF Order, Queued
    <3>3. ASSUME hpc' = "respond", NEW k \in DOMAIN batches', BatchOf(batches'[k], batch'.choice), batches'[k].half # 0
          PROVE  batch'.half < batches'[k].half
      BY <2>2, <3>1, <3>3 DEF Order, Queued
    <3> QED
      BY <3>2, <3>3 DEF Following, BatchOf
  <2> QED
    BY <2>4, <2>5 DEF Order
<1>3. CASE ~TakeRow /\ HandlerRow
  <2>1. UNCHANGED <<batches, covered>> /\ hpc' # "respond" /\ pipe' \in {pipe, "running"}
    BY <1>3, NotTaken DEF HandlerRow, Frame
  <2>2. At' = "await_batch" /\ pipe' = "failed" => At \in {"await_batch", "respond"}
    BY <1>3 DEF HandlerRow, EarlyRow, RefuseRow, SetupRow, RespondRow, LookupRow, EndRow, TailRow, FinalRow,
                Moves, Speaks, SpeaksOr, At, Control, Phases
  <2>3. At' # "respond"
    BY <1>3 DEF HandlerRow, EarlyRow, RefuseRow, SetupRow, RespondRow, LookupRow, EndRow, TailRow, FinalRow,
                Moves, Speaks, SpeaksOr, At
  <2> QED
    BY <2>1, <2>2, <2>3 DEF Order, Queued, Following, BatchOf
<1>4. CASE SendRow
  <2>1. UNCHANGED <<batches, covered, pipe>>
    BY <1>4 DEF SendRow
  <2>2. hpc' # "respond" /\ At' # "respond" /\ (At' = "await_batch" => At = "await_batch")
    BY <1>4, Sending
  <2> QED
    BY <2>1, <2>2 DEF Order, Queued, Following, BatchOf
<1>5. CASE ReaderSteps
  BY <1>5, ReaderFrames DEF ReaderFrame, Order, Queued, Following, BatchOf, At
<1>6. CASE PipeRow
  <2>1. UNCHANGED <<hpc, cont, batch>>
    BY <1>6 DEF PipeRow
  <2>2. /\ \A k \in DOMAIN batches : k \in DOMAIN batches' /\ batches'[k] = batches[k]
        /\ \A c \in Choices : covered[c] \in Nat /\ covered'[c] \in Nat /\ covered[c] <= covered'[c]
        /\ pipe' = "failed" => \E k \in DOMAIN batches' : batches'[k].tag = "error"
    BY <1>6, Grown
  <2>3. \A k \in DOMAIN batches : batches[k].tag = "batch" => batches[k].half <= covered'[batches[k].choice]
    BY <1>1, <2>2 DEF Order, Queued
  <2>4. hpc = "respond" => batch.half <= covered'[batch.choice]
    BY <1>1, <2>2 DEF Order, Following
  <2>5. CASE UNCHANGED batches
    BY <2>1, <2>2, <2>3, <2>4, <2>5 DEF Order, Queued, Following, BatchOf
  <2>6. CASE ~UNCHANGED batches
    <3>1. PICK b \in Batch :
                    /\ Len(batches) + 1 \in DOMAIN batches' /\ batches'[Len(batches) + 1] = b
                    /\ \A k \in DOMAIN batches' : k \in DOMAIN batches \/ k = Len(batches) + 1
                    /\ \A k \in DOMAIN batches : k < Len(batches) + 1 /\ Len(batches) + 1 \notin DOMAIN batches
                    /\ \/ b.tag = "error" /\ UNCHANGED covered
                       \/ /\ b.tag = "batch" /\ b.choice \in Choices
                          /\ \/ b.half = 0 /\ UNCHANGED covered /\ covered[b.choice] = 0
                             \/ /\ covered[b.choice] < b.half /\ covered'[b.choice] = b.half /\ b.half # 0
                                /\ \A d \in Choices \ {b.choice} : covered'[d] = covered[d]
      BY <1>6, <2>6, Grown
    <3>2. b.tag = "batch" => /\ b.choice \in Choices /\ b.half \in Nat /\ b.half <= covered'[b.choice]
                             /\ b.half # 0 => covered[b.choice] < b.half
      BY <3>1, <2>2, BatchFields
    <3>3. \A k \in DOMAIN batches' : batches'[k].tag = "batch" => batches'[k].half <= covered'[batches'[k].choice]
      BY <2>2, <2>3, <3>1, <3>2
    <3>4. ASSUME NEW k \in DOMAIN batches', NEW l \in DOMAIN batches', k < l, batches'[k].tag = "batch",
                 BatchOf(batches'[l], batches'[k].choice), batches'[l].half # 0
          PROVE  batches'[k].half < batches'[l].half
      <4>1. k \in DOMAIN batches
        BY <1>1, <3>1, <3>4
      <4>2. batches'[k] = batches[k] /\ batches[k].half \in Nat /\ batches[k].choice \in Choices
        BY <1>1, <2>2, <3>4, <4>1
      <4>3. CASE l \in DOMAIN batches
        BY <2>2, <3>4, <4>1, <4>2, <4>3 DEF Order, Queued
      <4>4. CASE l = Len(batches) + 1
        <5>1. batches'[l] = b /\ b.tag = "batch" /\ b.choice = batches[k].choice /\ covered[b.choice] < b.half
          BY <3>1, <3>2, <3>4, <4>2, <4>4 DEF BatchOf
        <5>2. batches[k].half <= covered[batches[k].choice]
          BY <3>4, <4>1, <4>2 DEF Order, Queued
        <5> QED
          BY <2>2, <3>2, <4>2, <5>1, <5>2
      <4> QED
        BY <3>1, <4>3, <4>4
    <3>5. ASSUME hpc = "respond", NEW k \in DOMAIN batches', BatchOf(batches'[k], batch.choice), batches'[k].half # 0
          PROVE  batch.half < batches'[k].half
      <4>1. CASE k \in DOMAIN batches
        BY <2>2, <3>5, <4>1 DEF Order, Following
      <4>2. CASE k = Len(batches) + 1
        <5>1. b.tag = "batch" /\ b.choice = batch.choice /\ covered[b.choice] < b.half
          BY <3>1, <3>2, <3>5, <4>2 DEF BatchOf
        <5>2. batch.half <= covered[batch.choice] /\ batch.half \in Nat
          BY <1>1, <3>5 DEF Order, Following
        <5> QED
          BY <2>2, <3>1, <3>2, <4>2, <5>1, <5>2
      <4> QED
        BY <3>1, <4>1, <4>2
    <3>6. Queued'
      BY <2>2, <3>3, <3>4 DEF Queued, BatchOf
    <3>7. Following'
      BY <2>1, <2>4, <3>5 DEF Following, BatchOf
    <3> QED
      BY <3>6, <3>7 DEF Order
  <2> QED
    BY <2>5, <2>6
<1>7. CASE ClientRow
  BY <1>7 DEF ClientRow, Order, Queued, Following, BatchOf, At
<1> QED
  BY <1>2, <1>3, <1>4, <1>5, <1>6, <1>7 DEF Step

LEMMA OrderAlways == Spec => [](Control /\ Order)
<1>1. Init => Order
  BY DEF Init, Order, Queued, Following, At
<1>2. Control /\ Order /\ [Next]_vars => Order'
  BY Steps, OrderNext
<1> QED
  BY <1>1, <1>2, ControlAlways, PTL DEF Spec
-----------------------------------------------------------------------------
(* All text is covered by batches, and the tracker follows them.           *)

\* The request fails, or the client has left.
Failing ==
    \/ gone
    \/ \E i \in DOMAIN responses : responses[i].tag \in {"error", "input"}
    \/ \E i \in DOMAIN outbox : outbox[i].tag \in {"error", "input"}

\* A request with chunk detectors goes, or has gone, through its batches to the end.
Batching == At \in {"await_batch", "respond", "tail"}
Through == request.chunk /\ ~Failing /\ At \in {"final", "end", "stopped"}

\* The batch stream closes when all text of its choices is in batches, and what
\* follows the batches comes when there are none left.
Flushed ==
    /\ pipe = "closed" => \/ missing = Choices
                          \/ rpc = "closed" /\ blank = {} /\ \A c \in Choices : Uncovered(c) = {}
    /\ At = "tail" \/ Through => pipe = "closed" /\ batches = <<>>

\* The text of a message reaches the chunkers unless its choice has none.
Fed ==
    request.chunk => \A i \in DOMAIN msgs :
        msgs[i].kind = "choice" /\ msgs[i].text /\ msgs[i].choice \notin missing =>
            i \in texts[msgs[i].choice] \/ (i = Len(msgs) /\ rpc \in {"record", "send_input"})

NoneQueued(c) ==
    /\ \A k \in DOMAIN batches : ~BatchOf(batches[k], c)
    /\ hpc = "respond" => batch.choice # c

\* The last batch of a choice is in the queue, is being answered, or is what the tracker holds.
Carried(c) ==
    \/ covered[c] = 0
    \/ \E k \in DOMAIN batches : BatchOf(batches[k], c) /\ batches[k].half = covered[c]
    \/ hpc = "respond" /\ batch.choice = c /\ batch.half = covered[c]
    \/ tracker[c] = MessageOf(covered[c]) /\ NoneQueued(c)

Carrying == ~lost /\ (Batching \/ Through) => \A c \in Choices : Carried(c)

LEMMA FailingStays == ASSUME Control, Failing, Step PROVE Failing'
<1>1. responses \in Seq(Response) /\ outbox \in Seq(Response) /\ gone \in BOOLEAN
  BY DEF Control, Types
<1>2. CASE HandlerRow
  BY <1>2 DEF HandlerRow, Frame, Failing
<1>3. CASE SendRow
  <2>1. /\ UNCHANGED gone /\ outbox[1] \in Response
        /\ responses' = IF gone THEN responses ELSE Append(responses, outbox[1])
        /\ \A i \in DOMAIN outbox : i = 1 \/ outbox[i] = None
    BY <1>1, <1>3, Lengths DEF SendRow
  <2> QED
    BY <1>1, <2>1, Putting, Tags DEF Failing
<1>4. CASE ReaderSteps
  <2>1. UNCHANGED <<outbox, gone>>
    BY <1>4, ReaderFrames DEF ReaderFrame
  <2>2. \A i \in DOMAIN responses : i \in DOMAIN responses' /\ responses'[i] = responses[i]
    BY <1>1, <1>4, ReaderPuts, Putting
  <2> QED
    BY <2>1, <2>2 DEF Failing
<1>5. CASE PipeRow
  BY <1>5 DEF PipeRow, Failing
<1>6. CASE ClientRow
  BY <1>6 DEF ClientRow, Failing
<1> QED
  BY <1>2, <1>3, <1>4, <1>5, <1>6 DEF Step

\* A step of the handler that says an error or the input detections is a failure.
LEMMA SaysFailure ==
    ASSUME NEW n \in {1, 2}, NEW a, a.tag \in {"error", "input"}, NEW h, Speaks(n, a, h)
    PROVE  Failing'
  BY DEF Speaks, SpeaksOr, Failing

\* Where the handler goes when nothing fails.
LEMMA HandlerGoes ==
    ASSUME Control, HandlerRow
    PROVE  /\ At' = "tail" => EndRow \/ TailRow
           /\ Through' => TailRow \/ (FinalRow /\ Through)
           /\ Batching' => SetupRow \/ TakeRow \/ RespondRow \/ EndRow \/ TailRow
<1>1. At' = "tail" => EndRow \/ TailRow
  BY DEF HandlerRow, EarlyRow, RefuseRow, SetupRow, TakeRow, RespondRow, LookupRow, EndRow, TailRow, FinalRow,
         Moves, Speaks, SpeaksOr, At
<1>2. Batching' => SetupRow \/ TakeRow \/ RespondRow \/ EndRow \/ TailRow
  BY DEF HandlerRow, EarlyRow, RefuseRow, SetupRow, TakeRow, RespondRow, LookupRow, EndRow, TailRow, FinalRow,
         Moves, Speaks, SpeaksOr, At, Batching
<1>3. ASSUME Through' PROVE TailRow \/ (FinalRow /\ Through)
  <2>1. ~Failing /\ ~Failing' /\ request.chunk /\ At' \in {"final", "end", "stopped"}
    BY <1>3, FailingStays DEF Through, Step, HandlerRow, Frame
  <2>2. ~RefuseRow
    BY <2>1, SaysFailure, Tags DEF RefuseRow
  <2>3. ~TakeRow
    BY <2>1, SaysFailure, Tags DEF TakeRow, Moves, At
  <2>4. ~LookupRow
    BY <2>1, SaysFailure, Tags DEF LookupRow, Moves, At
  <2>5. TailRow \/ FinalRow
    BY <2>1, <2>2, <2>3, <2>4 DEF HandlerRow, EarlyRow, SetupRow, RespondRow, EndRow,
         Moves, Speaks, SpeaksOr, At
  <2>6. FinalRow => hpc \in {"final", "end"} /\ hpc # "send"
    BY <2>1 DEF FinalRow, Control, Phases, At
  <2> QED
    BY <2>1, <2>5, <2>6 DEF Through, At
<1> QED
  BY <1>1, <1>2, <1>3

\* What the other steps leave of where the handler is.
LEMMA OthersGo ==
    ASSUME Control, Step, ~HandlerRow
    PROVE  /\ At' = "tail" => At = "tail"
           /\ Through' => Through
           /\ Batching' => Batching
           /\ hpc' = "respond" => hpc = "respond" /\ UNCHANGED batch
<1>1. ~Failing' => ~Failing
  BY FailingStays
<1>2. CASE SendRow
  <2>1. /\ At \in {"setup", "await_batch", "tail", "final", "end", "stopped"}
        /\ At' = At \/ (At \in {"await_batch", "tail"} /\ At' = "final" /\ gone)
        /\ hpc' \in {"send", At'}
    BY <1>2, Sending
  <2>2. UNCHANGED <<request, gone>>
    BY <1>2 DEF SendRow
  <2> QED
    BY <1>1, <2>1, <2>2 DEF Through, Batching, Failing
<1>3. CASE ReaderSteps
  BY <1>1, <1>3, ReaderFrames DEF ReaderFrame, Through, Batching, At
<1>4. CASE PipeRow
  BY <1>1, <1>4 DEF PipeRow, Through, Batching, At
<1>5. CASE ClientRow
  BY <1>1, <1>5 DEF ClientRow, Through, Batching, At
<1> QED
  BY <1>2, <1>3, <1>4, <1>5 DEF Step

LEMMA FlushedNext == ASSUME Control, Order, Flushed, Step PROVE Flushed'
<1>1. CASE HandlerRow
  <2>1. pipe' = "closed" => UNCHANGED <<pipe, rpc, missing>>
    BY <1>1 DEF HandlerRow, EarlyRow, RefuseRow, SetupRow, TakeRow, RespondRow, LookupRow, EndRow, TailRow, FinalRow,
                Control, Phases, At
  <2>2. UNCHANGED <<texts, covered, blank>>
    BY <1>1 DEF HandlerRow, Frame
  <2>3. CASE EndRow
    <3>1. At = "await_batch" /\ \A k \in DOMAIN batches : FALSE
      BY <2>3 DEF EndRow, At, HandlerRow
    <3>2. pipe' = "closed" /\ batches' = <<>>
      BY <2>3, <3>1 DEF EndRow, Order, Queued
    <3> QED
      BY <2>1, <2>2, <3>2 DEF Flushed, Uncovered
  <2>4. CASE TailRow
    <3>1. At = "tail" /\ UNCHANGED <<pipe, batches>>
      BY <2>4 DEF TailRow, At
    <3> QED
      BY <2>1, <2>2, <3>1 DEF Flushed, Uncovered
  <2>5. CASE FinalRow
    <3>1. UNCHANGED <<pipe, batches>> /\ (Through' => Through) /\ At' # "tail"
      BY <1>1, <2>5, HandlerGoes DEF FinalRow, EndRow, TailRow
    <3> QED
      BY <2>1, <2>2, <3>1 DEF Flushed, Uncovered
  <2>6. CASE ~EndRow /\ ~TailRow /\ ~FinalRow
    BY <1>1, <2>1, <2>2, <2>6, HandlerGoes DEF Flushed, Uncovered
  <2> QED
    BY <2>3, <2>4, <2>5, <2>6
<1>2. CASE SendRow \/ ClientRow
  <2>1. UNCHANGED <<pipe, missing, rpc, blank, texts, covered, batches>>
    BY <1>2 DEF SendRow, ClientRow
  <2>2. At' = "tail" \/ Through' => At = "tail" \/ Through
    <3>1. CASE ~HandlerRow
      BY <1>2, <3>1, OthersGo DEF Step
    <3>2. CASE HandlerRow
      <4>1. ClientRow
        BY <1>2, <3>2 DEF HandlerRow, SendRow
      <4> QED
        BY <4>1, FailingStays DEF ClientRow, Step, Through, At
    <3> QED
      BY <3>1, <3>2
  <2> QED
    BY <2>1, <2>2 DEF Flushed, Uncovered
<1>3. CASE ReaderSteps
  <2>1. UNCHANGED <<request, hpc, cont, outbox, missing, pipe, covered, batches, gone>> /\ rpc # "closed"
    BY <1>3, ReaderFrames DEF ReaderFrame, ReaderSteps, ReaderNext, ReaderForward, ReaderRecord, ReaderSendInput, ReaderEnd
  <2>2. Through' => Through
    BY <1>3, <2>1, FailingStays DEF Step, Through, At
  <2> QED
    BY <2>1, <2>2 DEF Flushed, At
<1>4. CASE PipeRow
  <2>1. pipe = "running" /\ UNCHANGED <<request, hpc, cont, outbox, missing, rpc, texts, responses, gone>>
    BY <1>4 DEF PipeRow
  <2>2. ~(At = "tail" \/ Through)'
    BY <2>1 DEF Flushed, At, Through, Failing
  <2>3. pipe' = "closed" => /\ UNCHANGED <<covered, blank>>
                            /\ \/ missing = Choices
                               \/ rpc = "closed" /\ blank = {} /\ \A c \in Choices : Uncovered(c) = {}
    BY <1>4 DEF PipeRow
  <2> QED
    BY <2>1, <2>2, <2>3 DEF Flushed, Uncovered
<1> QED
  BY <1>1, <1>2, <1>3, <1>4 DEF Step

LEMMA FedNext == ASSUME Control, Fed, Step PROVE Fed'
<1>1. msgs \in Seq(Message) /\ Len(msgs) \in Nat /\ DOMAIN msgs = 1 .. Len(msgs)
  BY Lengths DEF Control, Types
<1>2. CASE HandlerRow
  <2>1. UNCHANGED <<request, msgs, texts>> /\ (UNCHANGED <<rpc, missing>> \/ rpc = "idle")
    BY <1>2 DEF HandlerRow, Frame, EarlyRow, RefuseRow, SetupRow, TakeRow, RespondRow, LookupRow, EndRow, TailRow,
                FinalRow, Control, Phases, At
  <2>2. rpc = "idle" => \A i \in DOMAIN msgs : FALSE
    BY DEF Control, Reading
  <2> QED
    BY <2>1, <2>2 DEF Fed
<1>3. CASE SendRow \/ PipeRow \/ ClientRow
  BY <1>3 DEF SendRow, PipeRow, ClientRow, Fed
<1>4. CASE ReaderSteps
  <2>1. UNCHANGED <<request, missing>>
    BY <1>4, ReaderFrames DEF ReaderFrame
  <2> SUFFICES ASSUME request.chunk PROVE Fed'
    BY <2>1 DEF Fed
  <2>2. CASE \E m \in NextMessage : ReaderNext(m)
    <3>1. PICK m \in Message : ReaderNext(m)
      BY <2>2 DEF NextMessage
    <3>2. rpc = "next" /\ rpc' = "record" /\ msgs' = Append(msgs, m) /\ UNCHANGED texts
      BY <3>1 DEF ReaderNext
    <3>3. /\ Len(msgs') = Len(msgs) + 1 /\ DOMAIN msgs' = 1 .. Len(msgs) + 1
          /\ \A i \in 1 .. Len(msgs) : msgs'[i] = msgs[i]
      BY <1>1, <3>2, Appended
    <3>4. \A i \in DOMAIN msgs' : (i \in DOMAIN msgs /\ msgs'[i] = msgs[i]) \/ i = Len(msgs')
      BY <1>1, <3>3
    <3> QED
      BY <2>1, <3>2, <3>4 DEF Fed
  <2>3. CASE ReaderRecord
    <3>1. RecordRow
      BY <2>3, RecordRows
    <3> QED
      BY <2>1, <3>1 DEF RecordRow, Fed, Current
  <2>4. CASE ReaderSendInput
    <3>1. /\ UNCHANGED msgs /\ rpc' = "next" /\ rpc = "send_input"
          /\ texts' = IF Current.choice \in missing THEN texts
                      ELSE [texts EXCEPT ![Current.choice] = @ \union {Len(msgs)}]
          /\ Len(msgs) > 0
      BY <2>4 DEF ReaderSendInput, Control, Reading
    <3>2. texts \in [Choices -> SUBSET Nat] /\ Current.choice \in Choices
      BY <1>1, <3>1, Lengths, MessageFields DEF Control, Types, Reading, Current
    <3>3. /\ Current.choice \notin missing => Len(msgs) \in texts'[Current.choice]
          /\ \A c \in Choices : texts[c] \subseteq texts'[c]
      BY <3>1, <3>2
    <3>4. \A i \in DOMAIN msgs : msgs[i].kind = "choice" => msgs[i].choice \in Choices
      BY <1>1, Lengths, MessageFields
    <3> QED
      BY <2>1, <3>1, <3>3, <3>4 DEF Fed, Current
  <2>5. CASE ReaderForward
    BY <2>5 DEF ReaderForward, Control, Reading
  <2>6. CASE ReaderEnd
    BY <2>1, <2>6 DEF ReaderEnd, Fed
  <2> QED
    BY <1>4, <2>2, <2>3, <2>4, <2>5, <2>6 DEF ReaderSteps
<1> QED
  BY <1>2, <1>3, <1>4 DEF Step
-----------------------------------------------------------------------------
LEMMA CarryingHandler == ASSUME Control, Order, Carrying, HandlerRow PROVE Carrying'
<1> SUFFICES ASSUME ~lost', Batching' \/ Through', NEW c \in Choices PROVE Carried(c)'
  BY DEF Carrying
<1>1. /\ UNCHANGED <<covered, lost, state, texts>> /\ ~lost
      /\ covered[c] \in Nat /\ tracker[c] \in Nat
  BY DEF HandlerRow, Frame, Control, Types
<1>2. SetupRow \/ TakeRow \/ RespondRow \/ EndRow \/ TailRow \/ (FinalRow /\ Through)
  BY HandlerGoes
<1>3. CASE SetupRow
  <2>1. rpc = "idle"
    BY <1>3 DEF SetupRow, Control, Phases, At
  <2>2. covered[c] = 0
    BY <2>1, NothingYet DEF Control, Sourced
  <2> QED
    BY <1>1, <2>2 DEF Carried
<1>4. ASSUME TakeRow \/ RespondRow \/ EndRow \/ TailRow \/ (FinalRow /\ Through) PROVE Carried(c)
  <2>1. Batching \/ Through
    BY <1>4 DEF TakeRow, RespondRow, EndRow, TailRow, Batching, At
  <2> QED
    BY <1>1, <2>1 DEF Carrying
<1>5. CASE TakeRow
  <2>1. /\ 1 \in DOMAIN batches /\ batch' = batches[1] /\ UNCHANGED tracker
        /\ \A k \in DOMAIN batches' : k + 1 \in DOMAIN batches /\ batches'[k] = batches[k + 1]
        /\ \A k \in DOMAIN batches : k = 1 \/ \E l \in DOMAIN batches' : batches'[l] = batches[k]
    BY <1>5, Taken DEF TakeRow
  <2>2. hpc = "await_batch"
    BY <1>5 DEF TakeRow
  <2>3. batches[1].tag = "batch" /\ hpc' = "respond"
    <3>1. Head(batches) = batches[1]
      BY <1>5, Popped DEF TakeRow, Control, Types
    <3>2. CASE Head(batches).tag = "batch" /\ Moves("respond")
      BY <3>1, <3>2 DEF Moves
    <3>3. CASE Head(batches).tag = "error" /\ Speaks(1, Err("pipeline"), "final")
      <4>1. Failing' /\ At' = "final"
        BY <3>3, SaysFailure, Tags DEF Speaks, SpeaksOr, At
      <4> QED
        BY <4>1 DEF Batching, Through
    <3> QED
      BY <1>5, <3>2, <3>3 DEF TakeRow
  <2>4. CASE covered[c] = 0
    BY <1>1, <2>4 DEF Carried
  <2>5. CASE \E k \in DOMAIN batches : BatchOf(batches[k], c) /\ batches[k].half = covered[c]
    <3>1. PICK k \in DOMAIN batches : BatchOf(batches[k], c) /\ batches[k].half = covered[c]
      BY <2>5
    <3>2. CASE k = 1
      BY <1>1, <2>1, <2>3, <3>1, <3>2 DEF Carried, BatchOf
    <3>3. CASE k # 1
      <4>1. \E l \in DOMAIN batches' : BatchOf(batches'[l], c) /\ batches'[l].half = covered'[c]
        BY <1>1, <2>1, <3>1, <3>3
      <4> QED
        BY <4>1 DEF Carried, BatchOf
    <3> QED
      BY <3>2, <3>3
  <2>6. CASE tracker[c] = MessageOf(covered[c]) /\ NoneQueued(c)
    <3>1. batch'.choice # c
      BY <2>1, <2>3, <2>6 DEF NoneQueued, BatchOf
    <3>2. \A k \in DOMAIN batches' : ~BatchOf(batches'[k], c)
      BY <2>1, <2>6 DEF NoneQueued
    <3> QED
      BY <1>1, <2>1, <2>6, <3>1, <3>2 DEF Carried, NoneQueued, MessageOf, BatchOf
  <2> QED
    BY <1>4, <1>5, <2>2, <2>4, <2>5, <2>6 DEF Carried
<1>6. CASE RespondRow
  <2>1. /\ hpc = "respond" /\ hpc' # "respond" /\ UNCHANGED batches
        /\ batch.choice \in Choices /\ tracker \in [Choices -> Nat]
        /\ tracker' = [tracker EXCEPT ![batch.choice] = batch.upto]
    BY <1>6 DEF RespondRow, SpeaksOr, Control, Types
  <2>2. IsBacked(batch)
    BY <2>1 DEF Control, Backed
  <2>3. CASE covered[c] = 0
    BY <1>1, <2>3 DEF Carried
  <2>4. CASE \E k \in DOMAIN batches : BatchOf(batches[k], c) /\ batches[k].half = covered[c]
    BY <1>1, <2>1, <2>4 DEF Carried, BatchOf
  <2>5. CASE covered[c] # 0 /\ batch.choice = c /\ batch.half = covered[c]
    <3>1. tracker'[c] = MessageOf(covered[c])
      BY <2>1, <2>2, <2>5 DEF IsBacked
    <3>2. ASSUME NEW k \in DOMAIN batches, BatchOf(batches[k], c) PROVE FALSE
      <4>1. IsBacked(batches[k]) /\ batches[k].choice = c /\ batches[k].half \in Nat
        BY <3>2, Lengths, BatchFields DEF Control, Types, Backed, BatchOf
      <4>2. batches[k].half # 0
        BY <2>5, <4>1 DEF IsBacked, Control, Sourced
      <4>3. batch.half < batches[k].half /\ batches[k].half <= covered[c]
        BY <2>1, <2>5, <3>2, <4>2 DEF Order, Queued, Following, BatchOf
      <4> QED
        BY <1>1, <2>5, <4>1, <4>3
    <3> QED
      BY <1>1, <2>1, <3>1, <3>2 DEF Carried, NoneQueued, MessageOf, BatchOf
  <2>6. CASE tracker[c] = MessageOf(covered[c]) /\ NoneQueued(c)
    <3>1. batch.choice # c
      BY <2>1, <2>6 DEF NoneQueued
    <3>2. tracker'[c] = tracker[c]
      BY <2>1, <3>1
    <3> QED
      BY <1>1, <2>1, <2>6, <3>2 DEF Carried, NoneQueued, MessageOf, BatchOf
  <2> QED
    BY <1>4, <1>6, <2>3, <2>4, <2>5, <2>6 DEF Carried
<1>7. CASE EndRow \/ TailRow \/ (FinalRow /\ Through)
  <2>1. hpc # "respond" /\ hpc' # "respond" /\ UNCHANGED <<batches, tracker>>
    BY <1>7 DEF EndRow, TailRow, FinalRow, Moves, Speaks, SpeaksOr
  <2> QED
    BY <1>1, <1>4, <1>7, <2>1 DEF Carried, NoneQueued, MessageOf, BatchOf
<1> QED
  BY <1>2, <1>3, <1>5, <1>6, <1>7

LEMMA CarryingPipe == ASSUME Control, Carrying, PipeRow, ~HandlerRow PROVE Carrying'
<1> SUFFICES ASSUME ~lost', Batching' \/ Through', NEW c \in Choices PROVE Carried(c)'
  BY DEF Carrying
<1>1. UNCHANGED <<hpc, batch, tracker>> /\ ~lost
  BY DEF PipeRow
<1>2. Carried(c)
  BY <1>1, OthersGo DEF Step, Carrying
<1>3. \A k \in DOMAIN batches : k \in DOMAIN batches' /\ batches'[k] = batches[k]
  BY Grown
<1>4. CASE UNCHANGED batches
  <2>1. UNCHANGED covered
    <3>1. \A b \in Batch : Append(batches, b) # batches
      BY Appended DEF Control, Types
    <3> QED
      BY <1>1, <1>4, <3>1, BatchMembers DEF PipeRow
  <2> QED
    BY <1>1, <1>2, <1>4, <2>1 DEF Carried, NoneQueued, MessageOf, BatchOf
<1>5. CASE ~UNCHANGED batches
  <2>1. PICK b \in Batch :
                /\ Len(batches) + 1 \in DOMAIN batches' /\ batches'[Len(batches) + 1] = b
                /\ \A k \in DOMAIN batches' : k \in DOMAIN batches \/ k = Len(batches) + 1
                /\ \A k \in DOMAIN batches : k < Len(batches) + 1 /\ Len(batches) + 1 \notin DOMAIN batches
                /\ \/ b.tag = "error" /\ UNCHANGED covered
                   \/ /\ b.tag = "batch" /\ b.choice \in Choices
                      /\ \/ b.half = 0 /\ UNCHANGED covered /\ covered[b.choice] = 0
                         \/ /\ covered[b.choice] < b.half /\ covered'[b.choice] = b.half /\ b.half # 0
                            /\ \A d \in Choices \ {b.choice} : covered'[d] = covered[d]
    BY <1>5, Grown
  <2>2. CASE ~BatchOf(b, c)
    <3>1. covered'[c] = covered[c]
      BY <2>1, <2>2 DEF BatchOf
    <3>2. \A k \in DOMAIN batches' : BatchOf(batches'[k], c) => k \in DOMAIN batches
      BY <2>1, <2>2
    <3>3. CASE \E k \in DOMAIN batches : BatchOf(batches[k], c) /\ batches[k].half = covered[c]
      <4>1. \E k \in DOMAIN batches' : BatchOf(batches'[k], c) /\ batches'[k].half = covered'[c]
        BY <1>3, <3>1, <3>3
      <4> QED
        BY <4>1 DEF Carried, BatchOf
    <3>4. CASE tracker[c] = MessageOf(covered[c]) /\ NoneQueued(c)
      <4>1. \A k \in DOMAIN batches' : ~BatchOf(batches'[k], c)
        BY <1>3, <3>2, <3>4 DEF NoneQueued
      <4> QED
        BY <1>1, <3>1, <3>4, <4>1 DEF Carried, NoneQueued, MessageOf, BatchOf
    <3> QED
      BY <1>1, <1>2, <3>1, <3>3, <3>4 DEF Carried
  <2>3. CASE BatchOf(b, c) /\ b.half = 0
    <3>1. covered'[c] = 0
      BY <2>1, <2>3 DEF BatchOf
    <3> QED
      BY <3>1 DEF Carried
  <2>4. CASE BatchOf(b, c) /\ b.half # 0
    <3>1. \E k \in DOMAIN batches' : BatchOf(batches'[k], c) /\ batches'[k].half = covered'[c]
      BY <2>1, <2>4 DEF BatchOf
    <3> QED
      BY <3>1 DEF Carried, BatchOf
  <2> QED
    BY <2>2, <2>3, <2>4
<1> QED
  BY <1>4, <1>5

LEMMA CarryingOthers ==
    ASSUME Control, Carrying, SendRow \/ ReaderSteps \/ ClientRow, ~HandlerRow PROVE Carrying'
<1>1. UNCHANGED <<tracker, covered, batches, lost, batch>>
  BY ReaderFrames DEF SendRow, ClientRow, ReaderFrame
<1>2. (Batching' \/ Through' => Batching \/ Through) /\ (hpc' = "respond" => hpc = "respond")
  BY OthersGo DEF Step
<1>3. hpc = "respond" => hpc' = "respond"
  BY ReaderFrames DEF SendRow, ClientRow, ReaderFrame
<1> QED
  BY <1>1, <1>2, <1>3 DEF Carrying, Carried, NoneQueued, MessageOf, BatchOf

LEMMA CarryingNext == ASSUME Control, Order, Carrying, Step PROVE Carrying'
  BY CarryingHandler, CarryingPipe, CarryingOthers DEF Step

Covering == Flushed /\ Fed /\ Carrying

LEMMA CoveringAlways == Spec => [](Control /\ Order /\ Covering)
<1>1. Init => Covering
  BY DEF Init, Covering, Flushed, Fed, Carrying, Batching, Through, At
<1>2. Control /\ Order /\ Covering /\ [Next]_vars => Covering'
  BY Steps, FlushedNext, FedNext, CarryingNext DEF Covering
<1> QED
  BY <1>1, <1>2, OrderAlways, PTL DEF Spec
-----------------------------------------------------------------------------
(* The completion that is sent as it was received.                         *)

\* Once the batches are done, all text of a choice is behind its tracker.
LEMMA TextBehind ==
    ASSUME Control, Covering, ~lost, At = "tail" \/ Through, NEW c \in Choices, texts[c] # {}, hpc # "respond"
    PROVE  /\ rpc = "closed" /\ tracker[c] # 0 /\ tracker[c] \in Completed(c)
           /\ \A i \in texts[c] : i <= tracker[c]
<1>1. pipe = "closed" /\ batches = <<>> /\ missing # Choices
  BY DEF Covering, Flushed, Control, Sourced
<1>2. rpc = "closed" /\ Uncovered(c) = {} /\ Carried(c)
  BY <1>1 DEF Covering, Flushed, Carrying, Batching
<1>3. ASSUME NEW i \in texts[c] PROVE covered[c] # 0 /\ i <= MessageOf(covered[c])
  <2>1. i \in Nat \ {0} /\ 2 * i \in Halves(c) /\ covered[c] \in Nat /\ 2 * i \notin Uncovered(c)
    BY <1>2, HalfOf
  <2>2. 2 * i <= covered[c]
    BY <2>1, HalfOf
  <2>3. MessageOf(2 * i) = i
    BY <2>1, Halving
  <2>4. 2 * i \in Nat
    BY <2>1
  <2>5. MessageOf(2 * i) <= MessageOf(covered[c])
    BY <2>1, <2>2, <2>4, HalvingMonotone
  <2> QED
    BY <2>1, <2>2, <2>3, <2>5
<1>4. covered[c] # 0 /\ MessageOf(covered[c]) \in texts[c]
  BY <1>3 DEF Control, Sourced
<1>5. tracker[c] = MessageOf(covered[c])
  BY <1>1, <1>2, <1>4 DEF Carried
<1>6. tracker[c] \in 1 .. Len(msgs) /\ tracker[c] \in Completed(c)
  BY <1>4, <1>5 DEF Control, Sourced, Filed
<1> QED
  BY <1>2, <1>3, <1>5, <1>6
-----------------------------------------------------------------------------
\* A completion that is sent, or about to be, as it was received has no text.
Bare(r) == r.tag = "tail" => r.index \in DOMAIN msgs /\ (~lost => ~msgs[r.index].text)

Unchecked ==
    request.chunk => /\ \A i \in DOMAIN responses : Bare(responses[i])
                     /\ \A i \in DOMAIN outbox : Bare(outbox[i])

LEMMA TailIsBare ==
    ASSUME Control, Covering, hpc = "tail", NEW c \in todo, TailDue(c)
    PROVE  Bare(Rest(c))
<1>1. /\ c \in Choices /\ At = "tail" /\ request.chunk /\ tracker[c] # 0 /\ tracker[c] \in Completed(c) /\ c \notin missing
  BY DEF Control, Types, Trackers, Phases, At
<1> DEFINE k == Sets!Max(Completed(c))
<1>2. k \in Completed(c) /\ k \in Nat /\ tracker[c] <= k /\ tracker[c] \in Nat
  BY <1>1, LastCompleted DEF Control, Types
<1>3. k # tracker[c]
  BY DEF TailDue, Completed
<1> HIDE DEF k
<1>4. k \in 1 .. Len(msgs) /\ msgs[k].kind = "choice" /\ msgs[k].choice = c
  BY <1>1, <1>2 DEF Control, Filed
<1>5. k \in DOMAIN msgs
  BY <1>4, Lengths DEF Control, Types
<1>6. ASSUME ~lost, msgs[k].text PROVE FALSE
  <2>1. pipe = "closed" /\ missing # Choices
    BY <1>1 DEF Covering, Flushed
  <2>2. rpc = "closed"
    BY <2>1 DEF Covering, Flushed
  <2>3. k \in texts[c]
    BY <1>1, <1>4, <1>5, <1>6, <2>2 DEF Covering, Fed
  <2>4. k <= tracker[c]
    BY <1>1, <1>6, <2>3, TextBehind
  <2> QED
    BY <1>2, <1>3, <2>4
<1>7. Rest(c).index = k
  BY Tags DEF Rest, k
<1> QED
  BY <1>5, <1>6, <1>7 DEF Bare

LEMMA UncheckedNext == ASSUME Control, Covering, Unchecked, Step PROVE Unchecked'
<1>1. responses \in Seq(Response) /\ outbox \in Seq(Response) /\ lost \in BOOLEAN /\ msgs \in Seq(Message)
  BY DEF Control, Types
<1>2. CASE HandlerRow
  <2>1. UNCHANGED <<request, responses, msgs, lost>>
    BY <1>2 DEF HandlerRow, Frame
  <2>2. CASE RespondRow
    <3>1. \A i \in DOMAIN outbox' : outbox'[i].tag # "tail"
      BY <2>2, Tags DEF RespondRow, SpeaksOr, Answer
    <3> QED
      BY <2>1, <3>1 DEF Unchecked, Bare
  <2>3. CASE TailRow
    <3>1. CASE outbox' = <<>>
      BY <2>1, <3>1 DEF Unchecked, Bare
    <3>2. CASE outbox' # <<>>
      <4>1. PICK c \in todo : TailDue(c) /\ SpeaksOr(1, Rest(c), "tail", "final")
        BY <2>3, <3>2 DEF TailRow, Moves
      <4>2. Bare(Rest(c))
        BY <2>3, <4>1, TailIsBare DEF TailRow
      <4>3. \A i \in DOMAIN outbox' : outbox'[i] = Rest(c)
        BY <4>1 DEF SpeaksOr
      <4> HIDE DEF Rest
      <4> QED
        BY <2>1, <4>2, <4>3 DEF Unchecked, Bare
    <3> QED
      BY <3>1, <3>2
  <2>4. CASE ~RespondRow /\ ~TailRow
    <3>1. \A i \in DOMAIN outbox' : outbox'[i].tag # "tail"
      <4>1. ASSUME NEW n \in {1, 2}, NEW a, a.tag # "tail", NEW h, Speaks(n, a, h)
            PROVE  \A i \in DOMAIN outbox' : outbox'[i].tag # "tail"
        BY <4>1, Tags DEF Speaks, SpeaksOr
      <4>2. ASSUME NEW h, Moves(h) PROVE \A i \in DOMAIN outbox' : outbox'[i].tag # "tail"
        BY <4>2 DEF Moves
      <4>3. CASE EarlyRow \/ SetupRow \/ TakeRow \/ LookupRow \/ EndRow
        BY <4>1, <4>2, <4>3, Tags DEF EarlyRow, SetupRow, TakeRow, LookupRow, EndRow
      <4>4. CASE RefuseRow
        <5>1. PICK a \in {[tag |-> "input"], Err("call")} : Speaks(2, a, "stopped")
          BY <4>4 DEF RefuseRow
        <5>2. a.tag # "tail"
          BY <5>1, Tags
        <5> QED
          BY <4>1, <5>1, <5>2
      <4>5. CASE FinalRow
        BY <4>1, <4>2, <4>5, Tags DEF FinalRow
      <4> QED
        BY <1>2, <2>4, <4>3, <4>4, <4>5 DEF HandlerRow
    <3> QED
      BY <2>1, <3>1 DEF Unchecked, Bare
  <2> QED
    BY <2>2, <2>3, <2>4
<1>3. CASE SendRow
  <2>1. /\ UNCHANGED <<request, msgs, lost>> /\ outbox[1] \in Response /\ 1 \in DOMAIN outbox
        /\ responses' = IF gone THEN responses ELSE Append(responses, outbox[1])
        /\ \A i \in DOMAIN outbox' : outbox'[i] = None
    BY <1>1, <1>3, Lengths DEF SendRow
  <2>2. \A i \in DOMAIN responses' : \/ i \in DOMAIN responses /\ responses'[i] = responses[i]
                                     \/ responses'[i] = outbox[1]
    BY <1>1, <2>1, Putting
  <2>3. \A i \in DOMAIN outbox' : outbox'[i].tag # "tail"
    BY <2>1, Tags
  <2> QED
    BY <2>1, <2>2, <2>3 DEF Unchecked, Bare
<1>4. CASE ReaderSteps
  <2>1. UNCHANGED <<request, outbox, lost>>
    BY <1>4, ReaderFrames DEF ReaderFrame
  <2>2. \A i \in DOMAIN msgs : i \in DOMAIN msgs' /\ msgs'[i] = msgs[i]
    <3>1. CASE \E m \in NextMessage : ReaderNext(m)
      <4>1. PICK m \in Message : msgs' = Append(msgs, m)
        BY <3>1 DEF NextMessage, ReaderNext
      <4> QED
        BY <1>1, <4>1, Appended
    <3>2. CASE ~\E m \in NextMessage : ReaderNext(m)
      BY <1>4, <3>2 DEF ReaderSteps, ReaderForward, ReaderRecord, ReaderSendInput, ReaderEnd
    <3> QED
      BY <3>1, <3>2
  <2>3. \A i \in DOMAIN responses' : \/ i \in DOMAIN responses /\ responses'[i] = responses[i]
                                     \/ responses'[i].tag # "tail"
    BY <1>1, <1>4, ReaderPuts, Putting, Tags
  <2> QED
    BY <2>1, <2>2, <2>3 DEF Unchecked, Bare
<1>5. CASE PipeRow
  <2>1. UNCHANGED <<request, outbox, responses, msgs>> /\ (lost => lost')
    BY <1>1, <1>5 DEF PipeRow
  <2> QED
    BY <2>1 DEF Unchecked, Bare
<1>6. CASE ClientRow
  BY <1>6 DEF ClientRow, Unchecked, Bare
<1> QED
  BY <1>2, <1>3, <1>4, <1>5, <1>6 DEF Step

\* NoUncheckedText: as long as no batch is lost, the last completion of a choice is only
\* sent as it was received when it has no text, so that text reaches the client in
\* no message but that of a chunk: the tracker has then come to the end of all text.
THEOREM NoUncheckedTextAlways == Spec => []NoUncheckedText
<1>1. Init => Unchecked
  BY DEF Init, Unchecked
<1>2. Control /\ Order /\ Covering /\ Unchecked /\ [Next]_vars => Unchecked'
  BY Steps, UncheckedNext
<1>3. Unchecked => NoUncheckedText
  BY DEF Unchecked, Bare, NoUncheckedText
<1> QED
  BY <1>1, <1>2, <1>3, CoveringAlways, PTL DEF Spec
-----------------------------------------------------------------------------
(* The finish reason of a choice with text.                                *)

\* Every message of a choice is filed, and its finish reason comes with the last one.
Recorded ==
    /\ request.chunk => \A i \in DOMAIN msgs :
          msgs[i].kind = "choice" => i \in Completed(msgs[i].choice) \/ (i = Len(msgs) /\ rpc = "record")
    /\ \A i, j \in DOMAIN msgs :
          i < j /\ msgs[i].kind = "choice" /\ msgs[j].kind = "choice" /\ msgs[i].choice = msgs[j].choice
              => ~msgs[i].finish

\* r is sent, or about to be.
Heard(r) == (\E i \in DOMAIN responses : responses[i] = r) \/ \E i \in DOMAIN outbox : outbox[i] = r

\* The flush has passed choice c.
Past(c) == (At = "tail" /\ c \notin todo) \/ Through

\* What the client was told of a choice: the completion the tracker holds, in a
\* chunk, and after the flush the last one.
Told(c) ==
    tracker[c] # 0 =>
        /\ \E r \in Response : /\ r.tag = "chunk" /\ r.choice = c /\ r.finish = msgs[tracker[c]].finish
                               /\ Heard(r)
        /\ Past(c) /\ TailDue(c) => Heard(Rest(c))

Telling == ~Failing => \A c \in Choices : Told(c)

LEMMA RecordedNext == ASSUME Control, Recorded, Step PROVE Recorded'
<1>1. msgs \in Seq(Message) /\ Len(msgs) \in Nat /\ DOMAIN msgs = 1 .. Len(msgs)
  BY Lengths DEF Control, Types
<1>2. CASE HandlerRow
  <2>1. UNCHANGED <<request, msgs, state>> /\ (UNCHANGED rpc \/ rpc = "idle")
    BY <1>2 DEF HandlerRow, Frame, EarlyRow, RefuseRow, SetupRow, TakeRow, RespondRow, LookupRow, EndRow, TailRow,
                FinalRow, Control, Phases, At
  <2>2. rpc = "idle" => \A i \in DOMAIN msgs : FALSE
    BY DEF Control, Reading
  <2> QED
    BY <2>1, <2>2 DEF Recorded, Completed
<1>3. CASE SendRow \/ PipeRow \/ ClientRow
  BY <1>3 DEF SendRow, PipeRow, ClientRow, Recorded, Completed
<1>4. CASE ReaderSteps
  <2>1. UNCHANGED request
    BY <1>4, ReaderFrames DEF ReaderFrame
  <2>2. CASE \E m \in NextMessage : ReaderNext(m)
    <3>1. PICK m \in NextMessage : ReaderNext(m)
      BY <2>2
    <3>2. m \in Message /\ (m.kind = "choice" => m.choice \in Unfinished)
      BY <3>1 DEF NextMessage
    <3>3. rpc = "next" /\ (request.chunk => rpc' = "record") /\ msgs' = Append(msgs, m) /\ UNCHANGED state
      BY <3>1 DEF ReaderNext
    <3>4. /\ Len(msgs') = Len(msgs) + 1 /\ DOMAIN msgs' = 1 .. Len(msgs) + 1 /\ msgs'[Len(msgs) + 1] = m
          /\ \A i \in 1 .. Len(msgs) : msgs'[i] = msgs[i]
      BY <1>1, <3>2, <3>3, Appended
    <3>5. \A i \in DOMAIN msgs' : (i \in DOMAIN msgs /\ msgs'[i] = msgs[i]) \/ (i = Len(msgs') /\ msgs'[i] = m)
      BY <1>1, <3>4
    <3>6. ASSUME NEW i \in DOMAIN msgs', NEW j \in DOMAIN msgs', i < j, msgs'[i].kind = "choice",
                 msgs'[j].kind = "choice", msgs'[i].choice = msgs'[j].choice
          PROVE  ~msgs'[i].finish
      <4>1. i \in DOMAIN msgs /\ msgs'[i] = msgs[i]
        BY <1>1, <3>4, <3>6
      <4>2. CASE j \in DOMAIN msgs /\ msgs'[j] = msgs[j]
        BY <3>6, <4>1, <4>2 DEF Recorded
      <4>3. CASE msgs'[j] = m
        BY <3>2, <3>6, <4>1, <4>3 DEF Unfinished, HasFinished
      <4> QED
        BY <3>5, <4>2, <4>3
    <3>7. request.chunk => \A i \in DOMAIN msgs' : msgs'[i].kind = "choice" =>
             i \in state'.completions[msgs'[i].choice] \/ (i = Len(msgs') /\ rpc' = "record")
      BY <3>3, <3>5 DEF Recorded, Completed
    <3> QED
      BY <2>1, <3>6, <3>7 DEF Recorded, Completed
  <2>3. CASE ReaderRecord
    <3>1. RecordRow
      BY <2>3, RecordRows
    <3>2. /\ UNCHANGED msgs /\ state.completions \in [Choices -> SUBSET Nat] /\ rpc = "record" /\ Len(msgs) > 0
          /\ \A i \in DOMAIN msgs : msgs[i].kind = "choice" => msgs[i].choice \in Choices
      BY <1>1, <3>1, Lengths, MessageFields DEF RecordRow, Control, Types, Reading
    <3>3. Current.kind = "choice" => Current.choice \in Choices
      BY <1>1, <3>2 DEF Current
    <3>4. /\ \A c \in Choices : Completed(c) \subseteq state'.completions[c]
          /\ request.chunk /\ Current.kind = "choice" => Len(msgs) \in state'.completions[Current.choice]
      BY <3>1, <3>2, <3>3 DEF RecordRow, KeepsState, Completed
    <3>5. request.chunk => \A i \in DOMAIN msgs : msgs[i].kind = "choice" => i \in state'.completions[msgs[i].choice]
      BY <3>2, <3>4 DEF Recorded, Current
    <3> QED
      BY <2>1, <3>2, <3>5 DEF Recorded, Completed
  <2>4. CASE ReaderForward \/ ReaderSendInput \/ ReaderEnd
    <3>1. UNCHANGED <<msgs, state>> /\ rpc # "record"
      BY <2>4 DEF ReaderForward, ReaderSendInput, ReaderEnd
    <3> QED
      BY <2>1, <3>1 DEF Recorded, Completed
  <2> QED
    BY <1>4, <2>2, <2>3, <2>4 DEF ReaderSteps
<1> QED
  BY <1>2, <1>3, <1>4 DEF Step

\* What is in the outbox is sent as long as the client is there.
LEMMA HeardStays ==
    ASSUME Control, Step, ~Failing', NEW r, Heard(r)
    PROVE  Heard(r)'
<1>1. responses \in Seq(Response) /\ outbox \in Seq(Response) /\ ~gone
  BY FailingStays DEF Control, Types, Failing
<1>2. CASE HandlerRow
  BY <1>2 DEF HandlerRow, Frame, Heard
<1>3. CASE SendRow
  <2>1. /\ outbox[1] \in Response /\ responses' = Append(responses, outbox[1])
        /\ \A i \in DOMAIN outbox : i = 1 \/ (outbox[i] = None /\ 1 \in DOMAIN outbox' /\ outbox'[1] = None)
    BY <1>1, <1>3, Lengths DEF SendRow
  <2>2. /\ \A i \in DOMAIN responses : i \in DOMAIN responses' /\ responses'[i] = responses[i]
        /\ Len(responses) + 1 \in DOMAIN responses' /\ responses'[Len(responses) + 1] = outbox[1]
    BY <1>1, <2>1, Appended
  <2> QED
    BY <2>1, <2>2 DEF Heard
<1>4. CASE ReaderSteps
  <2>1. UNCHANGED outbox
    BY <1>4, ReaderFrames DEF ReaderFrame
  <2>2. \A i \in DOMAIN responses : i \in DOMAIN responses' /\ responses'[i] = responses[i]
    BY <1>1, <1>4, ReaderPuts, Putting
  <2> QED
    BY <2>1, <2>2 DEF Heard
<1>5. CASE PipeRow \/ ClientRow
  BY <1>5 DEF PipeRow, ClientRow, Heard
<1> QED
  BY <1>2, <1>3, <1>4, <1>5 DEF Step

LEMMA TellingNext == ASSUME Control, Covering, Telling, Step PROVE Telling'
<1> SUFFICES ASSUME ~Failing', NEW c \in Choices, tracker'[c] # 0 PROVE Told(c)'
  BY DEF Telling, Told
<1>1. ~Failing /\ Told(c)
  BY FailingStays DEF Telling
<1>2. SUFFICES /\ \E r \in Response : /\ r.tag = "chunk" /\ r.choice = c /\ r.finish = msgs'[tracker'[c]].finish
                                      /\ Heard(r)'
               /\ Past(c)' /\ TailDue(c)' => Heard(Rest(c))'
  BY <1>2 DEF Told, Heard
<1>3. ASSUME UNCHANGED tracker, UNCHANGED msgs
      PROVE  \E r \in Response : /\ r.tag = "chunk" /\ r.choice = c /\ r.finish = msgs'[tracker'[c]].finish
                                 /\ Heard(r)'
  <2>1. PICK r \in Response : r.tag = "chunk" /\ r.choice = c /\ r.finish = msgs[tracker[c]].finish /\ Heard(r)
    BY <1>1, <1>3 DEF Told
  <2> QED
    BY <1>3, <2>1, HeardStays
<1>4. ASSUME UNCHANGED <<tracker, state>>, Past(c), TailDue(c)'
      PROVE  Heard(Rest(c))'
  <2>1. TailDue(c) /\ tracker[c] # 0
    BY <1>4 DEF TailDue
  <2>2. Heard(Rest(c))
    BY <1>1, <1>4, <2>1 DEF Told
  <2>r. PICK r : r = Rest(c)
    OBVIOUS
  <2>3. Rest(c)' = r
    BY <1>4, <2>r DEF Rest, Completed
  <2>4. Heard(r)'
    BY <2>2, <2>r, HeardStays
  <2> QED
    BY <2>3, <2>4 DEF Heard
<1>5. CASE HandlerRow
  <2>1. UNCHANGED <<request, msgs, state, responses>>
    BY <1>5 DEF HandlerRow, Frame
  <2>2. CASE RespondRow
    <3>1. ~Past(c)'
      BY <2>2 DEF RespondRow, SpeaksOr, Past, Through, At
    <3>2. CASE batch.choice = c
      <4>1. tracker'[c] = batch.upto
        BY <2>2, <3>2 DEF RespondRow, Control, Types
      <4>r. PICK r : r = Answer(batch.upto)
        OBVIOUS
      <4>2. r \in Response /\ r.tag = "chunk" /\ r.choice = c /\ r.finish = msgs'[tracker'[c]].finish
        BY <2>1, <2>2, <3>2, <4>1, <4>r, Tags DEF RespondRow, Answer
      <4>3. SpeaksOr(1, r, "await_batch", "final")
        BY <2>2, <4>r DEF RespondRow
      <4>4. Heard(r)'
        BY <4>3 DEF SpeaksOr, Heard
      <4> QED
        BY <3>1, <4>2, <4>4
    <3>3. CASE batch.choice # c
      <4>1. tracker'[c] = tracker[c]
        BY <2>2, <3>3 DEF RespondRow, Control, Types
      <4>2. PICK r \in Response : r.tag = "chunk" /\ r.choice = c /\ r.finish = msgs[tracker[c]].finish /\ Heard(r)
        BY <1>1, <4>1 DEF Told
      <4> QED
        BY <2>1, <3>1, <4>1, <4>2, HeardStays
    <3> QED
      BY <3>2, <3>3
  <2>3. CASE ~RespondRow
    <3>1. UNCHANGED tracker
      BY <1>5, <2>3 DEF HandlerRow, EarlyRow, RefuseRow, SetupRow, TakeRow, LookupRow, EndRow, TailRow, FinalRow
    <3>2. ASSUME Past(c)', TailDue(c)' PROVE Heard(Rest(c))'
      <4>1. EndRow \/ TailRow \/ (FinalRow /\ Through)
        BY <1>5, <3>2, HandlerGoes DEF Past
      <4>2. CASE EndRow
        <5>1. c \in todo' /\ At' = "tail"
          BY <3>1, <4>2 DEF EndRow, Moves, At
        <5> QED
          BY <3>2, <5>1 DEF Past, Through
      <4>3. CASE TailRow
        <5>1. At = "tail"
          BY <4>3 DEF TailRow, At
        <5>2. CASE c \notin todo
          BY <1>4, <2>1, <3>1, <3>2, <5>1, <5>2 DEF Past
        <5>3. CASE c \in todo
          <6>1. PICK d \in todo : /\ todo' = todo \ {d}
                                  /\ \/ TailDue(d) /\ Rest(d) \in Response /\ SpeaksOr(1, Rest(d), "tail", "final")
                                     \/ ~TailDue(d) /\ Moves("tail")
            BY <4>3, <5>3 DEF TailRow
          <6>2. At' = "tail"
            BY <6>1 DEF SpeaksOr, Moves, At
          <6>3. c = d
            BY <3>2, <5>3, <6>1, <6>2 DEF Past, Through
          <6>4. TailDue(c)
            BY <2>1, <3>1, <3>2 DEF TailDue
          <6> DEFINE r == Rest(c)
          <6>5. SpeaksOr(1, r, "tail", "final")
            BY <6>1, <6>3, <6>4
          <6>6. Rest(c)' = r
            BY <2>1 DEF Rest, Completed
          <6> HIDE DEF r
          <6> QED
            BY <6>5, <6>6 DEF SpeaksOr, Heard
        <5> QED
          BY <5>2, <5>3
      <4>4. CASE FinalRow /\ Through
        BY <1>4, <2>1, <3>1, <3>2, <4>4 DEF Past
      <4> QED
        BY <4>1, <4>2, <4>3, <4>4
    <3> QED
      BY <1>3, <2>1, <3>1, <3>2
  <2> QED
    BY <2>2, <2>3
<1>6. CASE (SendRow \/ PipeRow \/ ClientRow) /\ ~HandlerRow
  <2>1. UNCHANGED <<tracker, msgs, state, todo>>
    BY <1>6 DEF SendRow, PipeRow, ClientRow
  <2>2. Past(c)' => Past(c)
    BY <1>6, <2>1, OthersGo DEF Past
  <2> QED
    BY <1>3, <1>4, <2>1, <2>2
<1>7. CASE ReaderSteps /\ ~HandlerRow
  <2>1. UNCHANGED <<tracker, hpc, cont, todo>> /\ rpc # "closed"
    BY <1>7, ReaderFrames DEF ReaderFrame, ReaderSteps, ReaderNext, ReaderForward, ReaderRecord, ReaderSendInput, ReaderEnd
  <2>2. c \notin missing /\ tracker[c] \in Completed(c)
    BY <2>1 DEF Control, Trackers
  <2>3. ~Past(c)'
    <3>1. Past(c)' => At = "tail" \/ Through
      BY <1>7, OthersGo DEF Past
    <3> QED
      BY <2>1, <2>2, <3>1 DEF Covering, Flushed
  <2>4. msgs'[tracker[c]] = msgs[tracker[c]]
    <3>1. tracker[c] \in 1 .. Len(msgs) /\ msgs \in Seq(Message)
      BY <2>2 DEF Control, Filed, Types
    <3>2. CASE \E m \in NextMessage : ReaderNext(m)
      <4>1. PICK m \in Message : msgs' = Append(msgs, m)
        BY <3>2 DEF NextMessage, ReaderNext
      <4> QED
        BY <3>1, <4>1, Appended
    <3>3. CASE ~\E m \in NextMessage : ReaderNext(m)
      BY <1>7, <3>3 DEF ReaderSteps, ReaderForward, ReaderRecord, ReaderSendInput, ReaderEnd
    <3> QED
      BY <3>2, <3>3
  <2>5. PICK r \in Response : r.tag = "chunk" /\ r.choice = c /\ r.finish = msgs[tracker[c]].finish /\ Heard(r)
    BY <1>1, <2>1 DEF Told
  <2> QED
    BY <2>1, <2>3, <2>4, <2>5, HeardStays
<1> QED
  BY <1>5, <1>6, <1>7 DEF Step

\* FinishReasonSent: a request that comes to its end without an error, without losing a
\* batch and with its client there has told the finish reason of every choice with
\* text that the LLM has finished, in the chunk that ends with its last completion or,
\* when that one has no text of its own, in the completion sent after the batches.
THEOREM FinishReasonSentAlways == Spec => []FinishReasonSent
<1>1. Init => Recorded /\ Telling
  BY DEF Init, Recorded, Telling, Told
<1>2. Control /\ Order /\ Covering /\ Recorded /\ Telling /\ [Next]_vars => (Recorded /\ Telling)'
  BY Steps, RecordedNext, TellingNext
<1>3. ASSUME Control, Covering, Recorded, Telling PROVE FinishReasonSent
  <2> SUFFICES ASSUME RanToEnd, NEW c \in Choices, texts[c] # {}, HasFinished(c)
               PROVE  \E i \in DOMAIN responses :
                          \/ responses[i].tag = "chunk" /\ responses[i].choice = c /\ responses[i].finish
                          \/ /\ responses[i].tag = "tail" /\ responses[i].choice = c
                             /\ msgs[responses[i].index].finish
    BY DEF FinishReasonSent
  <2>1. hpc = "stopped" /\ request.chunk /\ ~lost /\ outbox = <<>>
    BY <1>3, NotSending DEF RanToEnd, Control
  <2>2. ~Failing /\ Through
    BY <2>1 DEF RanToEnd, Failing, Sent, Through, At
  <2>3. rpc = "closed" /\ tracker[c] # 0 /\ tracker[c] \in Completed(c)
    BY <1>3, <2>1, <2>2, TextBehind
  <2>4. PICK j \in DOMAIN msgs : msgs[j].kind = "choice" /\ msgs[j].choice = c /\ msgs[j].finish
    BY DEF HasFinished
  <2> DEFINE k == Sets!Max(Completed(c))
  <2>5. j \in Completed(c)
    BY <1>3, <2>1, <2>3, <2>4 DEF Recorded
  <2>6. k \in Completed(c) /\ k \in Nat /\ j <= k
    BY <1>3, <2>5, LastCompleted DEF Control
  <2> HIDE DEF k
  <2>7. k \in DOMAIN msgs /\ msgs[k].kind = "choice" /\ msgs[k].choice = c /\ j \in Nat
    <3>1. k \in 1 .. Len(msgs) /\ msgs[k].kind = "choice" /\ msgs[k].choice = c
      BY <1>3, <2>6 DEF Control, Filed
    <3> QED
      BY <1>3, <3>1, Lengths DEF Control, Types
  <2>8. j = k
    <3>1. ~(j < k)
      BY <1>3, <2>4, <2>7 DEF Recorded
    <3> QED
      BY <2>6, <2>7, <3>1
  <2>9. Told(c)
    BY <1>3, <2>2 DEF Telling
  <2>10. CASE TailDue(c)
    <3>1. Heard(Rest(c))
      BY <2>2, <2>3, <2>9, <2>10 DEF Told, Past
    <3>2. PICK i \in DOMAIN responses : responses[i] = Rest(c)
      BY <2>1, <3>1 DEF Heard
    <3>3. responses[i].tag = "tail" /\ responses[i].choice = c /\ responses[i].index = k
      BY <3>2, Tags DEF Rest, k
    <3> QED
      BY <2>4, <2>8, <3>3
  <2>11. CASE ~TailDue(c)
    <3>1. tracker[c] = j
      BY <2>8, <2>11 DEF TailDue, Completed, k
    <3>2. PICK r \in Response : r.tag = "chunk" /\ r.choice = c /\ r.finish = msgs[tracker[c]].finish /\ Heard(r)
      BY <2>3, <2>9 DEF Told
    <3>3. PICK i \in DOMAIN responses : responses[i] = r
      BY <2>1, <3>2 DEF Heard
    <3> QED
      BY <2>4, <3>1, <3>2, <3>3
  <2> QED
    BY <2>10, <2>11
<1> QED
  BY <1>1, <1>2, <1>3, CoveringAlways, PTL DEF Spec
=============================================================================
