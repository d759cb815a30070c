--------------------------- MODULE MCUnaryHandlers ---------------------------
EXTENDS UnaryHandlers

\* Detectors with two chunkers and the whole document, and one of each other type.
MCType == [c1 |-> "contents", c2 |-> "contents", w |-> "contents", g |-> "generation", h |-> "chat", x |-> "context"]
MCChunker == [c1 |-> "sentence", c2 |-> "sentence", w |-> "whole_doc_chunker",
              g |-> "whole_doc_chunker", h |-> "whole_doc_chunker", x |-> "whole_doc_chunker"]
MCDefault == [d \in DOMAIN MCType |-> 2]
\* Characters 1 to 4 are those of the prompt, 5 and 6 those of the LLM.
MCScore == [c1 |-> <<0, 3, 1, 2, 2, 0>>, c2 |-> <<1, 0, 0, 2, 1, 1>>, w |-> <<0, 2, 0, 0, 0, 3>>,
            g |-> <<0, 2, 1, 0, 2, 0>>, h |-> <<2, 0, 0, 0, 0, 2>>, x |-> <<0, 0, 2, 1, 0, 0>>]
Text(c) == [content |-> "text", text |-> c]
MCReplies == {<<Text(<<5, 6>>)>>, <<Text(<<6, 5>>), Text(<<5>>)>>, <<[content |-> "blank", text |-> <<>>], Text(<<6>>)>>,
              <<[content |-> "image", text |-> <<>>]>>}

NoDetectors == [d \in {} |-> 0]
All(D) == [d \in D |-> NoThreshold]
Base == [endpoint |-> "content", model |-> TRUE, text |-> <<1, 2, 3, 4>>, bytes |-> 6, masks |-> <<>>,
         content |-> "text", role |-> "user", other |-> TRUE, input |-> NoDetectors, output |-> All({"c1", "w"})]
Masked == [Base EXCEPT !.endpoint = "classification", !.masks = <<<<3, 5>>, <<0, 2>>>>,
                       !.input = All({"c1", "c2"}), !.output = All({"c1"})]
Prompt == [Base EXCEPT !.endpoint = "completions", !.text = <<1, 3>>, !.input = All({"c1", "c2"}), !.output = All({"c1", "g"})]
ChatC == [Prompt EXCEPT !.endpoint = "chat_completions", !.output = All({"c1", "w", "h"})]
MCRequests == {
    Base, [Base EXCEPT !.text = <<>>], [Base EXCEPT !.output["c1"] = 3],
    [Base EXCEPT !.output = [c1 |-> NotANumber]], [Base EXCEPT !.output = All({"c1", "unknown", "g"})],
    [Base EXCEPT !.endpoint = "generated", !.text = <<2, 1, 2>>, !.output = All({"g"})],
    [Base EXCEPT !.endpoint = "generated", !.other = FALSE],
    [Base EXCEPT !.endpoint = "context", !.output = All({"x"})],
    [Base EXCEPT !.endpoint = "chat", !.output = All({"h"})],
    [Base EXCEPT !.endpoint = "chat", !.output = All({"h"}), !.content = "image parts"],
    [Base EXCEPT !.endpoint = "generation", !.output = All({"g"})],
    Masked, [Masked EXCEPT !.masks[1] = <<5, 7>>], [Masked EXCEPT !.masks = <<<<4, 6>>, <<1, 3>>, <<2, 4>>>>, !.input = All({"c1"})],
    Prompt, [Prompt EXCEPT !.input = [c1 |-> 1]],
    ChatC, [ChatC EXCEPT !.role = "tool"], [ChatC EXCEPT !.content = "none", !.text = <<>>],
    [ChatC EXCEPT !.input = NoDetectors, !.output = NoDetectors]}
=============================================================================
