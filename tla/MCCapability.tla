---------------------------- MODULE MCCapability ----------------------------
(* One model whose evidence moves, two leaderboards, three of the dimensions *)
(* they and the tool feed: the locks and the recomputations of different     *)
(* models touch nothing in common. It is recommended beside three others:    *)
(* the first dearer and no better, the second cheaper and known for its tool *)
(* use, the third without any score.                                         *)
EXTENDS Recommend

CONSTANT m1

MCDimensions == {"coding", "agentic", "tool_use"}

MCWeights ==
  [coding   |-> [swebench |-> 1, livecodebench |-> 1],
   agentic  |-> [swebench |-> 1, bfcl |-> 1],
   tool_use |-> [bfcl |-> 1]]

MCBoards ==
  [swebench |-> { {[model |-> m1, score |-> 1, date |-> 0, name |-> 1]},
                  {[model |-> m1, score |-> 2, date |-> 0, name |-> 1], [model |-> m1, score |-> 1, date |-> 1, name |-> 2],
                   [model |-> NoModel, score |-> 2, date |-> 0, name |-> 1]} },
   livecodebench |-> { {[model |-> m1, score |-> 1, count |-> 1, name |-> 1], [model |-> m1, score |-> 2, count |-> 1, name |-> 2]} }]

MCManual == {[model |-> m1, bench |-> "bfcl", score |-> 2, conf |-> 1, date |-> 0]}

Row(sum, weight, count) == [sum |-> sum, weight |-> weight, conf |-> 0, count |-> count, stale |-> FALSE]

MCRivals ==
  [dearer |-> [coding |-> Row(1, 1, 1), agentic |-> Row(1, 1, 1)],
   tools  |-> [coding |-> Row(1, 2, 2), agentic |-> Row(1, 1, 1), tool_use |-> Row(2, 1, 1)],
   blank  |-> <<>>]

Offer(price, confirmed, context, modality) ==
  [price |-> price, confirmed |-> confirmed, context |-> context, modality |-> modality]

MCCatalog ==
  (m1 :> Offer(2, 1, 8, "text")) @@ ("dearer" :> Offer(3, 2, 8, "text")) @@
  ("tools" :> Offer(1, 1, 8, "text")) @@ ("blank" :> Offer(1, 2, 4, "multimodal"))

MCPrimary == [coding |-> {"coding", "reasoning"}, agentic |-> {"agentic", "tool_use", "reasoning"}]

MCModality == [coding |-> "text", agentic |-> Unset]

Wish(useCase, priority, tools, topK) ==
  [useCase |-> useCase, priority |-> priority, tools |-> tools, structured |-> FALSE, topK |-> topK,
   context |-> 0, maxPrice |-> Unset, modality |-> Unset]

MCWishes ==
  {Wish("coding", "balanced", FALSE, 2), Wish("agentic", "quality", FALSE, 2),
   Wish("coding", "cost", TRUE, 1),
   [Wish("agentic", "speed", TRUE, 2) EXCEPT !.structured = TRUE],
   [Wish("coding", "balanced", FALSE, 1) EXCEPT !.context = 8, !.maxPrice = 2, !.modality = "text"]}
=============================================================================
