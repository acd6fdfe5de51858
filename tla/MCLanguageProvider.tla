------------------------ MODULE MCLanguageProvider ------------------------
(* Instances of LanguageProvider: five instructions of which two make one  *)
(* prompt, and one prompt whose padding is on the left.                    *)
EXTENDS LanguageProvider, TLC

MCInstructions == {"open", "open it", "close", "lift", "left"}

MCPromptOf ==
  [i \in MCInstructions |-> IF i = "open it" THEN "open" ELSE i]

MCMaskOf ==
  [p \in {MCPromptOf[i] : i \in MCInstructions} |->
     CASE p = "open" -> <<1, 1, 0>> [] p = "close" -> <<1, 1, 1>>
       [] p = "lift" -> <<1, 0, 0>> [] p = "left" -> <<0, 1, 1>>]

MCCapacities == {-1, 0, 1, 2}

Interchangeable == Permutations(Callers)
=============================================================================
