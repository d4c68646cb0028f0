----------------------------- MODULE NameStack -----------------------------
(***************************************************************************)
(* What the two string stacks of clang-db promise.  DatabaseContext keeps  *)
(* the scope text of the declaration it is in (WholeName and NameSizes),   *)
(* Retriever keeps the text of the path it has descended (Buffer and       *)
(* Offsets).  Both store one string and a vector of lengths; both stand    *)
(* for a stack of whole texts, of which text is the top: entering a level  *)
(* extends the text, leaving it brings back the text that was there when   *)
(* the level was entered.                                                  *)
(***************************************************************************)
EXTENDS Naturals, Sequences, SequencesExt

VARIABLES stack, text

Init == stack \in {<< >>, << << >> >>} /\ text = << >>

Enter ==
  /\ IsPrefix(text, text')
  /\ stack' = Append(stack, text')

(* Not from the outermost level.                                           *)
Leave ==
  /\ Len(stack) > 1
  /\ stack' = Front(stack)
  /\ text' = Last(Front(stack))

(* Starting over.                                                          *)
Clear ==
  /\ stack' \in {<< >>, << << >> >>}
  /\ text' = << >>

Next == Enter \/ Leave \/ Clear

Spec == Init /\ [][Next]_<< stack, text >>
=============================================================================
