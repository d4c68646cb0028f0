-------------------------------- MODULE Texts --------------------------------
(***************************************************************************)
(* Characters and texts, and putting texts together.                       *)
(***************************************************************************)
EXTENDS Naturals, Sequences, SequencesExt

CONSTANT Char     \* strings of length one

DigitSeq == << "0", "1", "2", "3", "4", "5", "6", "7", "8", "9" >>
Digit    == {DigitSeq[i] : i \in 1..10}
Text     == Seq(Char)
Underscore == "_"

ASSUME CharAssumption == Digit \subseteq Char

(* One after the other.                                                    *)
Concat(texts) == FlattenSeq(texts)

(* std::to_string.                                                         *)
Decimal10[n \in Nat] ==
  (IF n < 10 THEN << >> ELSE Decimal10[n \div 10]) \o << DigitSeq[(n % 10) + 1] >>

(* int() of digits.                                                        *)
Number(digits) ==
  LET N[i \in 0..Len(digits)] ==
        IF i = 0 THEN 0
        ELSE 10 * N[i - 1] + ((CHOOSE d \in 1..10 : DigitSeq[d] = digits[i]) - 1)
  IN  N[Len(digits)]
=============================================================================
