----------------------------- MODULE StringStack -----------------------------
(***************************************************************************)
(* struct StringStack (bin/retrieve.cc): one string and the lengths it has *)
(* had.  Its methods are functions from one value to the next, so that a   *)
(* handler that calls several of them is one action.  Strings are          *)
(* sequences of tokens, as in DatabaseContext.                             *)
(***************************************************************************)
EXTENDS Naturals, Sequences, SequencesExt

CONSTANTS
  Token,    \* what names are made of
  Nul       \* the character std::string::resize pads with

ASSUME NulAssumption == Nul \in Token

Text == Seq(Token)

StackRec == [Buffer: Text, Offsets: Seq(Nat)]

(* std::string::resize: cuts, or pads with NULs.                           *)
Resize(s, n) == [i \in 1..n |-> IF i \in 1..Len(s) THEN s[i] ELSE Nul]

(* The constructor pushes the translation unit.                            *)
NewStack == [Buffer |-> << >>, Offsets |-> << 0 >>]

(* Variant: the length of what is pushed.                                  *)
PushOwnLength(s, t) == [Buffer  |-> s.Buffer \o t,
                        Offsets |-> Append(s.Offsets, Len(t))]

push(s, t) == [Buffer  |-> s.Buffer \o t,
               Offsets |-> Append(s.Offsets, Len(s.Buffer \o t))]

reset(s) == NewStack

(* Variant: resizes to the length it has just popped.                      *)
PopToOwnLength(s) ==
  IF Len(s.Offsets) <= 1 THEN [Buffer |-> << >>, Offsets |-> << >>]
  ELSE [Buffer |-> Resize(s.Buffer, Last(s.Offsets)), Offsets |-> Front(s.Offsets)]

pop(s) ==
  IF Len(s.Offsets) <= 1 THEN [Buffer |-> << >>, Offsets |-> << >>]
  ELSE LET Rest == Front(s.Offsets) IN
       [Buffer |-> Resize(s.Buffer, Last(Rest)), Offsets |-> Rest]

-----------------------------------------------------------------------------
(* "Each time, the top of Offsets equals to length of Buffer" (retrieve.cc *)
(* 32-35), and the lengths below it were those of prefixes.                *)
Coherent(s) ==
  /\ s.Offsets # << >> => Last(s.Offsets) = Len(s.Buffer)
  /\ s.Offsets = << >> => s.Buffer = << >>
  /\ \A i, j \in DOMAIN s.Offsets : i <= j => s.Offsets[i] <= s.Offsets[j]

(* The stack of texts it stands for.                                       *)
Texts(s) == [i \in 1..Len(s.Offsets) |-> SubSeq(s.Buffer, 1, s.Offsets[i])]
=============================================================================
