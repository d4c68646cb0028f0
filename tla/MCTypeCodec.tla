---------------------------- MODULE MCTypeCodec ----------------------------
(***************************************************************************)
(* Types of a bounded depth, in every kind of column.  Left out are levels *)
(* without a name above another level, which lose their length, and arrays *)
(* of length zero, which lose theirs.                                      *)
(***************************************************************************)
EXTENDS TypeCodec

MCChar == Digit \cup Opening \cup Modifier \cup Builtin \cup {"A", "C", "D", "E", Underscore,
  "p", "u", "r", "k", "q", "S", "M"}

Q(t)          == [const |-> FALSE, volatile |-> FALSE, type |-> t]
Qualified(ts) == [const: BOOLEAN, volatile: BOOLEAN, type: ts]

IntType     == [kind |-> "builtin", letter |-> << "i" >>]
Null    == [kind |-> "builtin", letter |-> NullPtr]
Unknown == [kind |-> "unknown"]
Parm    == [kind |-> "parameter", name |-> << "P" >>, pack |-> FALSE, canonical |-> FALSE]
Parms   == {Parm, [Parm EXCEPT !.pack = TRUE], [Parm EXCEPT !.canonical = TRUE]}

(* Names that look like letters and digits of a text, one of two digits'   *)
(* length, and none.                                                       *)
I10 == [i \in 1..10 |-> "i"]
Plain(name)      == [name |-> name, special |-> FALSE, args |-> << >>]
Special(name, a) == [name |-> name, special |-> TRUE, args |-> a]
Rec(path)        == [kind |-> "record", path |-> path]

Array(size, q)   == [kind |-> "array", size |-> size, of |-> q]
Fn(r, ps, v)     == [kind |-> "function", result |-> r, params |-> ps, variadic |-> v]
Over(kinds, qs)  == [kind: kinds, of: qs]

Values == [kind |-> "value", of |-> Q(IntType), pack |-> TRUE]

Base ==
  Qualified({IntType, Rec(<< Plain(<< "E" >>) >>)})
    \cup {Q(t) : t \in Parms \cup
            {Null, Unknown, [kind |-> "template", name |-> << "E" >>, list |-> << Parm, Values >>],
             Rec(<< Plain(<< >>) >>), Rec(<< Plain(<< "i", "9" >>), Plain(I10) >>)}}

(* An unsigned and a signed char, a bool.                                  *)
Value(n)   == [kind |-> "value", value |-> n, range |-> 256]
Boolean(n) == [kind |-> "value", value |-> n, range |-> 2]

ArgsOver(qs) ==
  {<< >>, << [kind |-> "null"] >>, << [kind |-> "nullptr"] >>,
   << Value(142) >>, << Value(-1) >>}
  \cup {<< [kind |-> "type", of |-> q] >> : q \in qs}
  \cup {<< [kind |-> "type", of |-> q], Boolean(0),
           [kind |-> "pack", args |-> << [kind |-> "type", of |-> q], Boolean(1) >>] >> : q \in qs}

(* Types over those of qs; few is a small part of qs.                      *)
Grow(qs, few) ==
  {Q(t) : t \in Over({"member pointer", "reference", "rvalue"}, qs)
                \cup {Array(n, q) : n \in {<< >>, << << "1", "2" >> >>}, q \in qs}
                \cup {Fn(r, << >>, v) : r \in few, v \in BOOLEAN}
                \cup {Fn(r, << q >>, v) : r \in few, q \in few, v \in BOOLEAN}
                \cup {Fn(Q(IntType), << q, r >>, FALSE) : q \in few, r \in few}}
  \cup Qualified(Over({"pointer", "sugar"}, qs)
                 \cup {Rec(<< Special(<< "E" >>, a) >>) : a \in ArgsOver(few)}
                 \cup {Rec(<< Special(<< "i", "9" >>, a), Plain(<< "E" >>) >>) : a \in ArgsOver(few)})

Small == {Q(IntType), [Q(IntType) EXCEPT !.const = TRUE], Q(Rec(<< Plain(<< "E" >>) >>))}
One   == Grow(Base, Small)
Few   == Qualified({IntType}) \cup {Q(Null), Q(Rec(<< Special(<< "E" >>,
           << [kind |-> "type", of |-> Q(Array(<< << "1", "2" >> >>, Q(IntType)))] >>) >>)),
           Q(Array(<< >>, Q(IntType))), Q(Fn(Q(IntType), << >>, FALSE))}
Two   == Grow(One, Few)

MCQualType == Base \cup One \cup Two \cup Few

Function(name, template, params, variadic) ==
  [name |-> name, template |-> template, result |-> Q(IntType), params |-> params,
   variadic |-> variadic]

Op(letters) == [kind |-> "operator", text |-> letters]
FunctionNames ==
  {[kind |-> "identifier", text |-> << "f" >>], [kind |-> "constructor"], [kind |-> "destructor"],
   Op(<< "l", "s" >>), [kind |-> "identifier", text |-> << >>]}
    \cup {[kind |-> "conversion", to |-> q] : q \in Few}

Templates ==
  {<< >>, << Parm >>,
   << Values, [Parm EXCEPT !.pack = TRUE] >>}

Functions ==
  {Function(Op(<< "l", "s" >>), << >>, << q >>, FALSE) : q \in One}
    \cup {Function(n, t, p, v) : n \in FunctionNames, t \in Templates,
            p \in {<< >>} \cup {<< q, r >> : q \in Few, r \in Few}, v \in BOOLEAN}

MCDeclarations ==
  {[way |-> "type", type |-> q] : q \in Base \cup One \cup Two}
    \cup {[way |-> "nested", type |-> q] : q \in Base \cup One}
    \cup {[way |-> "member", of |-> "function", function |-> f] : f \in Functions}
    \cup {[way |-> "member", of |-> "record", level |-> Plain(<< "E" >>)]}
    \cup {[way |-> "member", of |-> "record", level |-> Special(<< "E" >>, a)] :
            a \in ArgsOver(Base \cup One)}

(* With what they are made of.                                             *)
MCArgument ==
  UNION {ToSet(a) : a \in ArgsOver(Base \cup One \cup Few)}
    \cup {[kind |-> "type", of |-> q] : q \in Base \cup One \cup Few} \cup {Boolean(1)}

RECURSIVE DepthOf(_)
DepthOf(x) == LET parts == Parts(x) IN
  IF parts = {} THEN 0 ELSE 1 + Max({DepthOf(y) : y \in parts})
MCDepth == [x \in Term |-> DepthOf(x)]

MCCached  ==
  {<< >>, << << << "i" >>, FALSE, FALSE >>, << << "i" >>, TRUE, FALSE >>,
             << << "i" >>, TRUE, TRUE >>, << NullPtr, FALSE, FALSE >> >>}

(* Every short text of these letters.                                      *)
Odd       == {"1", "N", "I", "F", "L", "E", "A", "K", "D", "i", Underscore}
MCStrays  == [way: {"type", "nested", "member"}, text: UNION {[1..n -> Odd] : n \in 0..3}]

MCColumns == {ColumnOf(d) : d \in MCDeclarations} \cup MCStrays
=============================================================================
