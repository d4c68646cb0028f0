------------------------------ MODULE Mangling ------------------------------
(***************************************************************************)
(* The text of a type (src/typing.cc, include/typing.h): MangleType,       *)
(* MangleRecordDecl, template arguments and parameter lists.               *)
(*                                                                         *)
(* A QualType is a record of its local qualifiers and a Type.  A text is   *)
(* given as the pieces it is put together from: letters, numbers, and      *)
(* names with their length.  The classes of clang's types whose text is    *)
(* that of another type are one kind, "sugar".  What the writer does not   *)
(* survive is not among the types and names: a class of a function, or an  *)
(* operator without letters, ends the plugin.                              *)
(***************************************************************************)
EXTENDS Texts, Integers

CONSTANTS
  QualType,    \* types, with those they are made of
  Argument,    \* arguments of templates, likewise
  Depth,       \* how deep types and arguments are
  MaxDepth

(* The letters that texts are made of, besides those of names.             *)
ASSUME LetterAssumption ==
  {"a", "b", "c", "d", "e", "f", "g", "h", "i", "j", "k", "l", "m", "n", "o", "p", "q", "r",
   "s", "t", "u", "v", "w", "x", "y", "z", "A", "C", "D", "E", "F", "I", "K", "L", "M", "N",
   "O", "P", "R", "S", "V", Underscore} \subseteq Char

BuiltinLetter == {<< "D", "n" >>} \cup
  {<< c >> : c \in {"a", "b", "c", "d", "e", "f", "g", "h", "i", "j", "l", "m",
                    "n", "o", "s", "t", "v", "w", "x", "y"}}

(* An identifier, or the empty name of what has none.                      *)
Name    == {n \in Text : n # << >> => Head(n) \notin Digit}
Numeral == {s \in Seq(Digit) : s # << >>}
Length  == {s \in Numeral : Head(s) # "0"}

TypeParm  == [kind: {"parameter"}, name: Name, pack: BOOLEAN, canonical: BOOLEAN]
ValueParm == [kind: {"value"}, of: QualType, pack: BOOLEAN]
Level     == [name: Name, special: BOOLEAN, args: Seq(Argument)]

Type ==
  [kind: {"builtin"}, letter: BuiltinLetter]
  \cup [kind: {"unknown"}]
  \cup [kind: {"pointer", "member pointer", "rvalue", "reference", "sugar"}, of: QualType]
  \cup [kind: {"record"}, path: Seq(Level)]
  \cup [kind: {"template"}, name: Name, list: Seq(TypeParm \cup ValueParm)]
  \cup TypeParm
  \cup [kind: {"array"}, size: {s \in Seq(Length) : Len(s) <= 1}, of: QualType]
  \cup [kind: {"function"}, result: QualType, params: Seq(QualType), variadic: BOOLEAN]

ASSUME TypeAssumption ==
  /\ QualType \subseteq [const: BOOLEAN, volatile: BOOLEAN, type: Type]
  /\ Argument \subseteq [kind: {"null", "nullptr"}]
       \cup [kind: {"type"}, of: QualType]     \* or a template, by its name
       \cup [kind: {"value"}, value: Int, range: Nat \ {0}]
       \cup [kind: {"pack"}, args: Seq(Argument)]

(* A value is one of its type, which has "range" values: two for a bool.   *)
ASSUME ValueAssumption ==
  \A a \in Argument :
    a.kind = "value" => -a.range <= 2 * a.value /\ a.value < a.range

(* What the text of a type or an argument is put together from.            *)
Term == QualType \cup Argument
Parts(x) ==
  IF "kind" \in DOMAIN x
  THEN CASE x.kind = "type" -> {x.of} [] x.kind = "pack" -> ToSet(x.args) [] OTHER -> {}
  ELSE LET t == x.type IN
       CASE t.kind \in {"pointer", "member pointer", "rvalue", "reference", "sugar", "array"} ->
              {t.of}
         [] t.kind = "record"   -> UNION {ToSet(t.path[i].args) : i \in DOMAIN t.path}
         [] t.kind = "template" ->
              {t.list[i].of : i \in {i \in DOMAIN t.list : t.list[i].kind = "value"}}
         [] t.kind = "function" -> {t.result} \cup ToSet(t.params)
         [] OTHER -> {}

(* Types are trees.                                                        *)
ASSUME DepthAssumption ==
  /\ MaxDepth \in Nat
  /\ Depth \in [Term -> 0..MaxDepth]
  /\ \A x \in Term : \A y \in Parts(x) : y \in Term /\ Depth[y] < Depth[x]

-----------------------------------------------------------------------------
Letter(c) == << << c >> >>

EncodeNs(name) == << Decimal10[Len(name)] \o name >>

Template == EncodeNs(<< "t", "e", "m", "p", "l", "a", "t", "e" >>)
Typename == EncodeNs(<< "t", "y", "p", "e", "n", "a", "m", "e" >>)
Decltype == EncodeNs(<< "d", "e", "c", "l", "t", "y", "p", "e" >>)
Pack     == EncodeNs(<< "z" >>)
Default  == EncodeNs(<< "d", "e", "f", "a", "u", "l", "t" >>)
UNKNOWN_TYPE ==
  Letter("N") \o Typename \o EncodeNs(<< "u", "n", "k", "n", "o", "w", "n" >>) \o Letter("E")

(* isConstQualified and isVolatileQualified: of the canonical type, which  *)
(* for an array has the qualifiers of its elements.                        *)
IsConst[q \in QualType] ==
  q.const \/ (q.type.kind \in {"sugar", "array"} /\ IsConst[q.type.of])
IsVolatile[q \in QualType] ==
  q.volatile \/ (q.type.kind \in {"sugar", "array"} /\ IsVolatile[q.type.of])

(* Variant: one qualifier is enough.                                       *)
OneQualifier(q) ==
  IF IsConst[q] THEN Letter("K") ELSE IF IsVolatile[q] THEN Letter("V") ELSE << >>

Qualifiers(q) ==
  (IF IsConst[q] THEN Letter("K") ELSE << >>)
    \o (IF IsVolatile[q] THEN Letter("V") ELSE << >>)

(* MangleTemplateTypeParmDecl, of no declaration when the type is canonical.*)
MangleTemplateTypeParm(p) ==
  Letter("N") \o Template \o Typename
    \o (IF p.canonical THEN Default
        ELSE EncodeNs(p.name) \o (IF p.pack THEN Decltype \o Pack ELSE << >>))
    \o Letter("E")

-----------------------------------------------------------------------------
(* The functions call each other.  M is MangleType, of a QualType, and     *)
(* MangleTemplateArgument, of an argument.                                 *)

MangleFunctionParmList(M, f) ==
  Concat([i \in DOMAIN f.params |-> M[f.params[i]]])
    \o (IF f.variadic THEN Letter("z")
        ELSE IF f.params = << >> THEN Letter("v") ELSE << >>)

MangleTemplateArgumentList(M, list) == Concat([j \in DOMAIN list |-> M[list[j]]])

EncodeRecordDecl(M, l) ==
  EncodeNs(l.name)
    \o (IF ~l.special THEN << >>
        ELSE Letter("I") \o MangleTemplateArgumentList(M, l.args) \o Letter("E"))

(* The levels of the name of a record.                                     *)
MangleRecordDecl(M, path) == Concat([i \in DOMAIN path |-> EncodeRecordDecl(M, path[i])])

(* A parameter of a template is a type, or a value of type "of".           *)
MangleTemplateParm(M, p) ==
  IF p.kind = "parameter" THEN MangleTemplateTypeParm(p)
  ELSE Letter("N") \o Template \o Decltype
         \o EncodeNs(Concat(M[p.of]) \o (IF p.pack THEN << "z" >> ELSE << >>))
         \o Letter("E")

MangleTemplateParameterList(M, list) ==
  Letter("I") \o Concat([i \in DOMAIN list |-> MangleTemplateParm(M, list[i])]) \o Letter("E")

(* A record, or a dependent name, by the levels of its name; a template by *)
(* its name and its parameters.                                            *)
MangleTypePtr(M, t) ==
  CASE t.kind = "builtin"        -> << t.letter >>
    [] t.kind = "unknown"        -> UNKNOWN_TYPE
    [] t.kind = "pointer"        -> Letter("P") \o M[t.of]
    [] t.kind = "member pointer" -> Letter("P") \o M[t.of]
    [] t.kind = "rvalue"         -> Letter("O") \o M[t.of]
    [] t.kind = "reference"      -> Letter("R") \o M[t.of]
    [] t.kind = "sugar"          -> M[t.of]
    [] t.kind = "record"         -> Letter("N") \o MangleRecordDecl(M, t.path) \o Letter("E")
    [] t.kind = "template"       ->
         Letter("N") \o EncodeNs(t.name) \o MangleTemplateParameterList(M, t.list) \o Letter("E")
    [] t.kind = "parameter"      -> MangleTemplateTypeParm(t)
    [] t.kind = "array" ->
         Letter("A") \o t.size \o Letter(Underscore) \o M[t.of]
    [] t.kind = "function" ->
         Letter("F") \o M[t.result] \o MangleFunctionParmList(M, t) \o Letter("E")

(* getZExtValue: the bits of the value, read as a number without a sign.   *)
Unsigned(a) == a.value % a.range

MangleTemplateArgument(M, a) ==
  CASE a.kind = "null"    -> Letter("N") \o Letter("E")
    [] a.kind = "type"    -> M[a.of]
    [] a.kind = "nullptr" -> << << "D", "n" >> >>
    [] a.kind = "value"   -> Letter("L") \o Letter("i") \o << Decimal10[Unsigned(a)] >> \o Letter("E")
    [] a.kind = "pack"    -> MangleTemplateArgumentList(M, a.args)

MangleType[x \in Term] ==
  IF "kind" \in DOMAIN x THEN MangleTemplateArgument(MangleType, x)
  ELSE Qualifiers(x) \o MangleTypePtr(MangleType, x.type)

(* The name of a function: name says what it is.                           *)
EncodeFunctionName(name) ==
  CASE name.kind = "identifier"  -> EncodeNs(name.text)
    [] name.kind = "constructor" -> Letter("C")
    [] name.kind = "destructor"  -> Letter("D")
    [] name.kind = "operator"    -> << name.text >>
    [] name.kind = "conversion"  -> << << "c", "v" >> >> \o MangleType[name.to]

(* FunctionMember and FunctionTemplateMember: the latter has the return    *)
(* type between the template parameters and the parameters.                *)
FunctionMember(f) ==
  EncodeFunctionName(f.name)
    \o (IF f.template = << >> THEN << >>
        ELSE MangleTemplateParameterList(MangleType, f.template) \o MangleType[f.result])
    \o MangleFunctionParmList(MangleType, f)
=============================================================================
