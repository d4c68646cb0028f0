----------------------- MODULE DatabaseContext_proofs -----------------------
(***************************************************************************)
(* Proofs about DatabaseContext, for every set of syntax trees and every   *)
(* way the database calls may fail.                                        *)
(***************************************************************************)
EXTENDS DatabaseContext, Induction, SequenceTheorems, FiniteSetTheorems

AnyFrame == ScopeFrame \cup ClassFrame

USE DEF input, rows

(* What clang's declarations look like, one field at a time.               *)
LEMMA AstTyped ==
  ASSUME TypeOK, NEW d \in Decl
  PROVE  /\ ast[d].kind \in Kind /\ ast[d].name \in Text /\ ast[d].sig \in Text
         /\ ast[d].kids \in Seq(Decl) /\ ast[d].loc \in BOOLEAN
         /\ Canonical(d) \in Decl /\ Member(d) \in Text
         /\ Members(d) \in Seq(Decl)
         /\ \A a : RecordType(d, a) \in [what: What, access: {a}]
         /\ DefaultAccess(d) \in Access
<1>1. ast[d] \in DeclRec
  BY DEF TypeOK
<1>2. Member(d) \in Text
  BY <1>1 DEF Member, DeclRec, Text
<1>3. Members(d) \in Seq(Decl)
  BY <1>1 DEF Members, DeclRec
<1>4. \A a : RecordType(d, a) \in [what: What, access: {a}]
  BY DEF RecordType, TypeOf, What
<1>5. DefaultAccess(d) \in Access
  BY DEF DefaultAccess, Access
<1> QED
  BY <1>1, <1>2, <1>3, <1>4, <1>5 DEF DeclRec, Canonical

(* The type of a leaf has the access it is given, unless it is an          *)
(* enumerator.                                                             *)
LEMMA LeafTyped ==
  ASSUME NEW d, NEW a
  PROVE  /\ a \in Access => LeafType(d, a) \in [what: What, access: Access]
         /\ ast[d].kind # "enumconst" => LeafType(d, a) \in [what: What, access: {a}]
BY DEF LeafType, TypeOf, What, Access

(* The running loop has a typed activation, and so has what Advance makes  *)
(* of it.                                                                  *)
LEMMA TopTyped ==
  ASSUME TypeOK, frames # << >>
  PROVE  /\ Top \in AnyFrame /\ Top = frames[Len(frames)]
         /\ Len(frames) \in Nat \ {0}
         /\ Top.fn = "IterateClass" => Top \in ClassFrame
         /\ Top.rest # << >> =>
              /\ Cur \in Decl
              /\ Advance \in Seq(AnyFrame) /\ Len(Advance) = Len(frames)
              /\ \A i \in 1..Len(frames) : Advance[i].cur = frames[i].cur
<1>1. frames \in Seq(AnyFrame) /\ Len(frames) \in Nat \ {0}
  BY EmptySeq, LenProperties DEF TypeOK, AnyFrame
<1>2. Top = frames[Len(frames)] /\ Top \in AnyFrame
  BY <1>1 DEF Top, Last
<1>3. Top.fn = "IterateClass" => Top \in ClassFrame
  BY <1>2 DEF AnyFrame, ScopeFrame
<1>4. Top.rest \in Seq(Decl)
  BY <1>2 DEF AnyFrame, ScopeFrame, ClassFrame
<1>5. ASSUME Top.rest # << >>
      PROVE  /\ Cur \in Decl
             /\ Advance \in Seq(AnyFrame) /\ Len(Advance) = Len(frames)
             /\ \A i \in 1..Len(frames) : Advance[i].cur = frames[i].cur
  <2>1. Cur \in Decl /\ Tail(Top.rest) \in Seq(Decl)
    BY <1>4, <1>5, HeadTailProperties DEF Cur
  <2>2. [Top EXCEPT !.rest = Tail(@)] \in AnyFrame
    BY <1>2, <2>1 DEF AnyFrame, ScopeFrame, ClassFrame
  <2>3. Advance = [frames EXCEPT ![Len(frames)] = [Top EXCEPT !.rest = Tail(@)]]
    BY <1>2 DEF Advance
  <2>4. Advance \in Seq(AnyFrame) /\ Len(Advance) = Len(frames)
    BY <1>1, <2>2, <2>3
  <2>5. \A i \in 1..Len(frames) : Advance[i].cur = frames[i].cur
    BY <1>1, <1>2, <2>3 DEF AnyFrame, ScopeFrame, ClassFrame
  <2> QED
    BY <2>1, <2>4, <2>5
<1> QED
  BY <1>1, <1>2, <1>3, <1>5

-----------------------------------------------------------------------------
(* The conjuncts of TypeOK that the parts of an action establish.          *)
FramesTyped == frames \in Seq(AnyFrame)

ContextTyped ==
  WholeName \in Text /\ NameSizes \in Seq(Nat) /\ DeclContexts \in Seq(Decl)

TablesTyped ==
  /\ Classes \in Seq(ClassRow) /\ Namespaces \in Seq(NamespaceRow)
  /\ Symbols \in Seq(SymbolRow)
  /\ lost \subseteq NamespaceRow \cup ClassRow /\ errs \subseteq ErrorRec

LEMMA SymbolTyped ==
  ASSUME TypeOK, NEW name \in Text, NEW d \in Decl, NEW bad,
         InsertSymbol(name, d, bad)
  PROVE  Symbols' \in Seq(SymbolRow) /\ errs' \subseteq ErrorRec
<1>1. [name |-> name, at |-> d] \in SymbolRow
  BY DEF SymbolRow
<1>2. [call |-> "symbol", of |-> d] \in ErrorRec
  BY DEF ErrorRec
<1>3. CASE "symbol" \in bad \/ ~ast[d].loc
  <2>1. errs' = errs \cup {[call |-> "symbol", of |-> d]} /\ UNCHANGED Symbols
    BY <1>3, Zenon DEF InsertSymbol
  <2> QED
    BY <1>2, <2>1 DEF TypeOK
<1>4. CASE ~("symbol" \in bad \/ ~ast[d].loc)
  <2>1. Symbols' = Append(Symbols, [name |-> name, at |-> d]) /\ UNCHANGED errs
    BY <1>4, Zenon DEF InsertSymbol
  <2> QED
    BY <1>1, <2>1, AppendProperties DEF TypeOK
<1> QED
  BY <1>3, <1>4, Zenon

(* An insertion into namespace, with or without failures, keeps the        *)
(* tables typed; so does one into class.                                   *)
LEMMA NamespaceInsertTyped ==
  ASSUME TypeOK, NEW scope \in Text, NEW short \in Text, NEW d \in Decl,
         NEW type \in [what: What, access: {"none"}],
         InsertIntoNamespace(scope, short, type, d)
  PROVE  TablesTyped'
<1>1. PICK bad :
        /\ Namespaces' = AddRow(Namespaces, NewRow(scope, short, type, d), bad)
        /\ lost' = AddLost(NewRow(scope, short, type, d), bad)
        /\ InsertSymbol(scope \o short, d, bad)
        /\ UNCHANGED Classes
  BY DEF InsertIntoNamespace
<1>2. NewRow(scope, short, type, d) \in NamespaceRow
  BY DEF NewRow, NamespaceRow
<1>3. Namespaces' \in Seq(NamespaceRow)
  BY <1>1, <1>2, AppendProperties DEF AddRow, TypeOK
<1>4. lost' \subseteq NamespaceRow \cup ClassRow
  BY <1>1, <1>2 DEF AddLost, TypeOK
<1>5. scope \o short \in Text
  BY DEF Text
<1> QED
  BY <1>1, <1>3, <1>4, <1>5, SymbolTyped DEF TablesTyped, TypeOK

LEMMA ClassInsertTyped ==
  ASSUME TypeOK, NEW scope \in Text, NEW short \in Text, NEW d \in Decl,
         NEW type \in [what: What, access: Access],
         InsertIntoClass(scope, short, type, d)
  PROVE  TablesTyped'
<1>1. PICK bad :
        /\ Classes' = AddRow(Classes, NewRow(WholeName, short, type, d), bad)
        /\ lost' = AddLost(NewRow(WholeName, short, type, d), bad)
        /\ InsertSymbol(scope \o short, d, bad)
        /\ UNCHANGED Namespaces
  BY DEF InsertIntoClass, CurrentScope
<1>2. NewRow(WholeName, short, type, d) \in ClassRow
  BY DEF NewRow, ClassRow, TypeOK
<1>3. Classes' \in Seq(ClassRow)
  BY <1>1, <1>2, AppendProperties DEF AddRow, TypeOK
<1>4. lost' \subseteq NamespaceRow \cup ClassRow
  BY <1>1, <1>2 DEF AddLost, TypeOK
<1>5. scope \o short \in Text
  BY DEF Text
<1> QED
  BY <1>1, <1>3, <1>4, <1>5, SymbolTyped DEF TablesTyped, TypeOK

LEMMA NamespaceDeclTyped ==
  ASSUME TypeOK, NEW scope \in Text, NEW d \in Decl,
         InsertNamespaceDecl(scope, d)
  PROVE  TablesTyped'
<1> DEFINE row == NewRow(scope, ast[d].name, TypeOf("namespace", "none"), d)
<1>1. PICK bad :
        /\ Namespaces' = AddRow(Namespaces, row, bad)
        /\ lost' = AddLost(row, bad)
        /\ UNCHANGED << Classes, Symbols, errs >>
  BY DEF InsertNamespaceDecl
<1>2. row \in NamespaceRow
  BY AstTyped DEF NewRow, NamespaceRow, TypeOf, What
<1> QED
  BY <1>1, <1>2, AppendProperties DEF AddRow, AddLost, TablesTyped, TypeOK

(* Visit pushes a typed activation, whatever it is for.                    *)
LEMMA VisitTyped ==
  ASSUME TypeOK, frames # << >>, Top.rest # << >>,
         NEW d \in Decl, NEW name \in Text, NEW rest \in Seq(Decl),
         NEW fn, NEW access,
         \/ fn \in {"IterateScope", "VisitEnumDecl"} /\ access = "none"
         \/ fn = "IterateClass" /\ access \in Access,
         Visit(d, name, fn, rest, access)
  PROVE  FramesTyped' /\ ContextTyped'
<1> DEFINE f == [fn |-> fn, ctx |-> d, rest |-> rest,
                 cur |-> WholeName \o name, access |-> access]
<1>1. WholeName \o name \in Text
  BY DEF Text, TypeOK
<1>2. f \in AnyFrame
  BY <1>1 DEF AnyFrame, ScopeFrame, ClassFrame
<1>3. frames' = Append(Advance, f) /\ Advance \in Seq(AnyFrame)
  BY TopTyped DEF Visit
<1>4. FramesTyped'
  BY <1>2, <1>3, AppendProperties DEF FramesTyped
<1>5. Len(WholeName \o name) \in Nat
  BY <1>1, LenProperties DEF Text
<1>6. ContextTyped'
  BY <1>1, <1>5, AppendProperties DEF Visit, EnterDeclContext, ContextTyped, TypeOK
<1> QED
  BY <1>4, <1>6

(* The five ways an activation is started.                                 *)
LEMMA VisitsTyped ==
  ASSUME TypeOK, frames # << >>, Top.rest # << >>, NEW d \in Decl,
         \/ VisitNamespaceDecl(d) \/ VisitLinkageSpecDecl(d) \/ VisitEnumDecl(d)
         \/ VisitCXXRecordDecl(d) \/ VisitClassTemplateDecl(d)
  PROVE  FramesTyped' /\ ContextTyped'
<1> USE AstTyped
<1>1. << >> \in Text
  BY EmptySeq DEF Text
<1>2. CASE VisitNamespaceDecl(d)
  BY <1>2, VisitTyped DEF VisitNamespaceDecl
<1>3. CASE VisitLinkageSpecDecl(d)
  BY <1>1, <1>3, VisitTyped DEF VisitLinkageSpecDecl
<1>4. CASE VisitEnumDecl(d)
  BY <1>4, VisitTyped DEF VisitEnumDecl
<1>5. CASE VisitCXXRecordDecl(d)
  BY <1>5, VisitTyped DEF VisitCXXRecordDecl
<1>6. CASE VisitClassTemplateDecl(d)
  BY <1>6, VisitTyped DEF VisitClassTemplateDecl
<1> QED
  BY <1>2, <1>3, <1>4, <1>5, <1>6

-----------------------------------------------------------------------------
(* TypeOK is inductive. *)

LEMMA NextDeclTyped ==
  ASSUME TypeOK, frames # << >>, Top.rest # << >>, NextDecl
  PROVE  FramesTyped' /\ ContextTyped'
BY TopTyped DEF NextDecl, context, FramesTyped, ContextTyped, TypeOK

LEMMA TypeInit == Init => TypeOK
BY WalkAssumption, EmptySeq DEF Init, TypeOK, Text

(* The parts of an action that TypeOK' is put together from.               *)
LEMMA TypeParts ==
  ASSUME TypeOK, UNCHANGED input, InTransaction' \in BOOLEAN,
         phase' \in {"new", "ready", "walking", "crashed", "walked", "done"},
         FramesTyped', ContextTyped', TablesTyped',
         VisitedClasses' \subseteq Decl, VisitedFunctions' \subseteq Decl
  PROVE  TypeOK'
BY DEF TypeOK, FramesTyped, ContextTyped, TablesTyped, AnyFrame

LEMMA TypeStep == TypeOK /\ StackCoherent /\ [Next]_vars => TypeOK'
<1> SUFFICES ASSUME TypeOK, StackCoherent, [Next]_vars PROVE TypeOK'
  OBVIOUS
<1> DEFINE Kept == /\ FramesTyped /\ ContextTyped /\ TablesTyped
                   /\ VisitedClasses \subseteq Decl
                   /\ VisitedFunctions \subseteq Decl
<1>0. Kept
  BY DEF TypeOK, FramesTyped, ContextTyped, TablesTyped, AnyFrame
<1>a. ASSUME UNCHANGED tables PROVE TablesTyped'
  BY <1>0, <1>a DEF tables, TablesTyped
<1>b. ASSUME UNCHANGED context PROVE ContextTyped'
  BY <1>0, <1>b DEF context, ContextTyped
<1>c. ASSUME NEW d \in Decl, ShouldVisitClass(d) \/ ShouldVisitFunction(d)
      PROVE  VisitedClasses' \subseteq Decl /\ VisitedFunctions' \subseteq Decl
  BY <1>0, <1>c DEF ShouldVisitClass, ShouldVisitFunction
<1>d. ASSUME UNCHANGED visited
      PROVE  VisitedClasses' \subseteq Decl /\ VisitedFunctions' \subseteq Decl
  BY <1>0, <1>d DEF visited
<1>e. ASSUME frames # << >>, Top.rest # << >>
      PROVE  /\ Cur \in Decl /\ Canonical(Cur) \in Decl
             /\ Top.cur \in Text /\ CurrentScope \in Text
             /\ Member(Cur) \in Text /\ Member(Canonical(Cur)) \in Text
             /\ ast[Cur].name \in Text
             /\ Top.fn = "IterateClass" => Top.access \in Access
  BY <1>e, TopTyped, AstTyped
  DEF AnyFrame, ScopeFrame, ClassFrame, TypeOK, CurrentScope
<1> USE DEF At
<1>1. CASE ScopeNamespace
  <2>1. TablesTyped'
    BY <1>1, <1>e, NamespaceDeclTyped DEF ScopeNamespace
  <2>2. FramesTyped' /\ ContextTyped'
    BY <1>1, <1>e, VisitsTyped DEF ScopeNamespace
  <2> QED
    BY <1>1, <1>d, <2>1, <2>2, TypeParts DEF ScopeNamespace, TypeOK
<1>2. CASE ScopeLinkage
  <2>1. FramesTyped' /\ ContextTyped'
    BY <1>2, <1>e, VisitsTyped DEF ScopeLinkage
  <2> QED
    BY <1>2, <1>a, <1>d, <2>1, TypeParts DEF ScopeLinkage, TypeOK
<1>3. CASE ScopeRecord
  <2>1. TablesTyped'
    BY <1>3, <1>e, AstTyped, NamespaceInsertTyped DEF ScopeRecord
  <2>2. FramesTyped' /\ ContextTyped'
    BY <1>3, <1>e, VisitsTyped DEF ScopeRecord
  <2> QED
    BY <1>3, <1>c, <1>e, <2>1, <2>2, TypeParts DEF ScopeRecord, TypeOK
<1>4. CASE ScopeTemplate
  <2>1. TablesTyped'
    BY <1>4, <1>e, AstTyped, NamespaceInsertTyped DEF ScopeTemplate
  <2>2. FramesTyped' /\ ContextTyped'
    BY <1>4, <1>e, VisitsTyped DEF ScopeTemplate
  <2> QED
    BY <1>4, <1>d, <2>1, <2>2, TypeParts DEF ScopeTemplate, TypeOK
<1>5. CASE ScopeFunction
  <2>1. TypeOf("value", "none") \in [what: What, access: {"none"}]
    BY DEF TypeOf, What
  <2>2. TablesTyped'
    BY <1>5, <1>a, <1>e, <2>1, NamespaceInsertTyped DEF ScopeFunction
  <2>3. FramesTyped' /\ ContextTyped'
    BY <1>5, NextDeclTyped DEF ScopeFunction
  <2> QED
    BY <1>5, <1>c, <1>e, <2>2, <2>3, TypeParts DEF ScopeFunction, TypeOK
<1>6. CASE ScopeLeaf
  <2>1. LeafType(Cur, "none") \in [what: What, access: {"none"}]
    BY <1>6, LeafTyped DEF ScopeLeaf
  <2>2. TablesTyped'
    BY <1>6, <1>e, <2>1, NamespaceInsertTyped DEF ScopeLeaf
  <2>3. FramesTyped' /\ ContextTyped'
    BY <1>6, NextDeclTyped DEF ScopeLeaf
  <2> QED
    BY <1>6, <1>d, <2>2, <2>3, TypeParts DEF ScopeLeaf, TypeOK
<1>7. CASE ScopeEnum
  <2>1. TypeOf("enum", "none") \in [what: What, access: {"none"}]
    BY DEF TypeOf, What
  <2>2. TablesTyped'
    BY <1>7, <1>e, <2>1, NamespaceInsertTyped DEF ScopeEnum
  <2>3. FramesTyped' /\ ContextTyped'
    BY <1>7, <1>e, VisitsTyped DEF ScopeEnum
  <2> QED
    BY <1>7, <1>d, <2>2, <2>3, TypeParts DEF ScopeEnum, TypeOK
<1>8. CASE ScopeIgnored
  BY <1>8, <1>a, <1>d, NextDeclTyped, TypeParts DEF ScopeIgnored, TypeOK
<1>9. CASE ClassRecord
  <2>1. TablesTyped'
    BY <1>9, <1>e, AstTyped, ClassInsertTyped DEF ClassRecord
  <2>2. FramesTyped' /\ ContextTyped'
    BY <1>9, <1>e, VisitsTyped DEF ClassRecord
  <2> QED
    BY <1>9, <1>c, <1>e, <2>1, <2>2, TypeParts DEF ClassRecord, TypeOK
<1>10. CASE ClassTemplate
  <2>1. TablesTyped'
    BY <1>10, <1>e, AstTyped, ClassInsertTyped DEF ClassTemplate
  <2>2. FramesTyped' /\ ContextTyped'
    BY <1>10, <1>e, VisitsTyped DEF ClassTemplate
  <2> QED
    BY <1>10, <1>d, <2>1, <2>2, TypeParts DEF ClassTemplate, TypeOK
<1>11. CASE ClassFunction
  <2>1. TypeOf("value", Top.access) \in [what: What, access: Access]
    BY <1>11, <1>e DEF ClassFunction, TypeOf, What
  <2>2. TablesTyped'
    BY <1>11, <1>a, <1>e, <2>1, ClassInsertTyped DEF ClassFunction
  <2>3. FramesTyped' /\ ContextTyped'
    BY <1>11, NextDeclTyped DEF ClassFunction
  <2> QED
    BY <1>11, <1>c, <1>e, <2>2, <2>3, TypeParts DEF ClassFunction, TypeOK
<1>12. CASE ClassGuide
  BY <1>12, <1>a, <1>b, <1>c, <1>e, EmptySeq, TypeParts
  DEF ClassGuide, FramesTyped, TypeOK
<1>13. CASE ClassLeaf
  <2>1. LeafType(Cur, Top.access) \in [what: What, access: Access]
    BY <1>13, <1>e, LeafTyped DEF ClassLeaf
  <2>2. TablesTyped'
    BY <1>13, <1>e, <2>1, ClassInsertTyped DEF ClassLeaf
  <2>3. FramesTyped' /\ ContextTyped'
    BY <1>13, NextDeclTyped DEF ClassLeaf
  <2> QED
    BY <1>13, <1>d, <2>2, <2>3, TypeParts DEF ClassLeaf, TypeOK
<1>14. CASE ClassAccess
  <2> DEFINE f == Advance[Len(frames)]
  <2>1. /\ Advance \in Seq(AnyFrame) /\ Len(Advance) = Len(frames)
        /\ Len(frames) \in Nat \ {0} /\ Top = frames[Len(frames)]
        /\ frames \in Seq(AnyFrame)
    BY <1>14, TopTyped DEF ClassAccess, TypeOK, AnyFrame
  <2>2. f \in AnyFrame /\ f.fn = "IterateClass"
    BY <1>14, <2>1 DEF ClassAccess, Advance, AnyFrame, ScopeFrame, ClassFrame
  <2>3. [f EXCEPT !.access = ast[Cur].kind] \in AnyFrame
    BY <1>14, <2>2 DEF ClassAccess, AnyFrame, ScopeFrame, ClassFrame
  <2>4. FramesTyped'
    BY <1>14, <2>1, <2>3 DEF ClassAccess, FramesTyped
  <2> QED
    BY <1>14, <1>a, <1>b, <1>d, <2>4, TypeParts DEF ClassAccess, TypeOK
<1>15. CASE ClassEnum
  <2>1. TypeOf("enum", Top.access) \in [what: What, access: Access]
    BY <1>15, <1>e DEF ClassEnum, TypeOf, What
  <2>2. TablesTyped'
    BY <1>15, <1>e, <2>1, ClassInsertTyped DEF ClassEnum
  <2>3. FramesTyped' /\ ContextTyped'
    BY <1>15, <1>e, VisitsTyped DEF ClassEnum
  <2> QED
    BY <1>15, <1>d, <2>2, <2>3, TypeParts DEF ClassEnum, TypeOK
<1>16. CASE ClassIgnored
  BY <1>16, <1>a, <1>d, NextDeclTyped, TypeParts DEF ClassIgnored, TypeOK
<1>17. CASE SkipVisited
  BY <1>17, <1>a, <1>d, NextDeclTyped, TypeParts DEF SkipVisited, TypeOK
<1>18. CASE Enumerator
  <2>1. TypeOf("enumconst", "public") \in [what: What, access: Access]
    BY DEF TypeOf, What, Access
  <2>2. TablesTyped'
    BY <1>18, <1>e, <2>1, ClassInsertTyped DEF Enumerator
  <2>3. FramesTyped' /\ ContextTyped'
    BY <1>18, NextDeclTyped DEF Enumerator
  <2> QED
    BY <1>18, <1>d, <2>2, <2>3, TypeParts DEF Enumerator, TypeOK
<1>19. CASE Return
  <2>1. /\ NameSizes \in Seq(Nat) /\ DeclContexts \in Seq(Decl)
        /\ frames \in Seq(AnyFrame) /\ WholeName \in Text
        /\ Len(frames) \in Nat /\ Len(frames) > 1
        /\ Len(NameSizes) = Len(frames) /\ Len(DeclContexts) = Len(frames)
    BY <1>19, EmptySeq, LenProperties
    DEF Return, TypeOK, StackCoherent, AnyFrame
  <2>2. NameSizes[Len(frames) - 1] \in Nat
    BY <2>1
  <2>3. \A n \in Nat : Resize(WholeName, n) \in Text
    BY <2>1, TokenAssumption DEF Resize, Text
  <2>4. FramesTyped' /\ ContextTyped'
    BY <1>19, <2>1, <2>2, <2>3
    DEF Return, LeaveDeclContext, Front, FramesTyped, ContextTyped
  <2> QED
    BY <1>19, <1>a, <1>d, <2>4, TypeParts DEF Return, TypeOK
<1>20. CASE Construct
  <2>1. TablesTyped'
    BY <1>20, <1>0, DeclAssumption DEF Construct, Fails, ErrorRec, TablesTyped
  <2> QED
    BY <1>20, <1>0, <1>b, <1>d, <2>1, TypeParts DEF Construct, TypeOK, FramesTyped
<1>21. CASE VisitTranslationUnitDecl
  <2>1. ast[TU].kids \in Seq(Decl) /\ << >> \in Text /\ TU \in Decl
    BY AstTyped, DeclAssumption, EmptySeq DEF Text
  <2>2. FramesTyped'
    BY <1>21, <2>1 DEF VisitTranslationUnitDecl, FramesTyped, AnyFrame, ScopeFrame
  <2>3. ContextTyped'
    BY <1>21, <2>1 DEF VisitTranslationUnitDecl, ContextTyped
  <2> QED
    BY <1>21, <1>a, <1>d, <2>2, <2>3, TypeParts DEF VisitTranslationUnitDecl, TypeOK
<1>22. CASE FinishTranslationUnit
  BY <1>22, <1>a, <1>d, EmptySeq, TypeParts
  DEF FinishTranslationUnit, Reset, FramesTyped, ContextTyped, TypeOK, Text
<1>23. CASE Destroy
  <2>1. TablesTyped'
    BY <1>23, <1>0, DeclAssumption DEF Destroy, Fails, ErrorRec, TablesTyped
  <2> QED
    BY <1>23, <1>0, <1>b, <1>d, <2>1, TypeParts DEF Destroy, TypeOK, FramesTyped
<1>24. CASE UNCHANGED vars
  BY <1>24 DEF vars, context, visited, tables, TypeOK
<1> QED
  BY <1>1, <1>2, <1>3, <1>4, <1>5, <1>6, <1>7, <1>8, <1>9, <1>10, <1>11, <1>12,
     <1>13, <1>14, <1>15, <1>16, <1>17, <1>18, <1>19, <1>20, <1>21,
     <1>22, <1>23, <1>24 DEF Next

-----------------------------------------------------------------------------
(* StackCoherent is inductive, and every step is a step of NameStack.      *)

StackStep == StackCoherent' /\ [Names!Next]_<< OpenScopes, WholeName >>

(* Prefixes of a text are not changed by what is appended to it, and a     *)
(* prefix of a prefix is a prefix.                                         *)
LEMMA PrefixOfConcat ==
  ASSUME NEW s \in Text, NEW t \in Text, NEW n \in 0..Len(s)
  PROVE  SubSeq(s \o t, 1, n) = SubSeq(s, 1, n)
BY DEF Text

LEMMA PrefixOfPrefix ==
  ASSUME NEW s \in Text, NEW m \in 0..Len(s), NEW n \in 0..m
  PROVE  SubSeq(SubSeq(s, 1, m), 1, n) = SubSeq(s, 1, n)
BY DEF Text

(* The sequence without its last element, as a function.                   *)
LEMMA CutAsFunction ==
  ASSUME NEW S, NEW s \in Seq(S), Len(s) > 0
  PROVE  SubSeq(s, 1, Len(s) - 1) = [i \in 1..(Len(s) - 1) |-> s[i]]
OBVIOUS

(* Cutting a text is taking a prefix: LeaveDeclContext never pads.         *)
LEMMA ResizeCuts ==
  ASSUME NEW s \in Text, NEW n \in 0..Len(s)
  PROVE  Resize(s, n) = SubSeq(s, 1, n) /\ Len(Resize(s, n)) = n
BY DEF Resize, Text

(* The bounds that StackCoherent gives for a running walk.                 *)
LEMMA SizesBounded ==
  ASSUME TypeOK, StackCoherent, frames # << >>
  PROVE  /\ Len(frames) \in Nat \ {0} /\ DOMAIN frames = 1..Len(frames)
         /\ Len(NameSizes) = Len(frames) /\ Len(DeclContexts) = Len(frames)
         /\ Len(WholeName) \in Nat
         /\ \A i \in 1..Len(frames) : NameSizes[i] \in 0..Len(WholeName)
<1>1. /\ Len(frames) \in Nat \ {0} /\ DOMAIN frames = 1..Len(frames)
      /\ NameSizes \in Seq(Nat) /\ Len(WholeName) \in Nat
  BY EmptySeq, LenProperties DEF TypeOK, Text
<1>2. \A i \in 1..Len(frames) : NameSizes[i] <= NameSizes[Len(frames)]
  BY <1>1 DEF StackCoherent
<1> QED
  BY <1>1, <1>2 DEF StackCoherent

LEMMA EnterStep ==
  ASSUME TypeOK, StackCoherent, UNCHANGED phase,
         frames # << >>, Top.rest # << >>,
         NEW d, NEW name \in Text, NEW rest, NEW fn, NEW access,
         Visit(d, name, fn, rest, access)
  PROVE  StackStep
<1> DEFINE n == Len(frames)
           w == WholeName \o name
           f == [fn |-> fn, ctx |-> d, rest |-> rest, cur |-> w, access |-> access]
<1>1. /\ Advance \in Seq(AnyFrame) /\ Len(Advance) = n /\ n \in Nat \ {0}
      /\ \A i \in 1..n : Advance[i].cur = frames[i].cur
  BY TopTyped
<1>2. /\ NameSizes \in Seq(Nat) /\ DeclContexts \in Seq(Decl)
      /\ WholeName \in Text /\ w \in Text /\ Len(w) \in Nat
      /\ Len(WholeName) \in Nat /\ Len(WholeName) <= Len(w)
  BY DEF TypeOK, Text
<1>3. /\ Len(NameSizes) = n /\ Len(DeclContexts) = n
      /\ \A i \in 1..n : NameSizes[i] \in 0..Len(WholeName)
  BY SizesBounded
<1>4. /\ WholeName' = w /\ NameSizes' = Append(NameSizes, Len(w))
      /\ DeclContexts' = Append(DeclContexts, d) /\ frames' = Append(Advance, f)
  BY DEF Visit, EnterDeclContext
<1>5. /\ Len(frames') = n + 1 /\ DOMAIN frames' = 1..(n + 1)
      /\ frames'[n + 1] = f /\ \A i \in 1..n : frames'[i] = Advance[i]
  BY <1>1, <1>4
<1>6. /\ Len(NameSizes') = n + 1 /\ Len(DeclContexts') = n + 1
      /\ NameSizes'[n + 1] = Len(w)
      /\ \A i \in 1..n : NameSizes'[i] = NameSizes[i]
  BY <1>2, <1>3, <1>4
<1>7. \A i \in 1..n : SubSeq(w, 1, NameSizes[i]) = SubSeq(WholeName, 1, NameSizes[i])
  BY <1>2, <1>3, PrefixOfConcat
<1>8. SubSeq(w, 1, Len(w)) = w
  BY <1>2, SubSeqFull DEF Text
<1>9. StackCoherent'
  <2>1. \A i, j \in 1..(n + 1) : i <= j => NameSizes'[i] <= NameSizes'[j]
    <3>1. \A i \in 1..(n + 1) : i <= n \/ i = n + 1
      BY <1>1
    <3>2. \A i, j \in 1..n : i <= j => NameSizes[i] <= NameSizes[j]
      BY <1>1, SizesBounded DEF StackCoherent
    <3> QED
      BY <1>1, <1>2, <1>3, <1>6, <3>1, <3>2
  <2>2. \A i \in 1..(n + 1) : frames'[i].cur = SubSeq(WholeName', 1, NameSizes'[i])
    <3>1. \A i \in 1..n : frames[i].cur = SubSeq(WholeName, 1, NameSizes[i])
      BY SizesBounded DEF StackCoherent
    <3>2. \A i \in 1..n : frames'[i].cur = SubSeq(WholeName', 1, NameSizes'[i])
      BY <1>1, <1>4, <1>5, <1>6, <1>7, <3>1
    <3>3. frames'[n + 1].cur = SubSeq(WholeName', 1, NameSizes'[n + 1])
      BY <1>4, <1>5, <1>6, <1>8
    <3> QED
      BY <1>1, <3>2, <3>3
  <2> QED
    BY <1>4, <1>5, <1>6, <2>1, <2>2 DEF StackCoherent
<1>10. Names!Enter
  <2>1. IsPrefix(WholeName, WholeName')
    BY <1>2, <1>4, PrefixOfConcat DEF IsPrefix
  <2>2. OpenScopes' = Append(OpenScopes, WholeName')
    BY <1>1, <1>2, <1>3, <1>4, <1>6, <1>7, <1>8 DEF OpenScopes
  <2> QED
    BY <2>1, <2>2 DEF Names!Enter, Names!IsPrefix, IsPrefix
<1> QED
  BY <1>9, <1>10 DEF StackStep, Names!Next

LEMMA LeaveStep ==
  ASSUME TypeOK, StackCoherent, Return
  PROVE  StackStep
<1> DEFINE n == Len(frames)
           m == NameSizes[n - 1]
           w == SubSeq(WholeName, 1, m)
<1>1. /\ frames \in Seq(AnyFrame) /\ n \in Nat /\ n > 1 /\ frames # << >>
      /\ NameSizes \in Seq(Nat) /\ DeclContexts \in Seq(Decl)
      /\ WholeName \in Text
  BY EmptySeq, LenProperties DEF Return, TypeOK, AnyFrame
<1>2. /\ Len(NameSizes) = n /\ Len(DeclContexts) = n /\ DOMAIN frames = 1..n
      /\ \A i \in 1..n : NameSizes[i] \in 0..Len(WholeName)
  BY <1>1, SizesBounded
<1>3. m \in 0..Len(WholeName)
  BY <1>1, <1>2
<1>4. /\ WholeName' = w /\ Len(w) = m
      /\ NameSizes' = SubSeq(NameSizes, 1, n - 1)
      /\ DeclContexts' = SubSeq(DeclContexts, 1, n - 1)
      /\ frames' = SubSeq(frames, 1, n - 1)
  BY <1>1, <1>2, <1>3, ResizeCuts DEF Return, LeaveDeclContext, Front
<1>5. /\ Len(frames') = n - 1 /\ DOMAIN frames' = 1..(n - 1)
      /\ Len(NameSizes') = n - 1 /\ Len(DeclContexts') = n - 1
      /\ \A i \in 1..(n - 1) : /\ frames'[i] = frames[i]
                              /\ NameSizes'[i] = NameSizes[i]
  BY <1>1, <1>2, <1>4
<1>6. \A i, j \in 1..n : i <= j => NameSizes[i] <= NameSizes[j]
  BY <1>1, <1>2 DEF StackCoherent
<1>7. \A i \in 1..(n - 1) : NameSizes[i] \in 0..m
  BY <1>1, <1>2, <1>6
<1>8. \A i \in 1..(n - 1) : SubSeq(w, 1, NameSizes[i]) = SubSeq(WholeName, 1, NameSizes[i])
  BY <1>1, <1>3, <1>7, PrefixOfPrefix
<1>9. StackCoherent'
  <2>1. \A i \in 1..(n - 1) : frames[i].cur = SubSeq(WholeName, 1, NameSizes[i])
    <3>1. \A i \in DOMAIN frames : frames[i].cur = SubSeq(WholeName, 1, NameSizes[i])
      BY <1>1, Zenon DEF StackCoherent
    <3>2. \A i \in 1..(n - 1) : i \in DOMAIN frames
      BY <1>1, <1>2
    <3> QED
      BY <3>1, <3>2, Zenon
  <2>2. \A i \in 1..(n - 1) : frames'[i].cur = SubSeq(WholeName', 1, NameSizes'[i])
    BY <1>4, <1>5, <1>8, <2>1
  <2>3. \A i, j \in 1..(n - 1) : i <= j => NameSizes'[i] <= NameSizes'[j]
    BY <1>1, <1>5, <1>6
  <2>4. NameSizes'[n - 1] = Len(WholeName')
    <3>1. n - 1 \in 1..(n - 1)
      BY <1>1
    <3>2. NameSizes'[n - 1] = m
      BY <1>5, <3>1, Zenon
    <3> QED
      BY <1>4, <3>2, Zenon
  <2>5. phase' = "walking"
    BY <1>1 DEF Return, StackCoherent
  <2> QED
    BY <1>5, <2>2, <2>3, <2>4, <2>5 DEF StackCoherent
<1>10. Names!Leave
  <2>1. Len(OpenScopes) = n
    BY <1>1, <1>2 DEF OpenScopes
  <2>2. OpenScopes' = SubSeq(OpenScopes, 1, n - 1)
    <3>1. \A i \in 1..(n - 1) :
            SubSeq(WholeName', 1, NameSizes'[i]) = SubSeq(WholeName, 1, NameSizes[i])
      BY <1>4, <1>5, <1>8, Zenon
    <3>2. OpenScopes' = [i \in 1..(n - 1) |-> SubSeq(WholeName, 1, NameSizes[i])]
      BY <1>5, <3>1 DEF OpenScopes
    <3>3. OpenScopes = [i \in 1..n |-> SubSeq(WholeName, 1, NameSizes[i])]
      BY <1>2 DEF OpenScopes
    <3>4. \A i \in 1..n : SubSeq(WholeName, 1, NameSizes[i]) \in Text
      BY <1>1, <1>2 DEF Text
    <3>5. OpenScopes \in Seq(Text) /\ Len(OpenScopes) = n
      BY <1>1, <3>3, <3>4
    <3>6. SubSeq(OpenScopes, 1, n - 1) = [i \in 1..(n - 1) |-> OpenScopes[i]]
      BY <1>1, <3>5, CutAsFunction
    <3>7. [i \in 1..(n - 1) |-> OpenScopes[i]]
            = [i \in 1..(n - 1) |-> SubSeq(WholeName, 1, NameSizes[i])]
      <4>1. \A i \in 1..(n - 1) : i \in 1..n
        BY <1>1
      <4>2. \A i \in 1..(n - 1) :
              OpenScopes[i] = SubSeq(WholeName, 1, NameSizes[i])
        BY <3>3, <4>1, Zenon
      <4> QED
        BY <4>2, Zenon
    <3> QED
      BY <3>2, <3>6, <3>7, Zenon
  <2>3. OpenScopes'[n - 1] = w /\ Len(OpenScopes') = n - 1
    BY <1>1, <1>2, <1>5, <1>8, <1>4 DEF OpenScopes
  <2> QED
    BY <1>1, <1>4, <2>1, <2>2, <2>3 DEF Names!Leave, Names!Front, Names!Last
<1> QED
  BY <1>9, <1>10 DEF StackStep, Names!Next

(* A step inside one activation.                                           *)
LEMMA InnerStep ==
  ASSUME TypeOK, StackCoherent, frames # << >>, UNCHANGED << phase, context >>,
         frames' \in Seq(AnyFrame), Len(frames') = Len(frames),
         \A i \in 1..Len(frames) : frames'[i].cur = frames[i].cur
  PROVE  StackStep
<1>1. /\ Len(frames) \in Nat \ {0}
      /\ DOMAIN frames = 1..Len(frames) /\ DOMAIN frames' = 1..Len(frames)
  BY SizesBounded, LenProperties
<1>2. StackCoherent'
  BY <1>1 DEF StackCoherent, context
<1> QED
  BY <1>2 DEF StackStep, OpenScopes, context

LEMMA NextDeclStep ==
  ASSUME TypeOK, StackCoherent, frames # << >>, Top.rest # << >>,
         UNCHANGED phase, NextDecl
  PROVE  StackStep
BY TopTyped, InnerStep DEF NextDecl, context

LEMMA VisitStep ==
  ASSUME TypeOK, StackCoherent, UNCHANGED phase,
         frames # << >>, Top.rest # << >>, NEW d \in Decl,
         \/ VisitNamespaceDecl(d) \/ VisitLinkageSpecDecl(d) \/ VisitEnumDecl(d)
         \/ VisitCXXRecordDecl(d) \/ VisitClassTemplateDecl(d)
  PROVE  StackStep
<1>1. << >> \in Text /\ ast[d].name \in Text /\ Member(d) \in Text
  BY AstTyped, EmptySeq DEF Text
<1> QED
  BY <1>1, EnterStep DEF VisitNamespaceDecl, VisitLinkageSpecDecl,
     VisitEnumDecl, VisitCXXRecordDecl, VisitClassTemplateDecl

(* Without activations there is nothing to be coherent, and a reset clears *)
(* the stack.                                                              *)
LEMMA ResetStep ==
  ASSUME frames' = << >>, Reset \/ UNCHANGED context
  PROVE  StackStep
<1>1. StackCoherent'
  BY DEF StackCoherent
<1>2. ASSUME Reset PROVE Names!Clear
  <2>1. OpenScopes' = << >>
    BY <1>2 DEF Reset, OpenScopes
  <2> QED
    BY <1>2, <2>1 DEF Reset, Names!Clear
<1> QED
  BY <1>1, <1>2 DEF StackStep, Names!Next, OpenScopes, context

LEMMA StartStep ==
  ASSUME VisitTranslationUnitDecl
  PROVE  StackStep
<1>1. /\ frames' = << [fn |-> "IterateScope", ctx |-> TU, rest |-> ast[TU].kids,
                       cur |-> << >>, access |-> "none"] >>
      /\ WholeName' = << >> /\ NameSizes' = << 0 >> /\ DeclContexts' = << TU >>
      /\ phase' = "walking"
  BY DEF VisitTranslationUnitDecl
<1>2. /\ Len(frames') = 1 /\ DOMAIN frames' = {1} /\ frames'[1].cur = << >>
      /\ Len(NameSizes') = 1 /\ Len(DeclContexts') = 1 /\ NameSizes'[1] = 0
      /\ Len(WholeName') = 0 /\ SubSeq(WholeName', 1, 0) = << >>
  BY <1>1
<1>3. StackCoherent'
  <2>1. frames'[1].cur = SubSeq(WholeName', 1, NameSizes'[1])
    BY <1>2
  <2>2. \A i \in DOMAIN frames' : i = 1
    BY <1>2
  <2>3. /\ phase' = "walking"
        /\ Len(NameSizes') = Len(frames') /\ Len(DeclContexts') = Len(frames')
        /\ NameSizes'[Len(frames')] = Len(WholeName')
    BY <1>1, <1>2
  <2>4. \A i, j \in DOMAIN frames' : i <= j => NameSizes'[i] <= NameSizes'[j]
    BY <1>2, <2>2
  <2> QED
    BY <2>1, <2>2, <2>3, <2>4, Zenon DEF StackCoherent
<1>4. OpenScopes' = << << >> >>
  <2>1. OpenScopes' = [i \in 1..1 |-> SubSeq(WholeName', 1, NameSizes'[i])]
    BY <1>2 DEF OpenScopes
  <2>2. \A i \in 1..1 : SubSeq(WholeName', 1, NameSizes'[i]) = << >>
    BY <1>2
  <2>3. OpenScopes' = [i \in 1..1 |-> << >>]
    BY <2>1, <2>2
  <2> QED
    BY <2>3
<1> QED
  BY <1>1, <1>3, <1>4 DEF StackStep, Names!Next, Names!Clear

LEMMA StackNext == TypeOK /\ StackCoherent /\ [Next]_vars => StackStep
<1> SUFFICES ASSUME TypeOK, StackCoherent, [Next]_vars PROVE StackStep
  OBVIOUS
<1>1. ASSUME frames # << >>, Top.rest # << >>
      PROVE  Cur \in Decl /\ Canonical(Cur) \in Decl
  BY <1>1, TopTyped, AstTyped
<1>2. CASE ScopeNamespace \/ ScopeLinkage \/ ScopeTemplate \/ ScopeEnum
  BY <1>1, <1>2, VisitStep
  DEF ScopeNamespace, ScopeLinkage, ScopeTemplate, ScopeEnum, At
<1>3. CASE ScopeRecord \/ ClassRecord
  BY <1>1, <1>3, VisitStep DEF ScopeRecord, ClassRecord, At
<1>4. CASE ClassTemplate \/ ClassEnum
  BY <1>1, <1>4, VisitStep DEF ClassTemplate, ClassEnum, At
<1>5. CASE ScopeFunction \/ ScopeLeaf \/ ScopeIgnored
  BY <1>5, NextDeclStep DEF ScopeFunction, ScopeLeaf, ScopeIgnored, At
<1>6. CASE ClassFunction \/ ClassLeaf \/ ClassIgnored
  BY <1>6, NextDeclStep DEF ClassFunction, ClassLeaf, ClassIgnored, At
<1>7. CASE SkipVisited \/ Enumerator
  BY <1>7, NextDeclStep DEF SkipVisited, Enumerator, At
<1>8. CASE ClassAccess
  <2>1. /\ frames # << >> /\ Top.rest # << >> /\ UNCHANGED << phase, context >>
        /\ frames' = [Advance EXCEPT ![Len(frames)].access = ast[Cur].kind]
    BY <1>8 DEF ClassAccess, At
  <2>2. /\ Advance \in Seq(AnyFrame) /\ Len(Advance) = Len(frames)
        /\ \A i \in 1..Len(frames) : Advance[i].cur = frames[i].cur
    BY <2>1, TopTyped
  <2>3. TypeOK'
    BY TypeStep
  <2>4. /\ Len(frames') = Len(frames)
        /\ \A i \in 1..Len(frames) : frames'[i].cur = Advance[i].cur
    BY <2>1, <2>2 DEF AnyFrame, ScopeFrame, ClassFrame
  <2> QED
    BY <2>1, <2>2, <2>3, <2>4, InnerStep DEF TypeOK, AnyFrame
<1>9. CASE ClassGuide
  BY <1>9, ResetStep DEF ClassGuide
<1>10. CASE Return
  BY <1>10, LeaveStep
<1>11. CASE FinishTranslationUnit
  BY <1>11, ResetStep DEF FinishTranslationUnit
<1>12. CASE VisitTranslationUnitDecl
  BY <1>12, StartStep
<1>13. CASE Construct \/ Destroy
  <2>1. frames = << >>
    BY <1>13 DEF Construct, Destroy, StackCoherent
  <2> QED
    BY <1>13, <2>1, ResetStep DEF Construct, Destroy
<1>14. CASE UNCHANGED vars
  BY <1>14 DEF vars, context, StackStep, StackCoherent, OpenScopes
<1> QED
  BY <1>2, <1>3, <1>4, <1>5, <1>6, <1>7, <1>8, <1>9, <1>10, <1>11, <1>12,
     <1>13, <1>14 DEF Next

-----------------------------------------------------------------------------
(* The theorems. *)

(* Every state of every walk is typed: in particular every row of class    *)
(* has an access specifier, so that EncodeAccessSpecifier never gets to    *)
(* its llvm_unreachable; and the three stacks are coherent.                *)
THEOREM StackInvariant == Spec => [](TypeOK /\ StackCoherent)
<1>1. Init => TypeOK /\ StackCoherent
  BY TypeInit DEF Init, StackCoherent
<1>2. TypeOK /\ StackCoherent /\ [Next]_vars => (TypeOK /\ StackCoherent)'
  BY TypeStep, StackNext DEF StackStep
<1> QED
  BY <1>1, <1>2, PTL DEF Spec

(* Each variable, above all each row of the tables, has its type.          *)
THEOREM TypeCorrect == Spec => []TypeOK
BY StackInvariant, PTL

(* The assertions of LeaveDeclContext never fail.                          *)
THEOREM LeaveAssertsHold == Spec => []LeaveAsserts
<1>1. TypeOK /\ StackCoherent => LeaveAsserts
  <2> SUFFICES ASSUME TypeOK, StackCoherent, Len(frames) > 1 PROVE LeaveAsserts
    BY DEF LeaveAsserts
  <2>1. frames # << >>
    BY EmptySeq
  <2> QED
    BY <2>1 DEF StackCoherent, LeaveAsserts
<1> QED
  BY <1>1, StackInvariant, PTL

(* Whatever a loop has visited, it goes on under the scope text it started *)
(* with: a row of class and its symbol never name different scopes.        *)
THEOREM ScopeIsRestored == Spec => []ScopeRestored
<1>1. TypeOK /\ StackCoherent => ScopeRestored
  <2> SUFFICES ASSUME TypeOK, StackCoherent, frames # << >>
               PROVE  Top.cur = WholeName
    BY DEF ScopeRestored, CurrentScope
  <2>1. Top = frames[Len(frames)] /\ Len(frames) \in DOMAIN frames
    BY TopTyped, SizesBounded
  <2>2. Top.cur = SubSeq(WholeName, 1, Len(WholeName))
    BY <2>1 DEF StackCoherent
  <2> QED
    BY <2>2, SubSeqFull DEF TypeOK, Text
<1> QED
  BY <1>1, StackInvariant, PTL

(* WholeName with NameSizes implements the stack of whole scope texts.     *)
THEOREM ContextImplementsNameStack == Spec => ImplementsNameStack
<1>1. Init => Names!Init
  BY DEF Init, Names!Init, OpenScopes
<1>2. TypeOK /\ StackCoherent /\ [Next]_vars
        => [Names!Next]_<< OpenScopes, WholeName >>
  BY StackNext DEF StackStep
<1> QED
  BY <1>1, <1>2, StackInvariant, PTL DEF Spec, ImplementsNameStack, Names!Spec

-----------------------------------------------------------------------------
(* What an action does to the tables.                                      *)

(* One row is tried: it is in one table or lost; and its symbol is tried,  *)
(* unless it is a namespace's.                                             *)
TryRow(r) ==
  /\ \/ Namespaces' = Append(Namespaces, r) /\ UNCHANGED << Classes, lost >>
     \/ Classes' = Append(Classes, r) /\ UNCHANGED << Namespaces, lost >>
     \/ lost' = lost \cup {r} /\ UNCHANGED << Classes, Namespaces >>
  /\ \/ r.type.what = "namespace" /\ UNCHANGED << Symbols, errs >>
     \/ /\ r.type.what # "namespace"
        /\ \E bad \in SUBSET CallsThatMayFail :
             InsertSymbol(r.name \o r.member, r.of, bad)

LEMMA NamespaceTried ==
  ASSUME NEW scope, NEW short, NEW d, NEW type, type.what # "namespace",
         InsertIntoNamespace(scope, short, type, d)
  PROVE  TryRow(NewRow(scope, short, type, d))
<1> DEFINE r == NewRow(scope, short, type, d)
<1>1. PICK bad \in SUBSET CallsThatMayFail :
        /\ Namespaces' = AddRow(Namespaces, r, bad)
        /\ lost' = AddLost(r, bad)
        /\ InsertSymbol(scope \o short, d, bad)
        /\ UNCHANGED Classes
  BY DEF InsertIntoNamespace
<1>2. r.name = scope /\ r.member = short /\ r.type = type /\ r.of = d
  BY DEF NewRow
<1> QED
  BY <1>1, <1>2 DEF TryRow, AddRow, AddLost

LEMMA ClassTried ==
  ASSUME NEW short, NEW d, NEW type, type.what # "namespace",
         InsertIntoClass(CurrentScope, short, type, d)
  PROVE  TryRow(NewRow(WholeName, short, type, d))
<1> DEFINE r == NewRow(WholeName, short, type, d)
<1>1. PICK bad \in SUBSET CallsThatMayFail :
        /\ Classes' = AddRow(Classes, r, bad)
        /\ lost' = AddLost(r, bad)
        /\ InsertSymbol(WholeName \o short, d, bad)
        /\ UNCHANGED Namespaces
  BY DEF InsertIntoClass, CurrentScope
<1>2. r.name = WholeName /\ r.member = short /\ r.type = type /\ r.of = d
  BY DEF NewRow
<1> QED
  BY <1>1, <1>2 DEF TryRow, AddRow, AddLost

LEMMA NamespaceDeclTried ==
  ASSUME NEW scope, NEW d, InsertNamespaceDecl(scope, d)
  PROVE  TryRow(NewRow(scope, ast[d].name, TypeOf("namespace", "none"), d))
<1> DEFINE r == NewRow(scope, ast[d].name, TypeOf("namespace", "none"), d)
<1>1. PICK bad \in SUBSET (CallsThatMayFail \cap {"row"}) :
        /\ Namespaces' = AddRow(Namespaces, r, bad)
        /\ lost' = AddLost(r, bad)
        /\ UNCHANGED << Classes, Symbols, errs >>
  BY DEF InsertNamespaceDecl
<1>2. r.type.what = "namespace"
  BY DEF NewRow, TypeOf
<1> QED
  BY <1>1, <1>2 DEF TryRow, AddRow, AddLost

(* A class or function that the walk has been to.                          *)
Seen(d) == \/ ast[d].kind \in Record /\ d \in VisitedClasses
           \/ ast[d].kind \in Function /\ d \in VisitedFunctions
Marks(d) == \/ ast[d].kind \in Record /\ d \in VisitedClasses'
            \/ ast[d].kind \in Function /\ d \in VisitedFunctions'

(* The access the running loop gives a member.                             *)
HasAccess(r) == \/ r.type.what = "enumconst" /\ r.type.access = "public"
                \/ /\ r.type.what # "enumconst" /\ r.type.access = Top.access
                   /\ Top.fn = "IterateClass"

(* The row that the running loop tries is about the declaration its        *)
(* iterator is on and stands under the loop's scope.                       *)
RowOfCur(r) ==
  /\ frames # << >> /\ Top.rest # << >>
  /\ Top.fn \in {"IterateScope", "IterateClass", "VisitEnumDecl"}
  /\ r \in NamespaceRow \cup ClassRow
  /\ r.name = Top.cur /\ r.of = Canonical(Cur)
  /\ Top.fn = "IterateScope" => r.type.access = "none"
  /\ Top.fn # "IterateScope" => r.type.access # "none"
  /\ Top.fn = "VisitEnumDecl" => ast[Cur].kind # "body"
  /\ Top.fn = "IterateClass" => ast[Cur].kind \notin Access
  /\ Top.fn # "IterateScope" => HasAccess(r)
  /\ ast[r.of].kind \in Record \cup Function => ~Seen(r.of) /\ Marks(r.of)
  /\ TryRow(r)
(* The loop that is started below that row, if one is.                     *)
Opens(r, f) ==
  /\ f.fn \in {"IterateScope", "IterateClass", "VisitEnumDecl"} /\ f.ctx = r.of
  /\ f.fn = "IterateScope" => /\ r.type.what = "namespace"
                              /\ ast[f.ctx].kind = "namespace"
  /\ f.fn = "VisitEnumDecl" => ast[f.ctx].kind = "enum"
  /\ ast[r.of].kind \notin Record \/ ast[r.of].sig = << >>
       => f.cur = r.name \o r.member
  /\ f.rest = IF f.fn = "IterateClass" THEN Members(f.ctx) ELSE ast[f.ctx].kids
  /\ f.fn = "IterateClass" => /\ f.access = DefaultAccess(f.ctx)
                              /\ ast[f.ctx].kind \in Record \cup Template

Moves(r) == \/ frames' = Advance /\ ast[r.of].kind \in Leaf \cup Function
            \/ \E f : frames' = Append(Advance, f) /\ Opens(r, f)

LEMMA CurIsScope ==
  ASSUME TypeOK, StackCoherent, frames # << >>
  PROVE  Top.cur = WholeName
<1>1. Top = frames[Len(frames)] /\ Len(frames) \in DOMAIN frames
  BY TopTyped, SizesBounded
<1>2. Top.cur = SubSeq(WholeName, 1, Len(WholeName))
  BY <1>1 DEF StackCoherent
<1> QED
  BY <1>2, SubSeqFull DEF TypeOK, Text

(* Which declarations have another one as their definition.                *)
LEMMA Definitions ==
  ASSUME TypeOK, WellFormed(ast), NEW d \in Decl
  PROVE  /\ ast[d].kind \in Record => ast[Canonical(d)].kind \in Record
         /\ ast[d].kind \in Function => ast[Canonical(d)].kind \in Function
         /\ ast[d].kind \notin Record \cup Function => Canonical(d) = d
         /\ Record \cap Function = {}
<1>1. Record \cap Function = {}
  BY DEF Record, Function
<1>2. ast[d].def # NoDecl =>
        \E K \in {Record, Function} : ast[d].kind \in K /\ ast[ast[d].def].kind \in K
  BY DEF WellFormed
<1> QED
  BY <1>1, <1>2 DEF Canonical

(* The actions that try a row.                                             *)
RowAction ==
  \/ ScopeNamespace \/ ScopeRecord \/ ScopeTemplate \/ ScopeLeaf \/ ScopeEnum
  \/ ClassRecord \/ ClassTemplate \/ ClassLeaf \/ ClassEnum \/ Enumerator
  \/ ScopeFunction /\ ~UNCHANGED tables
  \/ ClassFunction /\ ~UNCHANGED tables

LEMMA RowActionTries ==
  ASSUME TypeOK, StackCoherent, WellFormed(ast), RowAction
  PROVE  \E r : RowOfCur(r) /\ Moves(r)
<1>1. frames # << >> /\ Top.rest # << >>
  BY DEF RowAction, At, ScopeNamespace, ScopeRecord, ScopeTemplate, ScopeLeaf,
     ScopeEnum, ClassRecord, ClassTemplate, ClassLeaf, ClassEnum, Enumerator,
     ScopeFunction, ClassFunction
<1>2. Top.cur = WholeName /\ Top.cur \in Text /\ Cur \in Decl /\ Canonical(Cur) \in Decl
  BY <1>1, CurIsScope, TopTyped, AstTyped DEF TypeOK
<1>3. Top.fn = "IterateClass" => Top.access \in Access
  BY <1>1, TopTyped DEF ClassFrame
<1>4. /\ ast[Cur].kind \in Record => ast[Canonical(Cur)].kind \in Record
      /\ ast[Cur].kind \in Function => ast[Canonical(Cur)].kind \in Function
      /\ ast[Cur].kind \notin Record \cup Function => Canonical(Cur) = Cur
  BY <1>2, Definitions
<1>5. "none" \notin Access
  BY DEF Access
<1> DEFINE d == Canonical(Cur)
           R(short, type) == NewRow(Top.cur, short, type, d)
           New == ast[d].kind \in Record \cup Function => ~Seen(d) /\ Marks(d)
<1>6. ASSUME NEW short \in Text, NEW type \in [what: What, access: {"none"}],
             Top.fn = "IterateScope", New, TryRow(R(short, type))
      PROVE  RowOfCur(R(short, type))
  <2>1. R(short, type) \in NamespaceRow
    BY <1>2 DEF NewRow, NamespaceRow
  <2> QED
    BY <1>1, <1>6, <2>1 DEF RowOfCur, NewRow
<1>7. ASSUME NEW short \in Text, NEW type \in [what: What, access: Access],
             Top.fn \in {"IterateClass", "VisitEnumDecl"},
             Top.fn = "VisitEnumDecl" => ast[Cur].kind # "body",
             Top.fn = "IterateClass" => ast[Cur].kind \notin Access,
             \/ type.what = "enumconst" /\ type.access = "public"
             \/ /\ type.what # "enumconst" /\ type.access = Top.access
                /\ Top.fn = "IterateClass",
             New, TryRow(R(short, type))
      PROVE  RowOfCur(R(short, type))
  <2>1. R(short, type) \in ClassRow
    BY <1>2 DEF NewRow, ClassRow
  <2>2. HasAccess(R(short, type))
    BY <1>7 DEF HasAccess, NewRow
  <2> QED
    BY <1>1, <1>5, <1>7, <2>1, <2>2 DEF RowOfCur, NewRow
<1>8. ASSUME ShouldVisitClass(d) \/ ShouldVisitFunction(d), UNCHANGED input,
             ast[Cur].kind \in Record => ShouldVisitClass(d),
             ast[Cur].kind \in Function => ShouldVisitFunction(d),
             ast[Cur].kind \in Record \cup Function
      PROVE  New
  BY <1>2, <1>4, <1>8, Definitions DEF Seen, Marks, ShouldVisitClass, ShouldVisitFunction
<1>9. ASSUME ast[Cur].kind \notin Record \cup Function
      PROVE  d = Cur /\ New
  BY <1>4, <1>9
<1>10. ASSUME NEW short, NEW type,
              \/ /\ VisitNamespaceDecl(d) /\ short = ast[d].name
                 /\ type.what = "namespace" /\ ast[d].kind = "namespace"
              \/ VisitCXXRecordDecl(d) /\ ast[d].kind \in Record /\ short = Member(d)
              \/ /\ VisitClassTemplateDecl(d) /\ ast[d].kind \in Template
                 /\ short = Member(d)
              \/ VisitEnumDecl(d) /\ short = ast[d].name /\ ast[d].kind = "enum"
       PROVE  Moves(R(short, type))
  <2>1. /\ R(short, type).name = WholeName /\ R(short, type).of = d
        /\ R(short, type).member = short /\ R(short, type).type = type
    BY <1>2 DEF NewRow
  <2>2. ASSUME NEW fn \in {"IterateScope", "IterateClass", "VisitEnumDecl"},
               NEW name, NEW access,
               Visit(d, name, fn, IF fn = "IterateClass" THEN Members(d)
                                  ELSE ast[d].kids, access),
               fn = "IterateScope" => /\ type.what = "namespace"
                                      /\ ast[d].kind = "namespace",
               fn = "VisitEnumDecl" => ast[d].kind = "enum",
               fn = "IterateClass" => /\ access = DefaultAccess(d)
                                      /\ ast[d].kind \in Record \cup Template,
               ast[d].kind \notin Record \/ ast[d].sig = << >> => name = short
        PROVE  Moves(R(short, type))
    <3> DEFINE rest == IF fn = "IterateClass" THEN Members(d) ELSE ast[d].kids
               f == [fn |-> fn, ctx |-> d, rest |-> rest,
                     cur |-> WholeName \o name, access |-> access]
    <3>1. frames' = Append(Advance, f)
      BY <2>2 DEF Visit
    <3>2. /\ f.fn = fn /\ f.ctx = d /\ f.rest = rest /\ f.cur = WholeName \o name
          /\ f.access = access
      OBVIOUS
    <3>3. Opens(R(short, type), f)
      BY <2>1, <2>2, <3>2 DEF Opens
    <3> QED
      BY <3>1, <3>3, Zenon DEF Moves
  <2>3. ast[d].sig = << >> => Member(d) = ast[d].name
    BY <1>2, AstTyped DEF Member, Text
  <2>4. CASE /\ VisitNamespaceDecl(d) /\ short = ast[d].name
             /\ type.what = "namespace" /\ ast[d].kind = "namespace"
    BY <2>2, <2>4 DEF VisitNamespaceDecl
  <2>5. CASE VisitEnumDecl(d) /\ short = ast[d].name /\ ast[d].kind = "enum"
    BY <2>2, <2>5 DEF VisitEnumDecl
  <2>6. CASE VisitClassTemplateDecl(d) /\ ast[d].kind \in Template /\ short = Member(d)
    BY <2>2, <2>6 DEF VisitClassTemplateDecl
  <2>7. CASE VisitCXXRecordDecl(d) /\ ast[d].kind \in Record /\ short = Member(d)
    BY <2>2, <2>3, <2>7 DEF VisitCXXRecordDecl
  <2> QED
    BY <1>10, <2>4, <2>5, <2>6, <2>7
<1>11. ASSUME NextDecl, NEW r, ast[r.of].kind \in Leaf \cup Function PROVE Moves(r)
  BY <1>11 DEF NextDecl, Moves
<1>12. /\ ast[d].name \in Text /\ Member(d) \in Text
       /\ \A a : /\ RecordType(d, a) \in [what: {"struct", "class"}, access: {a}]
                 /\ RecordType(d, a) \in [what: What, access: {a}]
  BY <1>2, AstTyped DEF RecordType, TypeOf, What
<1> USE DEF At
<1>a. \A short, type : R(short, type).of = d
  BY DEF NewRow
<1> HIDE DEF R, New
<1> DEFINE Goal == \E r : RowOfCur(r) /\ Moves(r)
<1>13. CASE ScopeNamespace
  <2> DEFINE t == TypeOf("namespace", "none")
  <2>1. /\ Top.fn = "IterateScope" /\ ast[Cur].kind \notin Record \cup Function
        /\ InsertNamespaceDecl(Top.cur, Cur) /\ VisitNamespaceDecl(Cur)
        /\ ast[Cur].kind = "namespace"
    BY <1>13 DEF ScopeNamespace, Record, Function
  <2>2. d = Cur /\ New
    BY <1>9, <2>1
  <2>3. TryRow(R(ast[d].name, t))
    BY <2>1, <2>2, NamespaceDeclTried DEF R
  <2>4. t \in [what: What, access: {"none"}] /\ t.what = "namespace"
    BY DEF TypeOf, What
  <2>5. RowOfCur(R(ast[d].name, t))
    BY <1>6, <1>12, <2>1, <2>2, <2>3, <2>4
  <2>6. Moves(R(ast[d].name, t))
    BY <1>10, <2>1, <2>2, <2>4
  <2> QED
    BY <2>5, <2>6
<1>14. CASE ScopeRecord
  <2>1. /\ Top.fn = "IterateScope" /\ ast[Cur].kind \in Record
        /\ ShouldVisitClass(d) /\ UNCHANGED input
        /\ InsertIntoNamespace(Top.cur, Member(d), RecordType(d, "none"), d)
        /\ VisitCXXRecordDecl(d)
    BY <1>14 DEF ScopeRecord
  <2>2. New /\ ast[d].kind \in Record
    BY <1>2, <1>4, <1>8, <2>1, Definitions
  <2>3. TryRow(R(Member(d), RecordType(d, "none")))
    BY <1>12, <2>1, NamespaceTried DEF R
  <2> QED
    BY <1>6, <1>10, <1>12, <2>1, <2>2, <2>3
<1>15. CASE ScopeTemplate
  <2>1. /\ Top.fn = "IterateScope" /\ ast[Cur].kind \notin Record \cup Function
        /\ InsertIntoNamespace(Top.cur, Member(Cur), RecordType(Cur, "none"), Cur)
        /\ VisitClassTemplateDecl(Cur) /\ ast[Cur].kind \in Template
    BY <1>15 DEF ScopeTemplate, Record, Function, Template
  <2>2. d = Cur /\ New
    BY <1>9, <2>1
  <2>3. TryRow(R(Member(d), RecordType(d, "none")))
    BY <1>12, <2>1, <2>2, NamespaceTried DEF R
  <2> QED
    BY <1>6, <1>10, <1>12, <2>1, <2>2, <2>3
<1>16. CASE ScopeLeaf
  <2>1. /\ Top.fn = "IterateScope" /\ ast[Cur].kind \notin Record \cup Function
        /\ ast[Cur].kind # "enumconst" /\ NextDecl /\ ast[Cur].kind \in Leaf
        /\ InsertIntoNamespace(Top.cur, Member(Cur), LeafType(Cur, "none"), Cur)
    BY <1>16 DEF ScopeLeaf, Record, Function, Leaf
  <2>2. d = Cur /\ New
    BY <1>9, <2>1
  <2>3. /\ LeafType(d, "none") \in [what: What, access: {"none"}]
        /\ LeafType(d, "none").what # "namespace"
    BY <2>1, <2>2, LeafTyped DEF LeafType, TypeOf
  <2>4. TryRow(R(Member(d), LeafType(d, "none")))
    BY <2>1, <2>2, <2>3, NamespaceTried DEF R
  <2> QED
    BY <1>6, <1>a, <1>4, <1>11, <1>12, <2>1, <2>2, <2>3, <2>4
<1>17. CASE ScopeEnum
  <2>1. /\ Top.fn = "IterateScope" /\ ast[Cur].kind \notin Record \cup Function
        /\ InsertIntoNamespace(Top.cur, ast[Cur].name, TypeOf("enum", "none"), Cur)
        /\ VisitEnumDecl(Cur) /\ ast[Cur].kind = "enum"
    BY <1>17 DEF ScopeEnum, Record, Function
  <2>2. d = Cur /\ New
    BY <1>9, <2>1
  <2>3. /\ TypeOf("enum", "none") \in [what: What, access: {"none"}]
        /\ TypeOf("enum", "none").what # "namespace"
    BY DEF TypeOf, What
  <2>4. TryRow(R(ast[d].name, TypeOf("enum", "none")))
    BY <2>1, <2>2, <2>3, NamespaceTried DEF R
  <2> QED
    BY <1>6, <1>10, <1>12, <2>1, <2>2, <2>3, <2>4
<1>18. CASE ScopeFunction /\ ~UNCHANGED tables
  <2>1. /\ Top.fn = "IterateScope" /\ ast[Cur].kind \in Function
        /\ ShouldVisitFunction(d) /\ UNCHANGED input /\ NextDecl
        /\ InsertIntoNamespace(Top.cur, Member(d), TypeOf("value", "none"), d)
    BY <1>18 DEF ScopeFunction
  <2>2. New
    BY <1>2, <1>8, <2>1, Definitions
  <2>3. /\ TypeOf("value", "none") \in [what: What, access: {"none"}]
        /\ TypeOf("value", "none").what # "namespace"
    BY DEF TypeOf, What
  <2>4. TryRow(R(Member(d), TypeOf("value", "none")))
    BY <2>1, <2>3, NamespaceTried DEF R
  <2> QED
    BY <1>6, <1>a, <1>4, <1>11, <1>12, <2>1, <2>2, <2>3, <2>4
<1>19. CASE ClassRecord
  <2>1. /\ Top.fn = "IterateClass" /\ ast[Cur].kind \in Record
        /\ ShouldVisitClass(d) /\ UNCHANGED input
        /\ ast[Cur].kind \notin Access
        /\ InsertIntoClass(CurrentScope, Member(d), RecordType(d, Top.access), d)
        /\ VisitCXXRecordDecl(d)
    BY <1>19 DEF ClassRecord, Record, Access
  <2>2. New /\ ast[d].kind \in Record
    BY <1>2, <1>4, <1>8, <2>1, Definitions
  <2>3. TryRow(R(Member(d), RecordType(d, Top.access)))
    BY <1>2, <1>12, <2>1, ClassTried DEF R
  <2>4. /\ RecordType(d, Top.access) \in [what: What, access: Access]
        /\ RecordType(d, Top.access).access = Top.access
        /\ RecordType(d, Top.access).what # "enumconst"
    BY <1>3, <1>12, <2>1 DEF What
  <2> QED
    BY <1>7, <1>10, <1>12, <2>1, <2>2, <2>3, <2>4
<1>20. CASE ClassTemplate
  <2>1. /\ Top.fn = "IterateClass" /\ ast[Cur].kind \notin Record \cup Function \cup Access
        /\ InsertIntoClass(CurrentScope, Member(Cur), RecordType(Cur, Top.access), Cur)
        /\ VisitClassTemplateDecl(Cur) /\ ast[Cur].kind \in Template
    BY <1>20 DEF ClassTemplate, Record, Function, Template, Access
  <2>2. d = Cur /\ New
    BY <1>9, <2>1
  <2>3. TryRow(R(Member(d), RecordType(d, Top.access)))
    BY <1>2, <1>12, <2>1, <2>2, ClassTried DEF R
  <2>4. /\ RecordType(d, Top.access) \in [what: What, access: Access]
        /\ RecordType(d, Top.access).access = Top.access
        /\ RecordType(d, Top.access).what # "enumconst"
    BY <1>3, <1>12, <2>1 DEF What
  <2> QED
    BY <1>7, <1>10, <1>12, <2>1, <2>2, <2>3, <2>4
<1>21. CASE ClassLeaf
  <2>1. /\ Top.fn = "IterateClass" /\ ast[Cur].kind \notin Record \cup Function \cup Access
        /\ InsertIntoClass(CurrentScope, Member(Cur), LeafType(Cur, Top.access), Cur)
        /\ NextDecl /\ ast[Cur].kind \in Leaf
    BY <1>21 DEF ClassLeaf, Record, Function, Leaf, Access
  <2>2. d = Cur /\ New
    BY <1>9, <2>1
  <2>3. /\ LeafType(d, Top.access) \in [what: What, access: Access]
        /\ LeafType(d, Top.access).what # "namespace"
        /\ \/ /\ LeafType(d, Top.access).what = "enumconst"
              /\ LeafType(d, Top.access).access = "public"
           \/ /\ LeafType(d, Top.access).what # "enumconst"
              /\ LeafType(d, Top.access).access = Top.access
    BY <1>3, <2>1, <2>2, LeafTyped DEF LeafType, TypeOf
  <2>4. TryRow(R(Member(d), LeafType(d, Top.access)))
    BY <1>2, <2>1, <2>2, <2>3, ClassTried DEF R
  <2> QED
    BY <1>7, <1>a, <1>4, <1>11, <1>12, <2>1, <2>2, <2>3, <2>4
<1>22. CASE ClassEnum
  <2>1. /\ Top.fn = "IterateClass" /\ ast[Cur].kind \notin Record \cup Function \cup Access
        /\ InsertIntoClass(CurrentScope, ast[Cur].name, TypeOf("enum", Top.access), Cur)
        /\ VisitEnumDecl(Cur) /\ ast[Cur].kind = "enum"
    BY <1>22 DEF ClassEnum, Record, Function, Access
  <2>2. d = Cur /\ New
    BY <1>9, <2>1
  <2>3. /\ TypeOf("enum", Top.access) \in [what: What, access: Access]
        /\ TypeOf("enum", Top.access).what = "enum"
        /\ TypeOf("enum", Top.access).access = Top.access
    BY <1>3, <2>1 DEF TypeOf, What
  <2>4. TryRow(R(ast[d].name, TypeOf("enum", Top.access)))
    BY <1>2, <2>1, <2>2, <2>3, ClassTried DEF R
  <2> QED
    BY <1>7, <1>10, <1>12, <2>1, <2>2, <2>3, <2>4
<1>23. CASE ClassFunction /\ ~UNCHANGED tables
  <2>1. /\ Top.fn = "IterateClass" /\ ast[Cur].kind \in Function
        /\ ShouldVisitFunction(d) /\ UNCHANGED input /\ NextDecl
        /\ ast[Cur].kind \notin Access
        /\ InsertIntoClass(CurrentScope, Member(d), TypeOf("value", Top.access), d)
    BY <1>23 DEF ClassFunction, Function, Access
  <2>2. New
    BY <1>2, <1>8, <2>1, Definitions
  <2>3. /\ TypeOf("value", Top.access) \in [what: What, access: Access]
        /\ TypeOf("value", Top.access).what = "value"
        /\ TypeOf("value", Top.access).access = Top.access
    BY <1>3, <2>1 DEF TypeOf, What
  <2>4. TryRow(R(Member(d), TypeOf("value", Top.access)))
    BY <1>2, <2>1, <2>3, ClassTried DEF R
  <2> QED
    BY <1>7, <1>a, <1>4, <1>11, <1>12, <2>1, <2>2, <2>3, <2>4
<1>24. CASE Enumerator
  <2>1. /\ Top.fn = "VisitEnumDecl" /\ ast[Cur].kind = "enumconst" /\ NextDecl
        /\ ast[Cur].kind \in Leaf
        /\ InsertIntoClass(CurrentScope, ast[Cur].name,
                           TypeOf("enumconst", "public"), Cur)
    BY <1>24 DEF Enumerator, Leaf
  <2>2. d = Cur /\ New
    BY <1>9, <2>1 DEF Record, Function
  <2>3. /\ TypeOf("enumconst", "public") \in [what: What, access: Access]
        /\ TypeOf("enumconst", "public").what = "enumconst"
        /\ TypeOf("enumconst", "public").access = "public"
    BY DEF TypeOf, What, Access
  <2>4. TryRow(R(ast[d].name, TypeOf("enumconst", "public")))
    BY <1>2, <2>1, <2>2, <2>3, ClassTried DEF R
  <2> QED
    BY <1>7, <1>a, <1>4, <1>11, <1>12, <2>1, <2>2, <2>3, <2>4
<1> QED
  BY <1>13, <1>14, <1>15, <1>16, <1>17, <1>18, <1>19, <1>20, <1>21, <1>22,
     <1>23, <1>24 DEF RowAction

(* All others leave the tables alone.                                      *)
LEMMA OtherActionsTryNone ==
  ASSUME [Next]_vars, ~RowAction
  PROVE  /\ UNCHANGED rows
         /\ errs' = errs \/ database = "sqlite"
BY DEF RowAction, Next, vars, tables, Fails, Construct, VisitTranslationUnitDecl,
   ScopeLinkage, ScopeFunction, ScopeIgnored, ClassFunction, ClassGuide,
   ClassAccess, ClassIgnored, SkipVisited, Return, FinishTranslationUnit, Destroy

(* ... and the symbols that failed.                                        *)
LEMMA OtherSymbolsKept ==
  ASSUME [Next]_vars, ~RowAction, NEW x
  PROVE  [call |-> "symbol", of |-> x] \in errs' <=> [call |-> "symbol", of |-> x] \in errs
<1>1. ASSUME NEW call, Fails(call), call # "symbol"
      PROVE  [call |-> "symbol", of |-> x] \in errs' <=> [call |-> "symbol", of |-> x] \in errs
  <2>1. [call |-> "symbol", of |-> x] # [call |-> call, of |-> TU]
    BY <1>1
  <2> QED
    BY <1>1, <2>1 DEF Fails
<1>2. errs' = errs \/ Fails("begin") \/ Fails("commit")
  BY DEF RowAction, Next, vars, tables, Construct, VisitTranslationUnitDecl,
     ScopeLinkage, ScopeFunction, ScopeIgnored, ClassFunction, ClassGuide,
     ClassAccess, ClassIgnored, SkipVisited, Return, FinishTranslationUnit, Destroy
<1> QED
  BY <1>1, <1>2

LEMMA InputKept == [Next]_vars => UNCHANGED input
BY DEF Next, vars, Construct, VisitTranslationUnitDecl, ScopeNamespace,
   ScopeLinkage, ScopeRecord, ScopeTemplate, ScopeFunction, ScopeLeaf, ScopeEnum,
   ScopeIgnored, ClassRecord, ClassTemplate, ClassFunction, ClassGuide, ClassLeaf,
   ClassAccess, ClassEnum, ClassIgnored, SkipVisited, Enumerator, Return,
   FinishTranslationUnit, Destroy

LEMMA AppendedRows ==
  ASSUME NEW S, NEW s \in Seq(S), NEW x \in S
  PROVE  /\ Append(s, x) \in Seq(S) /\ Len(Append(s, x)) = Len(s) + 1
         /\ \A i \in 1..Len(s) : Append(s, x)[i] = s[i]
         /\ Append(s, x)[Len(s) + 1] = x
         /\ ToSet(Append(s, x)) = ToSet(s) \cup {x}
         /\ IsPrefix(s, Append(s, x))
<1>1. /\ Append(s, x) \in Seq(S) /\ Len(Append(s, x)) = Len(s) + 1
      /\ \A i \in 1..Len(s) : Append(s, x)[i] = s[i]
      /\ Append(s, x)[Len(s) + 1] = x
      /\ Len(s) \in Nat /\ DOMAIN s = 1..Len(s)
      /\ DOMAIN Append(s, x) = 1..(Len(s) + 1)
  OBVIOUS
<1>2. ToSet(Append(s, x)) = ToSet(s) \cup {x}
  BY <1>1 DEF ToSet
<1>3. SubSeq(Append(s, x), 1, Len(s)) = s
  BY <1>1
<1> QED
  BY <1>1, <1>2, <1>3 DEF IsPrefix

(* A row tried is one row more among all; nothing is taken away.           *)
LEMMA RowAdded ==
  ASSUME TypeOK, NEW r, RowOfCur(r)
  PROVE  /\ AllRows' = AllRows \cup {r}
         /\ IsPrefix(Classes, Classes') /\ IsPrefix(Namespaces, Namespaces')
<1> DEFINE AnyRow == NamespaceRow \cup ClassRow
<1>1. Namespaces \in Seq(AnyRow) /\ Classes \in Seq(AnyRow) /\ r \in AnyRow
  BY DEF TypeOK, RowOfCur
<1>2. \A s \in Seq(AnyRow) : IsPrefix(s, s)
  BY DEF IsPrefix
<1>3. AllRows = ToSet(Namespaces) \cup ToSet(Classes) \cup lost
  BY DEF AllRows, Rows
<1>4. AllRows' = ToSet(Namespaces') \cup ToSet(Classes') \cup lost'
  BY DEF AllRows, Rows
<1> HIDE DEF AnyRow
<1>5. CASE Namespaces' = Append(Namespaces, r) /\ UNCHANGED << Classes, lost >>
  BY <1>1, <1>2, <1>3, <1>4, <1>5, AppendedRows
<1>6. CASE Classes' = Append(Classes, r) /\ UNCHANGED << Namespaces, lost >>
  BY <1>1, <1>2, <1>3, <1>4, <1>6, AppendedRows
<1>7. CASE lost' = lost \cup {r} /\ UNCHANGED << Classes, Namespaces >>
  BY <1>1, <1>2, <1>3, <1>4, <1>7
<1> QED
  BY <1>5, <1>6, <1>7 DEF RowOfCur, TryRow

(* The symbol of a row tried.                                              *)
LEMMA SymbolAdded ==
  ASSUME TypeOK, NEW r, RowOfCur(r)
  PROVE  /\ IsPrefix(Symbols, Symbols')
         /\ IF r.type.what = "namespace"
            THEN UNCHANGED << Symbols, errs >>
            ELSE LET e == [call |-> "symbol", of |-> r.of] IN
                 \/ /\ ToSet(Symbols') = ToSet(Symbols)
                          \cup {[name |-> r.name \o r.member, at |-> r.of]}
                    /\ ast[r.of].loc /\ errs' = errs
                 \/ /\ ~ast[r.of].loc \/ database = "sqlite"
                    /\ UNCHANGED Symbols /\ errs' = errs \cup {e}
<1>1. Symbols \in Seq(SymbolRow) /\ IsPrefix(Symbols, Symbols)
  BY DEF TypeOK, IsPrefix
<1>2. CASE r.type.what = "namespace"
  BY <1>1, <1>2 DEF RowOfCur, TryRow
<1>3. CASE r.type.what # "namespace"
  <2> DEFINE name == r.name \o r.member
             y == [name |-> name, at |-> r.of]
  <2>1. PICK bad \in SUBSET CallsThatMayFail : InsertSymbol(name, r.of, bad)
    BY <1>3 DEF RowOfCur, TryRow
  <2>2. r.of \in Decl /\ name \in Text
    BY DEF RowOfCur, NamespaceRow, ClassRow, Text
  <2>3. y \in SymbolRow
    BY <2>2 DEF SymbolRow
  <2>4. CASE "symbol" \in bad \/ ~ast[r.of].loc
    <3>1. /\ errs' = errs \cup {[call |-> "symbol", of |-> r.of]}
          /\ UNCHANGED Symbols
      BY <2>1, <2>4, Zenon DEF InsertSymbol
    <3>2. ~ast[r.of].loc \/ database = "sqlite"
      BY <2>1, <2>4 DEF CallsThatMayFail
    <3> QED
      BY <1>1, <1>3, <3>1, <3>2
  <2>5. CASE ~("symbol" \in bad \/ ~ast[r.of].loc)
    <3>1. Symbols' = Append(Symbols, y) /\ UNCHANGED errs /\ ast[r.of].loc
      BY <2>1, <2>5, Zenon DEF InsertSymbol
    <3> HIDE DEF y
    <3>2. ToSet(Symbols') = ToSet(Symbols) \cup {y} /\ IsPrefix(Symbols, Symbols')
      BY <1>1, <2>3, <3>1, AppendedRows
    <3> QED
      BY <1>3, <3>1, <3>2 DEF y
  <2> QED
    BY <2>4, <2>5
<1> QED
  BY <1>2, <1>3
-----------------------------------------------------------------------------
(* The tables: what they hold of every walk.                               *)

Coherent == TypeOK /\ StackCoherent /\ WellFormed(ast)

Begun == phase \in {"ready", "walking", "walked"} =>
           InTransaction \/ [call |-> "begin", of |-> TU] \in errs

LEMMA BegunStep == Coherent /\ Begun /\ [Next]_vars => Begun'
<1> SUFFICES ASSUME Coherent, Begun, [Next]_vars PROVE Begun'
  OBVIOUS
<1>1. errs \subseteq errs'
  <2>1. CASE RowAction
    BY <2>1, RowActionTries, SymbolAdded DEF Coherent
  <2>2. CASE ~RowAction
    BY <2>2 DEF RowAction, Next, vars, tables, Fails, Construct,
       VisitTranslationUnitDecl, ScopeLinkage, ScopeFunction, ScopeIgnored,
       ClassFunction, ClassGuide, ClassAccess, ClassIgnored, SkipVisited, Return,
       FinishTranslationUnit, Destroy
  <2> QED
    BY <2>1, <2>2
<1>2. CASE Construct
  BY <1>2 DEF Construct, Fails, Begun
<1>3. CASE Destroy
  BY <1>3 DEF Destroy, Begun
<1>4. CASE VisitTranslationUnitDecl
  BY <1>4 DEF VisitTranslationUnitDecl, Begun, tables
<1>5. CASE FinishTranslationUnit
  <2>1. frames # << >>
    BY <1>5, EmptySeq DEF FinishTranslationUnit
  <2>2. phase = "walking"
    BY <2>1 DEF Coherent, StackCoherent
  <2> QED
    BY <1>5, <2>2 DEF FinishTranslationUnit, Begun, tables
<1>6. CASE ~(Construct \/ Destroy \/ VisitTranslationUnitDecl \/ FinishTranslationUnit)
  <2>1. /\ InTransaction' = InTransaction
        /\ phase' = phase \/ phase' = "crashed"
    BY <1>6 DEF Next, vars, ScopeNamespace, ScopeLinkage, ScopeRecord,
       ScopeTemplate, ScopeFunction, ScopeLeaf, ScopeEnum, ScopeIgnored,
       ClassRecord, ClassTemplate, ClassFunction, ClassGuide, ClassLeaf,
       ClassAccess, ClassEnum, ClassIgnored, SkipVisited, Enumerator, Return
  <2> QED
    BY <1>1, <2>1 DEF Begun
<1> QED
  BY <1>2, <1>3, <1>4, <1>5, <1>6

(* Rows are only tried while a loop runs.                                  *)
TablesStep ==
  /\ << Classes, Namespaces, Symbols >>' # << Classes, Namespaces, Symbols >>
       => InTransaction \/ [call |-> "begin", of |-> TU] \in errs
  /\ IsPrefix(Classes, Classes') /\ IsPrefix(Namespaces, Namespaces')
  /\ IsPrefix(Symbols, Symbols')

LEMMA TablesStepHolds == Coherent /\ Begun /\ [Next]_vars => TablesStep
<1> SUFFICES ASSUME Coherent, Begun, [Next]_vars PROVE TablesStep
  OBVIOUS
<1>1. CASE RowAction
  <2>1. PICK r : RowOfCur(r)
    BY <1>1, RowActionTries DEF Coherent
  <2>2. frames # << >> /\ phase = "walking"
    BY <2>1 DEF RowOfCur, Coherent, StackCoherent
  <2> QED
    BY <2>1, <2>2, RowAdded, SymbolAdded DEF Coherent, Begun, TablesStep
<1>2. CASE ~RowAction
  <2>1. UNCHANGED << Classes, Namespaces, Symbols >>
    BY <1>2, OtherActionsTryNone
  <2>2. /\ IsPrefix(Classes, Classes) /\ IsPrefix(Namespaces, Namespaces)
        /\ IsPrefix(Symbols, Symbols)
    BY DEF IsPrefix, Coherent, TypeOK
  <2> QED
    BY <2>1, <2>2 DEF TablesStep
<1> QED
  BY <1>1, <1>2

(* A class or function with a row, in a table or lost, has been visited.   *)
RowsSeen == \A r \in AllRows : ast[r.of].kind \in Record \cup Function => Seen(r.of)

LEMMA VisitedGrows ==
  ASSUME [Next]_vars
  PROVE  VisitedClasses \subseteq VisitedClasses'
         /\ VisitedFunctions \subseteq VisitedFunctions'
BY DEF Next, vars, visited, Construct, VisitTranslationUnitDecl, ScopeNamespace,
   ScopeLinkage, ScopeRecord, ScopeTemplate, ScopeFunction, ScopeLeaf, ScopeEnum,
   ScopeIgnored, ClassRecord, ClassTemplate, ClassFunction, ClassGuide, ClassLeaf,
   ClassAccess, ClassEnum, ClassIgnored, SkipVisited, Enumerator, Return,
   FinishTranslationUnit, Destroy, ShouldVisitClass, ShouldVisitFunction

LEMMA RowsSeenStep == Coherent /\ RowsSeen /\ [Next]_vars => RowsSeen'
<1> SUFFICES ASSUME Coherent, RowsSeen, [Next]_vars,
                    NEW q \in AllRows', ast[q.of].kind \in Record \cup Function
             PROVE  Seen(q.of)'
  BY InputKept DEF RowsSeen
<1>1. ASSUME Seen(q.of) PROVE Seen(q.of)'
  BY <1>1, InputKept, VisitedGrows DEF Seen
<1>2. CASE RowAction
  <2>1. PICK r : RowOfCur(r)
    BY <1>2, RowActionTries DEF Coherent
  <2>2. q \in AllRows \/ q = r
    BY <2>1, RowAdded DEF Coherent
  <2>3. Marks(r.of) /\ q = r => Seen(q.of)'
    BY InputKept DEF Marks, Seen
  <2> QED
    BY <1>1, <2>1, <2>2, <2>3 DEF RowOfCur, RowsSeen
<1>3. CASE ~RowAction
  <2>1. q \in AllRows
    BY <1>3, OtherActionsTryNone DEF AllRows, Rows
  <2> QED
    BY <1>1, <2>1 DEF RowsSeen
<1> QED
  BY <1>2, <1>3

LEMMA OnceStep == Coherent /\ RowsSeen /\ RecordedOnce /\ [Next]_vars => RecordedOnce'
<1> SUFFICES ASSUME Coherent, RowsSeen, RecordedOnce, [Next]_vars
             PROVE  RecordedOnce'
  OBVIOUS
<1> DEFINE D == {d \in Decl : ast[d].kind \in Record \cup Function}
           Apart(s, t) == \A i \in DOMAIN s, j \in DOMAIN t :
                            s[i].of = t[j].of => s[i].of \notin D
           Once(s, t) == NoRepeat(s, D) /\ NoRepeat(t, D) /\ Apart(s, t)
<1>1. ast' = ast /\ Once(Namespaces, Classes)
  BY InputKept DEF RecordedOnce
<1>2. SUFFICES Once(Namespaces', Classes')
  BY <1>1 DEF RecordedOnce
<1>3. CASE RowAction
  <2>1. PICK r : RowOfCur(r)
    BY <1>3, RowActionTries DEF Coherent
  <2> DEFINE AnyRow == NamespaceRow \cup ClassRow
  <2>2. Namespaces \in Seq(AnyRow) /\ Classes \in Seq(AnyRow) /\ r \in AnyRow
    BY <2>1 DEF Coherent, TypeOK, RowOfCur
  <2>3. \A i \in DOMAIN Namespaces : Namespaces[i].of = r.of => r.of \notin D
    BY <2>1 DEF RowOfCur, RowsSeen, AllRows, Rows, ToSet
  <2>4. \A i \in DOMAIN Classes : Classes[i].of = r.of => r.of \notin D
    BY <2>1 DEF RowOfCur, RowsSeen, AllRows, Rows, ToSet
  <2> HIDE DEF AnyRow, D
  <2>5. ASSUME NEW s \in Seq(AnyRow),
               \A i \in DOMAIN s : s[i].of = r.of => r.of \notin D
        PROVE  /\ DOMAIN s = 1..Len(s) /\ Len(s) \in Nat
               /\ DOMAIN Append(s, r) = 1..(Len(s) + 1)
               /\ \A i \in 1..Len(s) : Append(s, r)[i] = s[i]
               /\ Append(s, r)[Len(s) + 1] = r
               /\ NoRepeat(s, D) => NoRepeat(Append(s, r), D)
    <3>1. /\ DOMAIN s = 1..Len(s) /\ Len(s) \in Nat
          /\ DOMAIN Append(s, r) = 1..(Len(s) + 1)
          /\ \A i \in 1..Len(s) : Append(s, r)[i] = s[i]
          /\ Append(s, r)[Len(s) + 1] = r
      BY <2>2
    <3>2. \A i \in 1..(Len(s) + 1) : i \in 1..Len(s) \/ i = Len(s) + 1
      BY <3>1
    <3> QED
      BY <2>5, <3>1, <3>2 DEF NoRepeat
  <2>6. CASE Namespaces' = Append(Namespaces, r) /\ UNCHANGED << Classes, lost >>
    <3>1. Apart(Namespaces', Classes)
      BY <1>1, <2>2, <2>3, <2>4, <2>5, <2>6
    <3> QED
      BY <1>1, <2>2, <2>3, <2>5, <2>6, <3>1
  <2>7. CASE Classes' = Append(Classes, r) /\ UNCHANGED << Namespaces, lost >>
    <3>1. Apart(Namespaces, Classes')
      BY <1>1, <2>2, <2>3, <2>4, <2>5, <2>7
    <3> QED
      BY <1>1, <2>2, <2>4, <2>5, <2>7, <3>1
  <2>8. CASE UNCHANGED << Classes, Namespaces >>
    BY <1>1, <2>8
  <2> QED
    BY <2>1, <2>6, <2>7, <2>8 DEF RowOfCur, TryRow
<1>4. CASE ~RowAction
  BY <1>1, <1>4, OtherActionsTryNone
<1> QED
  BY <1>3, <1>4
-----------------------------------------------------------------------------
(* The tables are a tree.                                                  *)

(* No record has template arguments in its member column: there are no     *)
(* specialisations, whose members are recorded under the name without      *)
(* them (VisitCXXRecordDecl).                                              *)
Unspecialised(t) == \A d \in Decl : t[d].kind \in Record => t[d].sig = << >>

(* The scope of an activation f is that of a row of R, and what it has     *)
(* still to visit is declared there.                                       *)
PlacedIn(f, R) ==
  /\ f.fn = "IterateScope" =>
       \/ f.cur = << >>
       \/ \E q \in R : q.type.what = "namespace" /\ f.cur = q.name \o q.member
  /\ f.fn # "IterateScope" =>
       /\ \E q \in R : q.of = f.ctx /\ f.cur = q.name \o q.member
       /\ \A i \in DOMAIN f.rest : f.rest[i] \in ToSet(ast[f.ctx].kids)
  /\ f.fn = "IterateClass" => \A i \in DOMAIN f.rest : ast[f.rest[i]].kind # "body"

Placed == \A i \in DOMAIN frames : PlacedIn(frames[i], AllRows)

(* g is f further on.                                                      *)
Continues(f, g) ==
  /\ g.fn = f.fn /\ g.ctx = f.ctx /\ g.cur = f.cur
  /\ \A i \in DOMAIN g.rest : \E j \in DOMAIN f.rest : g.rest[i] = f.rest[j]

LEMMA StaysPlaced ==
  ASSUME NEW f, NEW g, NEW R, NEW Q, PlacedIn(f, R), Continues(f, g), R \subseteq Q
  PROVE  PlacedIn(g, Q)
BY DEF PlacedIn, Continues

LEMMA Updated ==
  ASSUME NEW s, NEW n \in DOMAIN s, NEW t
  PROVE  /\ DOMAIN [s EXCEPT ![n] = t] = DOMAIN s
         /\ [s EXCEPT ![n] = t][n] = t
         /\ \A i \in DOMAIN s : i # n => [s EXCEPT ![n] = t][i] = s[i]
OBVIOUS

LEMMA AdvanceContinues ==
  ASSUME TypeOK, frames # << >>, Top.rest # << >>
  PROVE  /\ DOMAIN Advance = DOMAIN frames
         /\ \A i \in DOMAIN frames : Continues(frames[i], Advance[i])
<1>1. /\ frames \in Seq(AnyFrame) /\ Len(frames) \in Nat \ {0}
      /\ DOMAIN frames = 1..Len(frames) /\ Top = frames[Len(frames)]
      /\ Top \in AnyFrame /\ Top.rest \in Seq(Decl)
  BY TopTyped DEF TypeOK, AnyFrame, ScopeFrame, ClassFrame
<1>2. /\ DOMAIN Advance = DOMAIN frames
      /\ Advance[Len(frames)] = [Top EXCEPT !.rest = Tail(@)]
      /\ \A i \in 1..Len(frames) : i # Len(frames) => Advance[i] = frames[i]
  <2> DEFINE t == [Top EXCEPT !.rest = Tail(@)]
  <2>1. Advance = [frames EXCEPT ![Len(frames)] = t]
    BY <1>1 DEF Advance
  <2> HIDE DEF t
  <2>2. /\ DOMAIN Advance = DOMAIN frames /\ Advance[Len(frames)] = t
        /\ \A i \in 1..Len(frames) : i # Len(frames) => Advance[i] = frames[i]
    <3>1. Len(frames) \in DOMAIN frames
      BY <1>1
    <3> QED
      BY <1>1, <2>1, <3>1, Updated, Zenon
  <2> USE DEF t
  <2> QED
    BY <2>2
<1>3. \A i \in 1..Len(frames) : Continues(frames[i], frames[i])
  BY DEF Continues
<1>4. Continues(Top, [Top EXCEPT !.rest = Tail(@)])
  <2>1. /\ Tail(Top.rest) \in Seq(Decl) /\ Len(Tail(Top.rest)) = Len(Top.rest) - 1
        /\ \A i \in 1..(Len(Top.rest) - 1) : Tail(Top.rest)[i] = Top.rest[i + 1]
        /\ Len(Top.rest) \in Nat
    BY <1>1, HeadTailProperties
  <2>2. \A i \in DOMAIN Tail(Top.rest) : \E j \in DOMAIN Top.rest :
          Tail(Top.rest)[i] = Top.rest[j]
    <3> TAKE i \in DOMAIN Tail(Top.rest)
    <3>1. i + 1 \in DOMAIN Top.rest /\ Tail(Top.rest)[i] = Top.rest[i + 1]
      BY <1>1, <2>1
    <3> QED
      BY <3>1
  <2> QED
    BY <1>1, <2>2 DEF Continues, AnyFrame, ScopeFrame, ClassFrame
<1> QED
  BY <1>1, <1>2, <1>3, <1>4

(* What is opened below a row is placed.                                   *)
LEMMA OpenedIsPlaced ==
  ASSUME TypeOK, WellFormed(ast), Unspecialised(ast), NEW r, NEW f, NEW R,
         r \in R, r.of \in Decl, Opens(r, f)
  PROVE  PlacedIn(f, R)
<1>1. f.cur = r.name \o r.member /\ f.ctx = r.of
  BY DEF Opens, Unspecialised
<1>2. ast[f.ctx].kids \in Seq(Decl)
  BY <1>1, AstTyped
<1>3. CASE f.fn = "IterateClass"
  <2>1. f.rest = Members(f.ctx)
    BY <1>3 DEF Opens
  <2>2. CASE ast[f.ctx].kids = << >>
    <3>1. f.rest = << >> /\ DOMAIN f.rest = {}
      BY <1>1, <2>1, <2>2 DEF Members
    <3> QED
      BY <1>1, <1>3, <3>1 DEF PlacedIn
  <2>3. CASE ast[f.ctx].kids # << >>
    <3> DEFINE k == ast[f.ctx].kids
    <3>1. /\ f.rest = Tail(k) /\ Len(k) \in Nat /\ DOMAIN k = 1..Len(k)
          /\ DOMAIN Tail(k) = 1..(Len(k) - 1)
          /\ \A i \in 1..(Len(k) - 1) : Tail(k)[i] = k[i + 1]
      BY <1>2, <2>1, <2>3, HeadTailProperties DEF Members
    <3>2. \A i \in DOMAIN f.rest :
            f.rest[i] \in ToSet(k) /\ ast[f.rest[i]].kind # "body"
      <4> TAKE i \in DOMAIN f.rest
      <4>1. i + 1 \in DOMAIN k /\ i + 1 > 1 /\ f.rest[i] = k[i + 1]
        BY <3>1
      <4>2. f.rest[i] \in ToSet(k)
        BY <4>1 DEF ToSet
      <4>3. ast[k[i + 1]].kind # "body"
        BY <1>1, <4>1 DEF WellFormed
      <4> QED
        BY <4>1, <4>2, <4>3
    <3> QED
      BY <1>1, <1>3, <3>2 DEF PlacedIn
  <2> QED
    BY <2>2, <2>3
<1>4. CASE f.fn = "VisitEnumDecl"
  BY <1>1, <1>2, <1>4 DEF PlacedIn, Opens, ToSet
<1>5. CASE f.fn = "IterateScope"
  BY <1>1, <1>5 DEF PlacedIn, Opens
<1> QED
  BY <1>3, <1>4, <1>5 DEF Opens
LEMMA PlacedStep ==
  Coherent /\ Unspecialised(ast) /\ Placed /\ [Next]_vars => Placed'
<1> SUFFICES ASSUME Coherent, Unspecialised(ast), Placed, [Next]_vars
             PROVE  Placed'
  OBVIOUS
<1>1. ast' = ast /\ AllRows \subseteq AllRows'
  <2>1. CASE RowAction
    BY <2>1, InputKept, RowActionTries, RowAdded DEF Coherent
  <2>2. CASE ~RowAction
    BY <2>2, InputKept, OtherActionsTryNone DEF AllRows, Rows
  <2> QED
    BY <2>1, <2>2
<1> DEFINE All(s) == \A i \in DOMAIN s : PlacedIn(s[i], AllRows')
<1>2. Placed' <=> All(frames')
  BY <1>1 DEF Placed, PlacedIn
<1>3. \A f : Continues(f, f)
  BY DEF Continues
<1>4. All(frames)
  BY <1>1, <1>3, StaysPlaced DEF Placed
<1>5. ASSUME frames # << >>, Top.rest # << >>
      PROVE  /\ All(Advance) /\ Advance \in Seq(AnyFrame)
             /\ PlacedIn(Top, AllRows') /\ Top \in AnyFrame
  <2>1. All(Advance)
    BY <1>1, <1>5, AdvanceContinues, StaysPlaced DEF Placed, Coherent
  <2>2. Top = frames[Len(frames)] /\ Len(frames) \in DOMAIN frames
    BY <1>5, TopTyped, SizesBounded DEF Coherent
  <2> QED
    BY <1>4, <1>5, <2>1, <2>2, TopTyped DEF Coherent
<1>6. ASSUME frames # << >>, Top.rest # << >>, NEW f, PlacedIn(f, AllRows'),
             frames' = Append(Advance, f)
      PROVE  All(frames')
  <2>1. /\ Len(Advance) \in Nat /\ DOMAIN Advance = 1..Len(Advance)
        /\ DOMAIN frames' = 1..(Len(Advance) + 1)
        /\ frames'[Len(Advance) + 1] = f
        /\ \A i \in 1..Len(Advance) : frames'[i] = Advance[i]
    BY <1>5, <1>6
  <2>2. \A i \in 1..(Len(Advance) + 1) : i \in 1..Len(Advance) \/ i = Len(Advance) + 1
    BY <2>1
  <2> HIDE DEF Advance
  <2> QED
    BY <1>5, <1>6, <2>1, <2>2
<1> HIDE DEF All
<1>7. CASE RowAction
  <2>1. PICK r : RowOfCur(r) /\ Moves(r)
    BY <1>7, RowActionTries DEF Coherent
  <2>2. /\ frames # << >> /\ Top.rest # << >> /\ r \in AllRows' /\ r.of \in Decl
    BY <2>1, RowAdded DEF Coherent, RowOfCur, NamespaceRow, ClassRow
  <2>3. ASSUME NEW f, Opens(r, f) PROVE PlacedIn(f, AllRows')
    BY <2>2, <2>3, OpenedIsPlaced DEF Coherent
  <2> QED
    BY <1>2, <1>5, <1>6, <2>1, <2>2, <2>3 DEF Moves
<1>8. CASE ScopeLinkage
  <2> DEFINE f == [fn |-> "IterateScope", ctx |-> Cur, rest |-> ast[Cur].kids,
                   cur |-> WholeName \o << >>, access |-> "none"]
  <2>1. /\ frames # << >> /\ Top.rest # << >> /\ Top.fn = "IterateScope"
        /\ frames' = Append(Advance, f)
    BY <1>8 DEF ScopeLinkage, At, VisitLinkageSpecDecl, Visit
  <2>2. f.cur = Top.cur /\ f.fn = "IterateScope"
    BY <2>1, CurIsScope DEF Coherent, TypeOK, Text
  <2>3. PlacedIn(f, AllRows')
    BY <1>5, <2>1, <2>2 DEF PlacedIn
  <2> QED
    BY <1>2, <1>6, <2>1, <2>3
<1>9. CASE ClassAccess
  <2> DEFINE n == Len(frames)
  <2>1. /\ frames # << >> /\ Top.rest # << >>
        /\ frames' = [Advance EXCEPT ![n].access = ast[Cur].kind]
    BY <1>9 DEF ClassAccess, At
  <2>2. /\ Advance \in Seq(AnyFrame) /\ DOMAIN Advance = DOMAIN frames
        /\ n \in DOMAIN Advance
    BY <2>1, AdvanceContinues, TopTyped, SizesBounded DEF Coherent
  <2>3. /\ DOMAIN frames' = DOMAIN Advance
        /\ \A i \in DOMAIN Advance : Continues(Advance[i], frames'[i])
    BY <2>1, <2>2 DEF Continues, AnyFrame, ScopeFrame, ClassFrame
  <2> QED
    BY <1>2, <1>5, <2>1, <2>3, StaysPlaced DEF All
<1>10. CASE Return
  <2>1. /\ frames \in Seq(AnyFrame) /\ Len(frames) \in Nat /\ Len(frames) > 1
        /\ frames' = SubSeq(frames, 1, Len(frames) - 1)
    BY <1>10 DEF Return, Front, Coherent, TypeOK, AnyFrame
  <2>2. \A i \in DOMAIN frames' : i \in DOMAIN frames /\ frames'[i] = frames[i]
    BY <2>1
  <2> QED
    BY <1>2, <1>4, <2>2 DEF All
<1>11. CASE VisitTranslationUnitDecl
  <2> DEFINE f == [fn |-> "IterateScope", ctx |-> TU, rest |-> ast[TU].kids,
                   cur |-> << >>, access |-> "none"]
  <2>1. frames' = << f >> /\ DOMAIN frames' = {1} /\ frames'[1] = f
    BY <1>11 DEF VisitTranslationUnitDecl
  <2>2. PlacedIn(f, AllRows')
    BY DEF PlacedIn
  <2> QED
    BY <1>2, <2>1, <2>2 DEF All
<1>12. CASE ClassGuide \/ FinishTranslationUnit
  <2>1. frames' = << >> /\ DOMAIN frames' = {}
    BY <1>12 DEF ClassGuide, FinishTranslationUnit
  <2> QED
    BY <1>2, <2>1 DEF All
<1>13. CASE \/ ScopeFunction \/ ScopeIgnored \/ ClassFunction \/ ClassIgnored
            \/ SkipVisited
  <2>1. frames # << >> /\ Top.rest # << >> /\ frames' = Advance
    BY <1>13 DEF ScopeFunction, ScopeIgnored, ClassFunction, ClassIgnored,
       SkipVisited, At, NextDecl
  <2> QED
    BY <1>2, <1>5, <2>1
<1>14. CASE Construct \/ Destroy \/ UNCHANGED vars
  <2>1. frames' = frames
    BY <1>14 DEF Construct, Destroy, vars
  <2> QED
    BY <1>2, <1>4, <2>1
<1> QED
  BY <1>7, <1>8, <1>9, <1>10, <1>11, <1>12, <1>13, <1>14 DEF Next, RowAction

LEMMA NestedStep ==
  Coherent /\ Placed /\ RowsNested /\ [Next]_vars => RowsNested'
<1> SUFFICES ASSUME Coherent, Placed, RowsNested, [Next]_vars PROVE RowsNested'
  OBVIOUS
<1> DEFINE Nested(r, R) ==
             \/ r.type.access = "none" /\ r.name = << >>
             \/ \E q \in R :
                  /\ r.name = q.name \o q.member
                  /\ IF r.type.access = "none" THEN q.type.what = "namespace"
                     ELSE r.of \in Held(q.of)
<1>1. RowsNested <=> \A r \in AllRows : Nested(r, AllRows)
  BY DEF RowsNested
<1>2. RowsNested' <=> \A r \in AllRows' : Nested(r, AllRows')
  <2>1. ast' = ast
    BY InputKept
  <2>2. \A d : Held(d)' = Held(d)
    BY <2>1 DEF Held, Canonical
  <2> QED
    BY <2>2 DEF RowsNested
<1>3. CASE RowAction
  <2>1. PICK r : RowOfCur(r)
    BY <1>3, RowActionTries DEF Coherent
  <2>2. AllRows' = AllRows \cup {r}
    BY <2>1, RowAdded DEF Coherent
  <2>3. frames # << >> /\ Top.rest # << >> /\ PlacedIn(Top, AllRows)
    <3>1. frames # << >> /\ Top.rest # << >>
      BY <2>1 DEF RowOfCur
    <3>2. Top = frames[Len(frames)] /\ Len(frames) \in DOMAIN frames
      BY <3>1, TopTyped, SizesBounded DEF Coherent
    <3> QED
      BY <3>1, <3>2 DEF Placed
  <2>4. \E i \in DOMAIN Top.rest : Cur = Top.rest[i]
    <3>1. Top.rest \in Seq(Decl)
      BY <2>3, TopTyped DEF Coherent, AnyFrame, ScopeFrame, ClassFrame
    <3>2. 1 \in DOMAIN Top.rest /\ Cur = Top.rest[1]
      BY <2>3, <3>1, EmptySeq DEF Cur
    <3> QED
      BY <3>2
  <2>5. Nested(r, AllRows)
    <3>1. CASE Top.fn = "IterateScope"
      BY <2>1, <2>3, <3>1 DEF RowOfCur, PlacedIn
    <3>2. CASE Top.fn # "IterateScope"
      <4>1. PICK q \in AllRows : q.of = Top.ctx /\ Top.cur = q.name \o q.member
        BY <2>3, <3>2 DEF PlacedIn
      <4>2. Cur \in ToSet(ast[Top.ctx].kids) /\ ast[Cur].kind # "body"
        BY <2>1, <2>3, <2>4, <3>2 DEF PlacedIn, RowOfCur
      <4>3. r.of \in Held(q.of)
        BY <2>1, <4>1, <4>2 DEF Held, RowOfCur
      <4> QED
        BY <2>1, <3>2, <4>1, <4>3 DEF RowOfCur
    <3> QED
      BY <3>1, <3>2
  <2> QED
    BY <1>1, <1>2, <2>2, <2>5
<1>4. CASE ~RowAction
  <2>1. AllRows' = AllRows
    BY <1>4, OtherActionsTryNone DEF AllRows, Rows
  <2> QED
    BY <1>1, <1>2, <2>1
<1> QED
  BY <1>3, <1>4

-----------------------------------------------------------------------------
(* The access in force. *)

(* The first declaration in a class, which IterateClass skips, is not an   *)
(* access specifier: it is so in a class with a name.                      *)
SkipsNoSpecifier(t) ==
  \A d \in Decl : 1 \in DOMAIN t[d].kids => t[t[d].kids[1]].kind \notin Access

(* The local Access of IterateClass is what the specifiers before its      *)
(* iterator, in this class, say.                                           *)
InForceAt(f, k) ==
  LET s == ast[f.ctx].kids IN
  /\ ast[f.ctx].kind \in Record \cup Template
  /\ f.access = AccessAt(f.ctx, k)
  /\ \A i \in DOMAIN f.rest : k + i - 1 \in DOMAIN s /\ f.rest[i] = s[k + i - 1]

InForceIn(f) ==
  f.fn = "IterateClass" => \E k \in Nat \ {0} : InForceAt(f, k)

InForce == \A i \in DOMAIN frames : InForceIn(frames[i])

LEMMA AccessKept ==
  ASSUME ast' = ast, NEW d, NEW i
  PROVE  AccessAt(d, i)' = AccessAt(d, i)
<1> DEFINE AccessIn(t) ==
             LET specs == {j \in 1..(i - 1) : t[t[d].kids[j]].kind \in Access}
             IN  IF specs = {}
                 THEN IF t[d].kind \in {"class", "class template"} THEN "private"
                      ELSE "public"
                 ELSE t[t[d].kids[CHOOSE j \in specs : \A k \in specs : k <= j]].kind
<1>1. AccessAt(d, i) = AccessIn(ast)
  BY DEF AccessAt, DefaultAccess, IsClass
<1>2. AccessAt(d, i)' = AccessIn(ast')
  BY DEF AccessAt, DefaultAccess, IsClass
<1> HIDE DEF AccessIn
<1> QED
  BY <1>1, <1>2

LEMMA AccessMovesOn ==
  ASSUME TypeOK, NEW d \in Decl, NEW k \in DOMAIN ast[d].kids
  PROVE  AccessAt(d, k + 1) = IF ast[ast[d].kids[k]].kind \in Access
                              THEN ast[ast[d].kids[k]].kind ELSE AccessAt(d, k)
<1> DEFINE Specifier(j) == ast[ast[d].kids[j]].kind \in Access
           specs(i) == {j \in 1..(i - 1) : Specifier(j)}
           Latest(S) == CHOOSE j \in S : \A m \in S : m <= j
           InLatest(S) == IF S = {} THEN DefaultAccess(d) ELSE ast[ast[d].kids[Latest(S)]].kind
<1>1. \A i : AccessAt(d, i) = InLatest(specs(i))
  BY DEF AccessAt
<1>2. k \in Nat \ {0}
  BY AstTyped
<1>3. specs(k + 1) = specs(k) \cup {j \in {k} : Specifier(j)}
  <2> HIDE DEF Specifier
  <2>1. 1..((k + 1) - 1) = 1..(k - 1) \cup {k}
    BY <1>2
  <2> QED
    BY <2>1
<1> HIDE DEF Specifier
<1>4. CASE Specifier(k)
  <2>1. k \in specs(k + 1) /\ \A j \in specs(k + 1) : j <= k /\ j \in Nat
    BY <1>2, <1>3, <1>4
  <2> HIDE DEF specs
  <2>2. Latest(specs(k + 1)) = k
    BY <1>2, <2>1
  <2> QED
    BY <1>1, <1>4, <2>1, <2>2 DEF Specifier
<1>5. CASE ~Specifier(k)
  BY <1>1, <1>3, <1>5 DEF Specifier
<1> QED
  BY <1>4, <1>5

(* A loop begins with the access of the class key.                         *)
LEMMA OpenedInForce ==
  ASSUME TypeOK, SkipsNoSpecifier(ast), NEW r, NEW f, r.of \in Decl, Opens(r, f)
  PROVE  InForceIn(f)
<1> SUFFICES ASSUME f.fn = "IterateClass"
             PROVE  \E k \in Nat \ {0} : InForceAt(f, k)
  BY DEF InForceIn
<1> DEFINE s == ast[f.ctx].kids
<1>1. /\ f.ctx \in Decl /\ f.rest = Members(f.ctx) /\ f.access = DefaultAccess(f.ctx)
      /\ ast[f.ctx].kind \in Record \cup Template
  BY DEF Opens
<1>2. s \in Seq(Decl)
  BY <1>1, AstTyped
<1>3. AccessAt(f.ctx, 1) = DefaultAccess(f.ctx)
  BY DEF AccessAt
<1>4. CASE s = << >>
  <2>1. f.rest = << >> /\ DOMAIN f.rest = {}
    BY <1>1, <1>4 DEF Members
  <2>2. InForceAt(f, 1)
    BY <1>1, <1>3, <2>1 DEF InForceAt
  <2> QED
    BY <2>2
<1>5. CASE s # << >>
  <2>1. 1 \in DOMAIN s /\ AccessAt(f.ctx, 1 + 1) = DefaultAccess(f.ctx)
    BY <1>1, <1>2, <1>3, <1>5, AccessMovesOn DEF SkipsNoSpecifier
  <2>2. /\ f.rest = Tail(s) /\ Len(s) \in Nat \ {0} /\ DOMAIN s = 1..Len(s)
        /\ DOMAIN Tail(s) = 1..(Len(s) - 1)
        /\ \A i \in 1..(Len(s) - 1) : Tail(s)[i] = s[i + 1]
    BY <1>1, <1>2, <1>5, HeadTailProperties DEF Members
  <2>3. ASSUME NEW i \in DOMAIN f.rest
        PROVE  2 + i - 1 \in DOMAIN s /\ f.rest[i] = s[2 + i - 1]
    <3>1. i \in Nat /\ i \in 1..(Len(s) - 1) /\ 2 + i - 1 = i + 1
      BY <2>2
    <3> QED
      BY <2>2, <3>1
  <2>4. InForceAt(f, 2)
    BY <1>1, <2>1, <2>3 DEF InForceAt
  <2> QED
    BY <2>4
<1> QED
  BY <1>4, <1>5

(* One turn of the loop.                                                   *)
LEMMA TopMovesOn ==
  ASSUME TypeOK, frames # << >>, Top.rest # << >>, InForceIn(Top), NEW g,
         g.fn = Top.fn, g.ctx = Top.ctx, g.rest = Tail(Top.rest),
         Top.fn = "IterateClass" =>
           g.access = IF ast[Cur].kind \in Access THEN ast[Cur].kind ELSE Top.access
  PROVE  InForceIn(g)
<1> SUFFICES ASSUME Top.fn = "IterateClass"
             PROVE  \E k \in Nat \ {0} : InForceAt(g, k)
  BY DEF InForceIn
<1> DEFINE s == ast[Top.ctx].kids
<1>1. PICK k \in Nat \ {0} : InForceAt(Top, k)
  BY DEF InForceIn
<1>2. Top.rest \in Seq(Decl) /\ Top.ctx \in Decl /\ s \in Seq(Decl)
  BY TopTyped, AstTyped DEF AnyFrame, ScopeFrame, ClassFrame
<1>3. /\ Len(Top.rest) \in Nat \ {0} /\ DOMAIN Top.rest = 1..Len(Top.rest)
      /\ Len(Tail(Top.rest)) = Len(Top.rest) - 1 /\ Len(s) \in Nat
      /\ DOMAIN Tail(Top.rest) = 1..(Len(Top.rest) - 1)
      /\ \A i \in 1..(Len(Top.rest) - 1) : Tail(Top.rest)[i] = Top.rest[i + 1]
      /\ Cur = Top.rest[1]
  BY <1>2, EmptySeq, HeadTailProperties DEF Cur
<1>4. k \in DOMAIN s /\ Cur = s[k]
  <2>1. 1 \in DOMAIN Top.rest /\ k + 1 - 1 = k
    BY <1>3
  <2> QED
    BY <1>1, <1>3, <2>1 DEF InForceAt
<1>5. g.access = AccessAt(g.ctx, k + 1)
  BY <1>1, <1>2, <1>4, AccessMovesOn DEF InForceAt
<1>6. ASSUME NEW i \in DOMAIN g.rest
      PROVE  (k + 1) + i - 1 \in DOMAIN s /\ g.rest[i] = s[(k + 1) + i - 1]
  <2>1. /\ i \in 1..(Len(Top.rest) - 1) /\ i + 1 \in DOMAIN Top.rest
        /\ k + (i + 1) - 1 = (k + 1) + i - 1
    BY <1>3
  <2> QED
    BY <1>1, <1>3, <2>1 DEF InForceAt
<1>7. InForceAt(g, k + 1)
  BY <1>1, <1>5, <1>6 DEF InForceAt
<1> QED
  BY <1>7

LEMMA InForceStep ==
  Coherent /\ SkipsNoSpecifier(ast) /\ InForce /\ [Next]_vars => InForce'
<1> SUFFICES ASSUME Coherent, SkipsNoSpecifier(ast), InForce, [Next]_vars
             PROVE  InForce'
  OBVIOUS
<1> DEFINE All(s) == \A i \in DOMAIN s : InForceIn(s[i])
           Moved(access) == [frames EXCEPT ![Len(frames)] =
                              [Top EXCEPT !.rest = Tail(@), !.access = access]]
<1>1. All(frames) /\ (InForce' <=> All(frames'))
  BY InputKept, AccessKept DEF InForce, InForceIn, InForceAt
<1>2. ASSUME frames # << >>
      PROVE  /\ Len(frames) \in DOMAIN frames /\ Top = frames[Len(frames)]
             /\ Top \in AnyFrame /\ InForceIn(Top)
  BY <1>1, <1>2, TopTyped, SizesBounded DEF Coherent
<1>3. ASSUME frames # << >>, Top.rest # << >>, NEW access,
             Top.fn = "IterateClass" =>
               access = IF ast[Cur].kind \in Access THEN ast[Cur].kind ELSE Top.access
      PROVE  All(Moved(access))
  <2> DEFINE g == [Top EXCEPT !.rest = Tail(@), !.access = access]
  <2>1. /\ g.fn = Top.fn /\ g.ctx = Top.ctx /\ g.rest = Tail(Top.rest)
        /\ g.access = access
    BY <1>2, <1>3 DEF AnyFrame, ScopeFrame, ClassFrame
  <2> HIDE DEF g
  <2>2. InForceIn(g)
    BY <1>2, <1>3, <2>1, TopMovesOn DEF Coherent
  <2>3. All([frames EXCEPT ![Len(frames)] = g])
    BY <1>1, <1>2, <1>3, <2>2, Updated
  <2> QED
    BY <2>3 DEF g
<1>4. ASSUME frames # << >>, Top.rest # << >>,
             Top.fn = "IterateClass" => ast[Cur].kind \notin Access
      PROVE  All(Advance) /\ Advance \in Seq(AnyFrame)
  <2>1. Advance = Moved(Top.access)
    <3>1. [Top EXCEPT !.rest = Tail(@)] = [Top EXCEPT !.rest = Tail(@), !.access = Top.access]
      BY <1>2, <1>4 DEF AnyFrame, ScopeFrame, ClassFrame
    <3>2. Advance = [frames EXCEPT ![Len(frames)] = [Top EXCEPT !.rest = Tail(@)]]
      BY <1>2, <1>4 DEF Advance
    <3> QED
      BY <3>1, <3>2
  <2> QED
    BY <1>3, <1>4, <2>1, TopTyped DEF Coherent
<1> HIDE DEF All, Moved
<1>5. ASSUME NEW s \in Seq(AnyFrame), All(s), NEW f, InForceIn(f)
      PROVE  All(Append(s, f))
  <2>1. /\ Len(s) \in Nat /\ DOMAIN s = 1..Len(s)
        /\ DOMAIN Append(s, f) = 1..(Len(s) + 1)
        /\ Append(s, f)[Len(s) + 1] = f
        /\ \A i \in 1..Len(s) : Append(s, f)[i] = s[i]
    OBVIOUS
  <2>2. \A i \in 1..(Len(s) + 1) : i \in 1..Len(s) \/ i = Len(s) + 1
    BY <2>1
  <2> QED
    BY <1>5, <2>1, <2>2 DEF All
<1>6. CASE RowAction
  <2>1. PICK r : RowOfCur(r) /\ Moves(r)
    BY <1>6, RowActionTries DEF Coherent
  <2>2. /\ frames # << >> /\ Top.rest # << >> /\ r.of \in Decl
        /\ Top.fn = "IterateClass" => ast[Cur].kind \notin Access
    BY <2>1 DEF RowOfCur, NamespaceRow, ClassRow
  <2>3. ASSUME NEW f, Opens(r, f) PROVE InForceIn(f)
    BY <2>2, <2>3, OpenedInForce DEF Coherent
  <2> QED
    BY <1>1, <1>4, <1>5, <2>1, <2>2, <2>3 DEF Moves
<1>7. CASE ScopeLinkage
  <2> DEFINE f == [fn |-> "IterateScope", ctx |-> Cur, rest |-> ast[Cur].kids,
                   cur |-> WholeName \o << >>, access |-> "none"]
  <2>1. /\ frames # << >> /\ Top.rest # << >> /\ Top.fn = "IterateScope"
        /\ frames' = Append(Advance, f)
    BY <1>7 DEF ScopeLinkage, At, VisitLinkageSpecDecl, Visit
  <2>2. InForceIn(f)
    BY DEF InForceIn
  <2> QED
    BY <1>1, <1>4, <1>5, <2>1, <2>2
<1>8. CASE ClassAccess
  <2>1. /\ frames # << >> /\ Top.rest # << >> /\ ast[Cur].kind \in Access
        /\ frames' = [Advance EXCEPT ![Len(frames)].access = ast[Cur].kind]
    BY <1>8 DEF ClassAccess, At
  <2>2. frames' = Moved(ast[Cur].kind)
    BY <1>2, <2>1 DEF Advance, Moved, AnyFrame, ScopeFrame, ClassFrame
  <2> QED
    BY <1>1, <1>3, <2>1, <2>2
<1>9. CASE Return
  <2>1. /\ frames \in Seq(AnyFrame) /\ Len(frames) \in Nat /\ Len(frames) > 1
        /\ frames' = SubSeq(frames, 1, Len(frames) - 1)
    BY <1>9 DEF Return, Front, Coherent, TypeOK, AnyFrame
  <2>2. \A i \in DOMAIN frames' : i \in DOMAIN frames /\ frames'[i] = frames[i]
    BY <2>1
  <2> QED
    BY <1>1, <2>2 DEF All
<1>10. CASE VisitTranslationUnitDecl
  <2> DEFINE f == [fn |-> "IterateScope", ctx |-> TU, rest |-> ast[TU].kids,
                   cur |-> << >>, access |-> "none"]
  <2>1. frames' = << f >> /\ DOMAIN frames' = {1} /\ frames'[1] = f
    BY <1>10 DEF VisitTranslationUnitDecl
  <2>2. InForceIn(f)
    BY DEF InForceIn
  <2> QED
    BY <1>1, <2>1, <2>2 DEF All
<1>11. CASE ClassGuide \/ FinishTranslationUnit
  <2>1. frames' = << >> /\ DOMAIN frames' = {}
    BY <1>11 DEF ClassGuide, FinishTranslationUnit
  <2> QED
    BY <1>1, <2>1 DEF All
<1>12. CASE \/ ScopeFunction \/ ScopeIgnored \/ ClassFunction \/ ClassIgnored
            \/ SkipVisited
  <2>1. /\ frames # << >> /\ Top.rest # << >> /\ frames' = Advance
        /\ Top.fn = "IterateClass" => ast[Cur].kind \notin Access
    BY <1>12 DEF ScopeFunction, ScopeIgnored, ClassFunction, ClassIgnored,
       SkipVisited, At, NextDecl, Access, Record, Function, Scope
  <2> QED
    BY <1>1, <1>4, <2>1
<1>13. CASE Construct \/ Destroy \/ UNCHANGED vars
  <2>1. frames' = frames
    BY <1>13 DEF Construct, Destroy, vars
  <2> QED
    BY <1>1, <2>1
<1> QED
  BY <1>6, <1>7, <1>8, <1>9, <1>10, <1>11, <1>12, <1>13 DEF Next, RowAction

(* What AccessInForce says of a row of class.                              *)
AccessOf(r) ==
  IF r.type.what = "enumconst" THEN r.type.access = "public"
  ELSE \E d \in Decl : \E i \in DOMAIN ast[d].kids :
         /\ ast[d].kind \in Record \cup Template
         /\ Canonical(ast[d].kids[i]) = r.of
         /\ r.type.access = AccessAt(d, i)

RowsInForce == \A r \in AllRows : r.type.access # "none" => AccessOf(r)

LEMMA RowsInForceStep ==
  Coherent /\ InForce /\ RowsInForce /\ [Next]_vars => RowsInForce'
<1> SUFFICES ASSUME Coherent, InForce, RowsInForce, [Next]_vars PROVE RowsInForce'
  OBVIOUS
<1>1. RowsInForce' <=> \A r \in AllRows' : r.type.access # "none" => AccessOf(r)
  BY InputKept, AccessKept DEF RowsInForce, AccessOf, Canonical
<1>2. CASE RowAction
  <2>1. PICK r : RowOfCur(r)
    BY <1>2, RowActionTries DEF Coherent
  <2>2. AllRows' = AllRows \cup {r}
    BY <2>1, RowAdded DEF Coherent
  <2>3. ASSUME r.type.access # "none" PROVE AccessOf(r)
    <3>1. CASE r.type.what = "enumconst" /\ r.type.access = "public"
      BY <3>1 DEF AccessOf
    <3>2. CASE Top.fn = "IterateClass" /\ r.type.access = Top.access
                 /\ r.type.what # "enumconst"
      <4>1. /\ Top = frames[Len(frames)] /\ Len(frames) \in DOMAIN frames
            /\ Top.rest \in Seq(Decl) /\ Top.rest # << >> /\ Top.ctx \in Decl
        BY <2>1, TopTyped, SizesBounded
        DEF Coherent, RowOfCur, AnyFrame, ScopeFrame, ClassFrame
      <4>2. PICK k \in Nat \ {0} : InForceAt(Top, k)
        BY <3>2, <4>1 DEF InForce, InForceIn
      <4>3. 1 \in DOMAIN Top.rest /\ Cur = Top.rest[1] /\ k + 1 - 1 = k
        BY <4>1, EmptySeq DEF Cur
      <4>4. k \in DOMAIN ast[Top.ctx].kids /\ Cur = ast[Top.ctx].kids[k]
        BY <4>2, <4>3 DEF InForceAt
      <4>5. Canonical(Cur) = r.of
        BY <2>1 DEF RowOfCur
      <4> QED
        BY <3>2, <4>1, <4>2, <4>4, <4>5 DEF AccessOf, InForceAt
    <3> QED
      BY <2>1, <2>3, <3>1, <3>2 DEF RowOfCur, HasAccess
  <2> QED
    BY <1>1, <2>2, <2>3 DEF RowsInForce
<1>3. CASE ~RowAction
  <2>1. AllRows' = AllRows
    BY <1>3, OtherActionsTryNone DEF AllRows, Rows
  <2> QED
    BY <1>1, <2>1 DEF RowsInForce
<1> QED
  BY <1>2, <1>3

-----------------------------------------------------------------------------
(* The tables are complete: what Found is.                                 *)

Below(S) == S \cup UNION {Held(d) : d \in S}

(* A set with the translation unit and all it holds, at any depth.         *)
Shut(S) == S \subseteq Decl /\ TU \in S /\ \A d \in S : Held(d) \subseteq S

LEMMA HeldTyped ==
  ASSUME TypeOK, NEW d \in Decl
  PROVE  Held(d) \subseteq Decl
<1>1. ToSet(ast[d].kids) \subseteq Decl
  BY AstTyped DEF ToSet
<1> QED
  BY <1>1, AstTyped DEF Held

(* A set of declarations that grows grows by one element at least.         *)
LEMMA GrowsByOne ==
  ASSUME NEW S \in SUBSET Decl, NEW T \in SUBSET Decl, S \subseteq T, S # T
  PROVE  /\ IsFiniteSet(T) /\ Cardinality(S) \in Nat /\ Cardinality(T) \in Nat
         /\ Cardinality(S) + 1 <= Cardinality(T)
         /\ Cardinality(T) <= Cardinality(Decl)
<1>1. IsFiniteSet(S) /\ IsFiniteSet(T)
  BY DeclAssumption, FS_Subset
<1>2. Cardinality(S) \in Nat /\ Cardinality(T) \in Nat
  BY <1>1, FS_CardinalityType
<1>3. Cardinality(S) <= Cardinality(T) /\ Cardinality(S) # Cardinality(T)
  BY <1>1, FS_Subset
<1>4. Cardinality(T) <= Cardinality(Decl)
  BY DeclAssumption, FS_Subset
<1> QED
  BY <1>1, <1>2, <1>3, <1>4

(* The levels of Found: each is the one before with all it holds.          *)
LEMMA FoundLevels ==
  ASSUME TypeOK
  PROVE  \E F \in [Nat -> SUBSET Decl] :
           /\ F[0] = {TU} /\ \A n \in Nat : F[n + 1] = Below(F[n])
           /\ Found = F[Cardinality(Decl)]
<1> DEFINE X == SUBSET Decl
           g == [p \in Nat \X X |-> Below(p[2])]
           Level(F, n) == IF n = 0 THEN {TU}
                          ELSE F[n - 1] \cup UNION {Held(d) : d \in F[n - 1]}
           G == CHOOSE F : F = [n \in Nat |-> Level(F, n)]
<1>1. g \in [Nat \X X -> X]
  BY HeldTyped DEF Below
<1>2. {TU} \in X
  BY DeclAssumption
<1> HIDE DEF X, g
<1>b. PICK F : Iterates(F, X, {TU}, g)
  BY <1>1, <1>2, Iteration
<1>3. F \in [Nat -> X] /\ F[0] = {TU} /\ \A n \in Nat : F[n + 1] = g[<< n, F[n] >>]
  BY <1>b DEF Iterates
<1> USE DEF X
<1>4. \A n \in Nat : F[n + 1] = Below(F[n])
  <2> TAKE n \in Nat
  <2>1. << n, F[n] >> \in Nat \X X
    BY <1>3
  <2> QED
    BY <1>3, <2>1 DEF g
<1>5. \A n \in Nat : F[n] = Level(F, n)
  <2> TAKE n \in Nat
  <2>1. CASE n = 0
    BY <1>3, <2>1
  <2>2. CASE n # 0
    <3>1. n - 1 \in Nat /\ n - 1 + 1 = n
      BY <2>2
    <3> QED
      BY <1>4, <2>2, <3>1 DEF Below
  <2> QED
    BY <2>1, <2>2
<1>6. F = [n \in Nat |-> Level(F, n)]
  BY <1>3, <1>5
<1>7. G = [n \in Nat |-> Level(G, n)]
  <2> HIDE DEF Level
  <2> QED
    BY <1>6, Zenon
<1> HIDE DEF G
<1>a. \A n \in Nat : G[n] = Level(G, n)
  <2> HIDE DEF Level
  <2>1. \A n \in Nat : [m \in Nat |-> Level(G, m)][n] = Level(G, n)
    OBVIOUS
  <2> QED
    BY <1>7, <2>1, Zenon
<1>8. \A n \in Nat : G[n] = F[n]
  <2> DEFINE A == {n \in Nat : G[n] = F[n]}
  <2>1. 0 \in A
    BY <1>3, <1>a
  <2>2. ASSUME NEW n \in Nat, n \in A
        PROVE  n + 1 \in A
    <3>1. n + 1 - 1 = n /\ n + 1 # 0
      OBVIOUS
    <3>2. G[n + 1] = Below(G[n])
      <4>1. \A m \in Nat : m # 0 => G[m] = Below(G[m - 1])
        BY <1>a DEF Below
      <4>2. n + 1 \in Nat
        OBVIOUS
      <4> QED
        BY <3>1, <4>1, <4>2
    <3> QED
      BY <1>4, <2>2, <3>2
  <2>3. Nat \subseteq A
    <3> HIDE DEF A
    <3> QED
      BY <2>1, <2>2, InductionOnNat
  <2> QED
    BY <2>3
<1>9. Found = G[Cardinality(Decl)]
  BY DEF Found, G
<1>10. Cardinality(Decl) \in Nat
  BY DeclAssumption, FS_CardinalityType
<1> QED
  BY <1>3, <1>4, <1>8, <1>9, <1>10

(* Found is shut: no level after it has more.                              *)
LEMMA FoundShut ==
  ASSUME TypeOK
  PROVE  Shut(Found)
<1>1. PICK F \in [Nat -> SUBSET Decl] :
        /\ F[0] = {TU} /\ \A n \in Nat : F[n + 1] = Below(F[n])
        /\ Found = F[Cardinality(Decl)]
  BY FoundLevels
<1> DEFINE N == Cardinality(Decl)
           A == {n \in Nat : /\ TU \in F[n]
                             /\ F[n + 1] = F[n] \/ n + 1 <= Cardinality(F[n])}
<1>2. N \in Nat
  BY DeclAssumption, FS_CardinalityType
<1>3. \A n \in Nat : F[n] \subseteq F[n + 1] /\ F[n + 1] \in SUBSET Decl
  BY <1>1 DEF Below
<1>4. 0 \in A
  <2>1. Cardinality(F[0]) = 1
    BY <1>1, FS_Singleton
  <2> QED
    BY <1>1, <2>1
<1>5. ASSUME NEW n \in Nat, n \in A
      PROVE  n + 1 \in A
  <2>1. TU \in F[n + 1]
    BY <1>3, <1>5
  <2>2. CASE F[n + 1] = F[n]
    <3>1. F[n + 1 + 1] = F[n + 1]
      BY <1>1, <2>2
    <3> QED
      BY <2>1, <3>1
  <2>3. CASE F[n + 1] # F[n]
    <3>1. n + 1 <= Cardinality(F[n])
      BY <1>5, <2>3
    <3>2. Cardinality(F[n]) \in Nat /\ Cardinality(F[n + 1]) \in Nat
          /\ Cardinality(F[n]) + 1 <= Cardinality(F[n + 1])
      BY <1>1, <1>3, <2>3, GrowsByOne
    <3>3. n + 1 + 1 <= Cardinality(F[n + 1])
      BY <3>1, <3>2
    <3> QED
      BY <2>1, <3>3
  <2> QED
    BY <2>2, <2>3
<1>6. N \in A
  <2>1. Nat \subseteq A
    <3> HIDE DEF A
    <3> QED
      BY <1>4, <1>5, InductionOnNat
  <2> QED
    BY <1>2, <2>1
<1>7. F[N] \in SUBSET Decl /\ Cardinality(F[N]) \in Nat /\ Cardinality(F[N]) <= N
  BY <1>1, <1>2, DeclAssumption, FS_Subset, FS_CardinalityType
<1>8. F[N + 1] = F[N] /\ TU \in F[N]
  BY <1>2, <1>6, <1>7
<1>9. \A d \in F[N] : Held(d) \subseteq F[N]
  BY <1>1, <1>2, <1>8 DEF Below
<1> QED
  BY <1>1, <1>7, <1>8, <1>9 DEF Shut

(* And it is the least such set.                                           *)
LEMMA FoundLeast ==
  ASSUME TypeOK, NEW S, Shut(S)
  PROVE  Found \subseteq S
<1>1. PICK F \in [Nat -> SUBSET Decl] :
        /\ F[0] = {TU} /\ \A n \in Nat : F[n + 1] = Below(F[n])
        /\ Found = F[Cardinality(Decl)]
  BY FoundLevels
<1> DEFINE A == {n \in Nat : F[n] \subseteq S}
<1>2. 0 \in A
  BY <1>1 DEF Shut
<1>3. ASSUME NEW n \in Nat, n \in A
      PROVE  n + 1 \in A
  BY <1>1, <1>3 DEF Below, Shut
<1>4. Nat \subseteq A
  <2> HIDE DEF A
  <2> QED
    BY <1>2, <1>3, InductionOnNat
<1>5. Cardinality(Decl) \in Nat
  BY DeclAssumption, FS_CardinalityType
<1> QED
  BY <1>1, <1>4, <1>5

-----------------------------------------------------------------------------
(* The tables are complete: what a step of a loop does.                    *)

(* Every class, template and body comes with the injected-class-name that  *)
(* IterateClass skips.                                                     *)
BodiesFirst(t) ==
  \A d \in Decl : t[d].kind \in Record \cup Template /\ t[d].kids # << >> =>
    t[t[d].kids[1]].kind = "body"

Clang == Coherent /\ Grammatical(ast) /\ BodiesFirst(ast)

Kids(d) == {k \in ToSet(ast[d].kids) : ast[k].kind # "body"}

(* The loop of f is the one for its declaration, and goes over its kids.   *)
Looping(f) ==
  /\ f.ctx \in Decl
  /\ f.fn \in {"IterateScope", "IterateClass", "VisitEnumDecl"}
  /\ f.fn = "IterateScope" => ast[f.ctx].kind \in {"tu"} \cup Scope
  /\ f.fn = "IterateClass" => ast[f.ctx].kind \in Record \cup Template
  /\ f.fn = "VisitEnumDecl" => ast[f.ctx].kind = "enum"
  /\ ToSet(f.rest) \subseteq Kids(f.ctx)

Framed == \A i \in DOMAIN frames : Looping(frames[i])

(* What kinds of kids the kinds of contexts have.                          *)
LEMMA Grammar ==
  ASSUME Grammatical(ast), NEW d \in Decl, NEW k \in ToSet(ast[d].kids)
  PROVE  /\ ast[d].kind \in {"tu"} \cup Scope =>
              ast[k].kind \notin {"body", "field", "enumconst"}
         /\ ast[d].kind \in Record \cup Template =>
              ast[k].kind \notin Scope \cup {"builtin"}
         /\ ast[d].kind = "enum" => ast[k].kind = "enumconst"
         /\ ast[d].kind \in {"tu", "enum"} \cup Scope \cup Record \cup Template
<1> DEFINE kinds == {ast[x].kind : x \in ToSet(ast[d].kids)}
<1>1. ast[k].kind \in kinds
  OBVIOUS
<1> HIDE DEF kinds
<1>2. ast[d].kind \in {"tu"} \cup Scope =>
        kinds \cap {"body", "field", "enumconst"} = {}
  BY DEF Grammatical, Scope, Record, Template, kinds
<1>3. ast[d].kind \in Record \cup Template =>
        kinds \cap (Scope \cup {"builtin"}) = {}
  BY DEF Grammatical, Scope, Record, Template, kinds
<1>4. ast[d].kind = "enum" => kinds \subseteq {"enumconst"}
  BY DEF Grammatical, Scope, Record, Template, kinds
<1>5. ast[d].kind \notin {"tu", "enum"} \cup Scope \cup Record \cup Template =>
        kinds = {}
  BY DEF Grammatical, kinds
<1> QED
  BY <1>1, <1>2, <1>3, <1>4, <1>5

(* The declaration the running loop is on is a kid of its context.         *)
LEMMA CurIsKid ==
  ASSUME Clang, Framed, frames # << >>, Top.rest # << >>
  PROVE  /\ Looping(Top) /\ Cur \in ToSet(Top.rest) /\ Cur \in Kids(Top.ctx)
         /\ Cur \in Decl /\ Canonical(Cur) \in Decl
         /\ Canonical(Cur) \in Held(Top.ctx)
<1>1. /\ Top \in AnyFrame /\ Top = frames[Len(frames)] /\ Len(frames) \in DOMAIN frames
      /\ Cur \in Decl /\ Canonical(Cur) \in Decl
  BY TopTyped, SizesBounded, AstTyped DEF Clang, Coherent
<1>2. Looping(Top)
  BY <1>1 DEF Framed
<1>3. Top.rest \in Seq(Decl)
  BY <1>1 DEF AnyFrame, ScopeFrame, ClassFrame
<1>4. 1 \in DOMAIN Top.rest /\ Cur = Top.rest[1]
  BY <1>3 DEF Cur
<1>5. Cur \in ToSet(Top.rest)
  BY <1>4 DEF ToSet
<1> QED
  BY <1>1, <1>2, <1>5 DEF Looping, Kids, Held

(* g is f, perhaps past the declaration the running loop is on.            *)
Onward(f, g) ==
  /\ g.fn = f.fn /\ g.ctx = f.ctx
  /\ ToSet(g.rest) \subseteq ToSet(f.rest)
  /\ ToSet(f.rest) \subseteq ToSet(g.rest) \cup {Cur}

LEMMA AdvanceGoesOn ==
  ASSUME TypeOK, frames # << >>, Top.rest # << >>
  PROVE  /\ Advance \in Seq(AnyFrame) /\ Len(Advance) = Len(frames)
         /\ Len(frames) \in Nat \ {0} /\ DOMAIN frames = 1..Len(frames)
         /\ \A i \in 1..Len(frames) : Onward(frames[i], Advance[i])
<1>1. /\ frames \in Seq(AnyFrame) /\ Len(frames) \in Nat \ {0}
      /\ DOMAIN frames = 1..Len(frames) /\ Top = frames[Len(frames)]
      /\ Top \in AnyFrame /\ Top.rest \in Seq(Decl)
      /\ Advance \in Seq(AnyFrame) /\ Len(Advance) = Len(frames)
  BY TopTyped DEF TypeOK, AnyFrame, ScopeFrame, ClassFrame
<1>2. ASSUME NEW i \in 1..Len(frames) PROVE Onward(frames[i], Advance[i])
  <2>1. Continues(frames[i], Advance[i])
    BY <1>1, AdvanceContinues
  <2>2. ToSet(Advance[i].rest) \subseteq ToSet(frames[i].rest)
    BY <2>1 DEF Continues, ToSet
  <2>3. CASE i # Len(frames)
    <3>1. Advance[i] = frames[i]
      BY <1>1, <2>3 DEF Advance
    <3> QED
      BY <3>1 DEF Onward
  <2>4. CASE i = Len(frames)
    <3>1. Advance[i].rest = Tail(Top.rest)
      BY <1>1, <2>4 DEF Advance, AnyFrame, ScopeFrame, ClassFrame
    <3>2. ASSUME NEW j \in DOMAIN Top.rest
          PROVE  Top.rest[j] \in ToSet(Tail(Top.rest)) \cup {Cur}
      <4>1. CASE j = 1
        BY <1>1, <4>1 DEF Cur
      <4>2. CASE j # 1
        <5>1. /\ Tail(Top.rest) \in Seq(Decl) /\ Len(Tail(Top.rest)) = Len(Top.rest) - 1
              /\ Len(Top.rest) \in Nat /\ j \in 1..Len(Top.rest)
              /\ DOMAIN Tail(Top.rest) = 1..(Len(Top.rest) - 1)
              /\ \A m \in 1..(Len(Top.rest) - 1) : Tail(Top.rest)[m] = Top.rest[m + 1]
          BY <1>1, HeadTailProperties
        <5>2. j - 1 \in DOMAIN Tail(Top.rest) /\ Tail(Top.rest)[j - 1] = Top.rest[j]
          BY <4>2, <5>1
        <5> QED
          BY <5>2 DEF ToSet
      <4> QED
        BY <4>1, <4>2
    <3>3. ToSet(Top.rest) \subseteq ToSet(Tail(Top.rest)) \cup {Cur}
      BY <3>2 DEF ToSet
    <3> QED
      BY <1>1, <2>1, <2>2, <2>4, <3>1, <3>3 DEF Onward, Continues
  <2> QED
    BY <2>3, <2>4
<1> QED
  BY <1>1, <1>2

(* What happened to the frames in a step of the running loop, with the     *)
(* declaration d: the loops go on, and d is entered if it holds anything.  *)
FramesTurn(d) ==
  /\ DOMAIN frames \subseteq DOMAIN frames'
  /\ \A i \in DOMAIN frames : Onward(frames[i], frames'[i])
  /\ \A i \in DOMAIN frames' :
       i \notin DOMAIN frames => frames'[i].ctx = d /\ Looping(frames'[i])

Entered(d) ==
  Kids(d) = {} \/ \E i \in DOMAIN frames' : Kids(d) \subseteq ToSet(frames'[i].rest)

LEMMA NextTurns ==
  ASSUME TypeOK, frames # << >>, Top.rest # << >>, frames' = Advance, NEW d
  PROVE  FramesTurn(d)
<1>1. /\ Advance \in Seq(AnyFrame) /\ DOMAIN Advance = DOMAIN frames
      /\ \A i \in DOMAIN frames : Onward(frames[i], Advance[i])
  BY AdvanceGoesOn
<1> QED
  BY <1>1 DEF FramesTurn

LEMMA VisitTurns ==
  ASSUME TypeOK, frames # << >>, Top.rest # << >>, NEW d, NEW f,
         f \in AnyFrame, frames' = Append(Advance, f), Looping(f), f.ctx = d,
         Kids(d) \subseteq ToSet(f.rest)
  PROVE  FramesTurn(d) /\ Entered(d)
<1>0. PICK n \in Nat : n = Len(frames)
  BY AdvanceGoesOn
<1>1. /\ Advance \in Seq(AnyFrame) /\ Len(Advance) = n /\ DOMAIN frames = 1..n
      /\ \A i \in 1..n : Onward(frames[i], Advance[i])
  BY <1>0, AdvanceGoesOn
<1>2. /\ DOMAIN frames' = 1..(n + 1) /\ frames'[n + 1] = f
      /\ \A i \in 1..n : frames'[i] = Advance[i]
  BY <1>0, <1>1
<1>3. \A i \in 1..(n + 1) : i \in 1..n \/ i = n + 1
  OBVIOUS
<1>4. FramesTurn(d)
  BY <1>1, <1>2, <1>3 DEF FramesTurn
<1>5. n + 1 \in DOMAIN frames'
  BY <1>2
<1> QED
  BY <1>2, <1>4, <1>5 DEF Entered

(* What the loops go over: all kids, but for the body of a class.          *)
LEMMA ScopesHoldKids ==
  ASSUME Clang, NEW d \in Decl, ast[d].kind \in {"tu", "enum"} \cup Scope
  PROVE  ToSet(ast[d].kids) = Kids(d)
<1>1. \A k \in ToSet(ast[d].kids) : ast[k].kind # "body"
  BY Grammar DEF Clang, Scope
<1> QED
  BY <1>1 DEF Kids

LEMMA MembersAreKids ==
  ASSUME Clang, NEW d \in Decl, ast[d].kind \in Record \cup Template
  PROVE  ToSet(Members(d)) = Kids(d)
<1> DEFINE k == ast[d].kids
<1>1. k \in Seq(Decl)
  BY AstTyped DEF Clang, Coherent
<1>2. CASE k = << >>
  <2>1. Members(d) = << >> /\ ToSet(k) = {} /\ ToSet(<< >>) = {}
    BY <1>2 DEF Members, ToSet
  <2> QED
    BY <2>1 DEF Kids
<1>3. CASE k # << >>
  <2>1. /\ Members(d) = Tail(k) /\ Len(k) \in Nat /\ DOMAIN k = 1..Len(k)
        /\ DOMAIN Tail(k) = 1..(Len(k) - 1)
        /\ \A i \in 1..(Len(k) - 1) : Tail(k)[i] = k[i + 1]
    BY <1>1, <1>3, HeadTailProperties DEF Members
  <2>2. ast[k[1]].kind = "body" /\ \A i \in DOMAIN k : i > 1 => ast[k[i]].kind # "body"
    BY <1>3 DEF Clang, Coherent, BodiesFirst, WellFormed
  <2>3. ASSUME NEW i \in DOMAIN Tail(k) PROVE Tail(k)[i] \in Kids(d)
    <3>1. i + 1 \in DOMAIN k /\ i + 1 > 1 /\ Tail(k)[i] = k[i + 1]
      BY <2>1
    <3> QED
      BY <2>2, <3>1 DEF Kids, ToSet
  <2>4. ASSUME NEW i \in DOMAIN k, ast[k[i]].kind # "body"
        PROVE  k[i] \in ToSet(Tail(k))
    <3>1. i # 1 /\ i - 1 \in DOMAIN Tail(k) /\ i - 1 + 1 = i
      BY <2>1, <2>2, <2>4
    <3>2. Tail(k)[i - 1] = k[i]
      BY <2>1, <3>1
    <3> QED
      BY <3>1, <3>2 DEF ToSet
  <2>5. ToSet(Tail(k)) \subseteq Kids(d)
    BY <2>3 DEF ToSet
  <2>6. Kids(d) \subseteq ToSet(Tail(k))
    BY <2>4 DEF Kids, ToSet
  <2> QED
    BY <2>1, <2>5, <2>6
<1> QED
  BY <1>2, <1>3

LEMMA OpenedLoops ==
  ASSUME Clang, NEW r, NEW f, r.of \in Decl, Opens(r, f)
  PROVE  Looping(f) /\ Kids(f.ctx) \subseteq ToSet(f.rest)
<1>1. /\ f.ctx \in Decl
      /\ f.fn \in {"IterateScope", "IterateClass", "VisitEnumDecl"}
  BY DEF Opens
<1>2. CASE f.fn = "IterateClass"
  BY <1>1, <1>2, MembersAreKids DEF Opens, Looping
<1>3. CASE f.fn \in {"IterateScope", "VisitEnumDecl"}
  BY <1>1, <1>3, ScopesHoldKids DEF Opens, Looping, Scope
<1> QED
  BY <1>1, <1>2, <1>3

(* A declaration that is no context holds nothing.                         *)
LEMMA NoContextNoKids ==
  ASSUME Clang, NEW d \in Decl,
         ast[d].kind \notin {"tu", "enum"} \cup Scope \cup Record \cup Template
  PROVE  Kids(d) = {}
BY Grammar DEF Clang, Kids

(* A step of the running loop over d: at most d is visited, only d gets    *)
(* rows and only if it is to be indexed, and unless d was visited before   *)
(* it does if it is, and is entered if it holds anything.                  *)
TurnedOver(d) ==
  /\ FramesTurn(d)
  /\ VisitedClasses' \cup VisitedFunctions'
       \subseteq VisitedClasses \cup VisitedFunctions \cup {d}
  /\ AllRows \subseteq AllRows'
  /\ \A r \in AllRows' : r \in AllRows \/ (r.of = d /\ Indexed(d))
  /\ \/ d \in VisitedClasses \cup VisitedFunctions
     \/ /\ Entered(d)
        /\ Indexed(d) => \E r \in AllRows' : r.of = d

Turned == /\ frames # << >> /\ Top.rest # << >> /\ UNCHANGED phase
          /\ TurnedOver(Canonical(Cur))

(* The declarations with an action that tries a row are to be indexed.     *)
LEMMA RowIsIndexed ==
  ASSUME Clang, Framed, RowAction
  PROVE  Indexed(Canonical(Cur))
<1>1. frames # << >> /\ Top.rest # << >>
  BY DEF RowAction, At, ScopeNamespace, ScopeRecord, ScopeTemplate, ScopeLeaf,
     ScopeEnum, ClassRecord, ClassTemplate, ClassLeaf, ClassEnum, Enumerator,
     ScopeFunction, ClassFunction
<1>2. /\ Cur \in Decl /\ Looping(Top) /\ Cur \in Kids(Top.ctx) /\ Top.ctx \in Decl
      /\ Cur \in ToSet(ast[Top.ctx].kids)
  BY <1>1, CurIsKid DEF Looping, Kids
<1>3. /\ ast[Cur].kind \in Record => ast[Canonical(Cur)].kind \in Record
      /\ ast[Cur].kind \in Function => ast[Canonical(Cur)].kind \in Function
      /\ ast[Cur].kind \notin Record \cup Function => Canonical(Cur) = Cur
  BY <1>2, Definitions DEF Clang, Coherent
<1>4. CASE ScopeRecord \/ ClassRecord
  BY <1>3, <1>4 DEF ScopeRecord, ClassRecord, At, Indexed, Record
<1>5. CASE ScopeNamespace \/ ScopeTemplate \/ ScopeLeaf \/ ScopeEnum
           \/ ClassTemplate \/ ClassEnum \/ Enumerator
  <2>1. ast[Cur].kind \in {"namespace", "struct template", "class template",
          "function template", "var", "typedef", "enum", "enumconst"}
    BY <1>5 DEF ScopeNamespace, ScopeTemplate, ScopeLeaf, ScopeEnum,
       ClassTemplate, ClassEnum, Enumerator, At, Template
  <2> QED
    BY <1>3, <2>1 DEF Indexed, Record, Function, Template, Leaf
<1>6. CASE ClassLeaf
  <2>1. ast[Cur].kind \in Leaf /\ Top.fn = "IterateClass"
    BY <1>6 DEF ClassLeaf, At
  <2>2. ast[Cur].kind # "builtin"
    BY <1>2, <2>1, Grammar DEF Clang, Looping
  <2> QED
    BY <1>3, <2>1, <2>2 DEF Indexed, Record, Function, Leaf
<1>7. CASE (ScopeFunction \/ ClassFunction) /\ ~UNCHANGED tables
  <2>1. ast[Cur].kind \in Function /\ ast[Canonical(Cur)].kind # "noproto"
    BY <1>7 DEF ScopeFunction, ClassFunction, At
  <2> QED
    BY <1>3, <2>1 DEF Indexed, Function
<1> QED
  BY <1>4, <1>5, <1>6, <1>7 DEF RowAction

LEMMA RowTurns ==
  ASSUME Clang, Framed, RowAction
  PROVE  Turned
<1> DEFINE d == Canonical(Cur)
<1>1. PICK r : RowOfCur(r) /\ Moves(r)
  BY RowActionTries DEF Clang, Coherent
<1>2. /\ frames # << >> /\ Top.rest # << >> /\ r.of = d
      /\ AllRows' = AllRows \cup {r}
  BY <1>1, RowAdded DEF RowOfCur, Clang, Coherent
<1>3. d \in Decl /\ Cur \in Decl
  BY <1>2, CurIsKid
<1>4. Indexed(d)
  BY RowIsIndexed
<1>5. TypeOK' /\ TypeOK
  BY TypeStep DEF Clang, Coherent, RowAction, Next
<1>6. FramesTurn(d) /\ Entered(d)
  <2>1. CASE frames' = Advance /\ ast[d].kind \in Leaf \cup Function
    <3>1. Kids(d) = {}
      BY <1>3, <2>1, NoContextNoKids DEF Leaf, Function, Scope, Record, Template
    <3> QED
      BY <1>2, <1>5, <2>1, <3>1, NextTurns DEF Entered
  <2>2. CASE \E f : frames' = Append(Advance, f) /\ Opens(r, f)
    <3>1. PICK f : frames' = Append(Advance, f) /\ Opens(r, f)
      BY <2>2
    <3>2. Looping(f) /\ Kids(f.ctx) \subseteq ToSet(f.rest) /\ f.ctx = d
      BY <1>2, <1>3, <3>1, OpenedLoops DEF Opens
    <3>3. f \in AnyFrame
      <4>1. frames' \in Seq(AnyFrame)
        BY <1>5 DEF TypeOK, AnyFrame
      <4>2. Advance \in Seq(AnyFrame)
        BY <1>2, <1>5, AdvanceGoesOn
      <4>3. Len(Append(Advance, f)) = Len(Advance) + 1
            /\ Append(Advance, f)[Len(Advance) + 1] = f /\ Len(Advance) \in Nat
        BY <4>2
      <4>4. Len(Advance) + 1 \in DOMAIN frames'
        BY <3>1, <4>1, <4>3
      <4> QED
        BY <3>1, <4>1, <4>3, <4>4
    <3> QED
      BY <1>2, <1>5, <3>1, <3>2, <3>3, VisitTurns
  <2> QED
    BY <1>1, <1>2, <2>1, <2>2 DEF Moves
<1>7. /\ UNCHANGED phase
      /\ VisitedClasses' \cup VisitedFunctions'
           \subseteq VisitedClasses \cup VisitedFunctions \cup {d}
  BY DEF RowAction, ScopeNamespace, ScopeRecord, ScopeTemplate, ScopeLeaf,
     ScopeEnum, ClassRecord, ClassTemplate, ClassLeaf, ClassEnum, Enumerator,
     ScopeFunction, ClassFunction, visited, ShouldVisitClass, ShouldVisitFunction
<1> HIDE DEF d
<1>8. TurnedOver(d)
  BY <1>2, <1>4, <1>6, <1>7 DEF TurnedOver
<1> QED
  BY <1>2, <1>7, <1>8 DEF Turned, d

(* The steps that try no row: what is not indexed, and what was seen.      *)
LEMMA IgnoredTurns ==
  ASSUME Clang, Framed, ScopeIgnored \/ ClassIgnored \/ ClassAccess
  PROVE  Turned
<1> DEFINE d == Canonical(Cur)
<1>1. /\ frames # << >> /\ Top.rest # << >> /\ UNCHANGED << phase, visited, tables >>
      /\ Top.fn \in {"IterateScope", "IterateClass"}
      /\ Top.fn = "IterateScope" =>
           ast[Cur].kind \in {"guide", "builtin", "other", "field", "enumconst"} \cup Access
      /\ Top.fn = "IterateClass" => ast[Cur].kind \in Scope \cup {"other"} \cup Access
  BY DEF ScopeIgnored, ClassIgnored, ClassAccess, At
<1>2. /\ Cur \in Decl /\ Looping(Top) /\ Top.ctx \in Decl
      /\ Cur \in ToSet(ast[Top.ctx].kids)
  BY <1>1, CurIsKid DEF Looping, Kids
<1>3. ast[Cur].kind \in {"guide", "builtin", "other"} \cup Access
  BY <1>1, <1>2, Grammar DEF Clang, Looping
<1>4. d = Cur
  BY <1>2, <1>3, Definitions DEF Clang, Coherent, Record, Function, Access
<1>5. ~Indexed(d) /\ Kids(d) = {}
  BY <1>2, <1>3, <1>4, NoContextNoKids
  DEF Indexed, Record, Function, Template, Leaf, Access, Scope
<1>6. AllRows' = AllRows
  BY <1>1 DEF tables, AllRows, Rows
<1>7. FramesTurn(d)
  <2>1. CASE frames' = Advance
    BY <1>1, <2>1, NextTurns DEF Clang, Coherent
  <2>2. CASE ClassAccess
    <3>1. /\ Advance \in Seq(AnyFrame) /\ Len(Advance) = Len(frames)
          /\ Len(frames) \in Nat \ {0} /\ DOMAIN frames = 1..Len(frames)
          /\ \A i \in 1..Len(frames) : Onward(frames[i], Advance[i])
      BY <1>1, AdvanceGoesOn DEF Clang, Coherent
    <3>2. frames' = [Advance EXCEPT ![Len(frames)].access = ast[Cur].kind]
      BY <2>2 DEF ClassAccess
    <3>3. /\ DOMAIN frames' = DOMAIN frames
          /\ \A i \in 1..Len(frames) :
               /\ frames'[i].fn = Advance[i].fn /\ frames'[i].ctx = Advance[i].ctx
               /\ frames'[i].rest = Advance[i].rest
      BY <3>1, <3>2 DEF AnyFrame, ScopeFrame, ClassFrame
    <3>4. \A i \in DOMAIN frames : Onward(frames[i], frames'[i])
      BY <3>1, <3>3, Zenon DEF Onward
    <3> QED
      BY <3>3, <3>4 DEF FramesTurn
  <2> QED
    BY <2>1, <2>2 DEF ScopeIgnored, ClassIgnored, NextDecl
<1> HIDE DEF d
<1>8. TurnedOver(d)
  BY <1>1, <1>5, <1>6, <1>7 DEF TurnedOver, Entered, visited
<1> QED
  BY <1>1, <1>8 DEF Turned, d

LEMMA SkipTurns ==
  ASSUME Clang, Framed, SkipVisited
  PROVE  Turned
<1> DEFINE d == Canonical(Cur)
<1>1. /\ frames # << >> /\ Top.rest # << >> /\ UNCHANGED << phase, visited, tables >>
      /\ frames' = Advance /\ d \in VisitedClasses \cup VisitedFunctions
  BY DEF SkipVisited, At, NextDecl
<1>2. AllRows' = AllRows
  BY <1>1 DEF tables, AllRows, Rows
<1>3. FramesTurn(d)
  BY <1>1, NextTurns DEF Clang, Coherent
<1> HIDE DEF d
<1>4. TurnedOver(d)
  BY <1>1, <1>2, <1>3 DEF TurnedOver, visited
<1> QED
  BY <1>1, <1>4 DEF Turned, d

LEMMA LinkageTurns ==
  ASSUME Clang, Framed, ScopeLinkage
  PROVE  Turned
<1> DEFINE d == Canonical(Cur)
           f == [fn |-> "IterateScope", ctx |-> d, rest |-> ast[d].kids,
                 cur |-> WholeName \o << >>, access |-> "none"]
<1>1. /\ frames # << >> /\ Top.rest # << >> /\ UNCHANGED << phase, visited, tables >>
      /\ ast[Cur].kind = "linkage" /\ VisitLinkageSpecDecl(Cur)
  BY DEF ScopeLinkage, At
<1>2. Cur \in Decl
  BY <1>1, CurIsKid
<1>3. d = Cur
  BY <1>1, <1>2, Definitions DEF Clang, Coherent, Record, Function
<1>4. ~Indexed(d)
  BY <1>1, <1>3 DEF Indexed, Record, Template, Leaf
<1>5. frames' = Append(Advance, f)
  BY <1>1, <1>3 DEF VisitLinkageSpecDecl, Visit
<1>6. AllRows' = AllRows
  BY <1>1 DEF tables, AllRows, Rows
<1>7. f.ctx = d /\ f.rest = ast[d].kids /\ f.fn = "IterateScope"
  OBVIOUS
<1>8. ToSet(ast[d].kids) = Kids(d)
  BY <1>1, <1>2, <1>3, ScopesHoldKids DEF Scope
<1>9. f \in AnyFrame
  <2>1. WholeName \o << >> \in Text /\ ast[d].kids \in Seq(Decl)
    BY <1>2, <1>3, AstTyped, EmptySeq DEF Clang, Coherent, TypeOK, Text
  <2> QED
    BY <1>2, <1>3, <2>1 DEF AnyFrame, ScopeFrame
<1> HIDE DEF f
<1>10. Looping(f) /\ Kids(d) \subseteq ToSet(f.rest)
  BY <1>1, <1>2, <1>3, <1>7, <1>8 DEF Looping, Scope
<1>11. FramesTurn(d) /\ Entered(d)
  BY <1>1, <1>5, <1>7, <1>9, <1>10, VisitTurns DEF Clang, Coherent
<1> HIDE DEF d
<1>12. TurnedOver(d)
  BY <1>1, <1>4, <1>6, <1>11 DEF TurnedOver, visited
<1> QED
  BY <1>1, <1>12 DEF Turned, d

(* A function whose step leaves the tables alone has no prototype, or its  *)
(* row is among the lost.                                                  *)
LEMMA SilentFunctionTurns ==
  ASSUME Clang, Framed, ScopeFunction \/ ClassFunction, UNCHANGED tables
  PROVE  Turned
<1> DEFINE d == Canonical(Cur)
           row(type) == NewRow(Top.cur, Member(d), type, d)
<1>1. /\ frames # << >> /\ Top.rest # << >> /\ UNCHANGED phase
      /\ ast[Cur].kind \in Function /\ frames' = Advance /\ ShouldVisitFunction(d)
  BY DEF ScopeFunction, ClassFunction, At, NextDecl
<1>2. Cur \in Decl /\ d \in Decl /\ Top.cur = WholeName
  BY <1>1, CurIsKid, CurIsScope DEF Clang, Coherent
<1>3. ast[d].kind \in Function
  BY <1>1, <1>2, Definitions DEF Clang, Coherent
<1>4. Kids(d) = {}
  BY <1>2, <1>3, NoContextNoKids DEF Function, Scope, Record, Template
<1>5. AllRows' = AllRows
  BY DEF tables, AllRows, Rows
<1>6. ASSUME ast[d].kind # "noproto"
      PROVE  \E r \in AllRows' : r.of = d
  <2>1. \E type : TryRow(row(type))
    <3>1. CASE ScopeFunction
      <4>1. InsertIntoNamespace(Top.cur, Member(d), TypeOf("value", "none"), d)
        BY <1>6, <3>1 DEF ScopeFunction
      <4>2. TypeOf("value", "none").what # "namespace"
        BY DEF TypeOf
      <4> QED
        BY <4>1, <4>2, NamespaceTried
    <3>2. CASE ClassFunction
      <4>1. InsertIntoClass(CurrentScope, Member(d), TypeOf("value", Top.access), d)
        BY <1>6, <3>2 DEF ClassFunction
      <4>2. TypeOf("value", Top.access).what # "namespace"
        BY DEF TypeOf
      <4> QED
        BY <1>2, <4>1, <4>2, ClassTried
    <3> QED
      BY <3>1, <3>2
  <2>2. PICK r : TryRow(r) /\ r.of = d
    BY <2>1 DEF NewRow
  <2>3. Namespaces \in Seq(NamespaceRow) /\ Classes \in Seq(ClassRow)
    BY DEF Clang, Coherent, TypeOK
  <2>4. \A S : \A s \in Seq(S) : s # Append(s, r)
    <3> TAKE S
    <3> TAKE s \in Seq(S)
    <3>1. Len(s) \in Nat /\ Len(Append(s, r)) = Len(s) + 1
      OBVIOUS
    <3> QED
      BY <3>1
  <2>5. lost' = lost \cup {r}
    BY <2>2, <2>3, <2>4 DEF TryRow, tables
  <2> QED
    BY <2>2, <2>5 DEF AllRows
<1>7. ast[d].kind = "noproto" => ~Indexed(d)
  BY DEF Indexed, Record, Template, Leaf
<1>8. FramesTurn(d) /\ Entered(d)
  BY <1>1, <1>4, NextTurns DEF Clang, Coherent, Entered
<1> HIDE DEF d
<1>9. TurnedOver(d)
  BY <1>1, <1>5, <1>6, <1>7, <1>8 DEF TurnedOver, ShouldVisitFunction
<1> QED
  BY <1>1, <1>9 DEF Turned, d

(* What a step is: a step of the running loop, the end of a loop, the      *)
(* crash, or one of the translation unit's.                                *)
LoopEnds == /\ frames # << >> /\ Top.rest = << >>
            /\ frames' = SubSeq(frames, 1, Len(frames) - 1)
            /\ UNCHANGED << visited, rows >>

LEMMA StepKinds ==
  ASSUME Clang, Framed, [Next]_vars
  PROVE  \/ Turned
         \/ LoopEnds /\ phase' \in {phase, "walked"}
         \/ ClassGuide
         \/ VisitTranslationUnitDecl
         \/ /\ UNCHANGED << visited, rows, frames >>
            /\ \/ UNCHANGED phase
               \/ phase = "new" /\ phase' = "ready"
               \/ phase = "walked" /\ phase' = "done"
<1>1. CASE RowAction
  BY <1>1, RowTurns
<1>2. CASE ScopeLinkage \/ ScopeIgnored \/ ClassIgnored \/ ClassAccess \/ SkipVisited
  BY <1>2, LinkageTurns, IgnoredTurns, SkipTurns
<1>3. CASE (ScopeFunction \/ ClassFunction) /\ UNCHANGED tables
  BY <1>3, SilentFunctionTurns
<1>4. CASE Return
  <2>1. frames # << >>
    BY <1>4, EmptySeq DEF Return
  <2> QED
    BY <1>4, <2>1 DEF Return, LoopEnds, Front, tables
<1>5. CASE FinishTranslationUnit
  <2>1. frames # << >> /\ Len(frames) = 1 /\ Top.rest = << >> /\ frames' = << >>
    BY <1>5, EmptySeq DEF FinishTranslationUnit
  <2>2. SubSeq(frames, 1, Len(frames) - 1) = << >>
    <3>1. frames \in Seq(AnyFrame)
      BY DEF Clang, Coherent, TypeOK, AnyFrame
    <3> QED
      BY <2>1, <3>1
  <2> QED
    BY <1>5, <2>1, <2>2 DEF FinishTranslationUnit, LoopEnds, tables
<1>6. CASE Construct \/ Destroy \/ UNCHANGED vars
  BY <1>6 DEF Construct, Destroy, vars, tables
<1> QED
  BY <1>1, <1>2, <1>3, <1>4, <1>5, <1>6 DEF Next, RowAction

-----------------------------------------------------------------------------
(* The tables are complete: the invariants.                                *)

LEMMA ClangKept == Clang /\ [Next]_vars => Clang'
<1> SUFFICES ASSUME Clang, [Next]_vars PROVE Clang'
  OBVIOUS
<1>1. ast' = ast
  BY InputKept
<1>2. TypeOK' /\ StackCoherent'
  BY TypeStep, StackNext DEF Clang, Coherent, StackStep
<1> QED
  BY <1>1, <1>2 DEF Clang, Coherent

(* The loops that go on when the last one ends.                            *)
LEMMA LoopsLeft ==
  ASSUME TypeOK, LoopEnds
  PROVE  /\ \A i \in DOMAIN frames' : i \in DOMAIN frames /\ frames'[i] = frames[i]
         /\ \A i \in DOMAIN frames : i \in DOMAIN frames' \/ frames[i].rest = << >>
<1>0. PICK n \in Nat : n = Len(frames)
  BY TopTyped DEF LoopEnds
<1>1. /\ frames \in Seq(AnyFrame) /\ n # 0 /\ frames[n].rest = << >>
      /\ DOMAIN frames = 1..n /\ frames' = SubSeq(frames, 1, n - 1)
  BY <1>0, TopTyped DEF LoopEnds, TypeOK, AnyFrame
<1>2. DOMAIN frames' = 1..(n - 1) /\ \A i \in 1..(n - 1) : frames'[i] = frames[i]
  BY <1>0, <1>1
<1>3. \A i \in 1..n : i \in 1..(n - 1) \/ i = n
  OBVIOUS
<1>4. \A i \in 1..(n - 1) : i \in 1..n
  OBVIOUS
<1> QED
  BY <1>1, <1>2, <1>3, <1>4

(* The first loop.                                                         *)
LEMMA FirstLoop ==
  ASSUME Clang, VisitTranslationUnitDecl
  PROVE  /\ DOMAIN frames' = {1} /\ frames'[1].ctx = TU
         /\ Looping(frames'[1]) /\ Kids(TU) \subseteq ToSet(frames'[1].rest)
         /\ UNCHANGED << visited, rows >> /\ phase = "ready" /\ phase' = "walking"
<1> DEFINE f == [fn |-> "IterateScope", ctx |-> TU, rest |-> ast[TU].kids,
                 cur |-> << >>, access |-> "none"]
<1>1. /\ frames' = << f >> /\ UNCHANGED << visited, rows >>
      /\ phase = "ready" /\ phase' = "walking"
  BY DEF VisitTranslationUnitDecl, tables
<1>2. TU \in Decl /\ ast[TU].kind = "tu"
  BY DeclAssumption DEF Clang, Grammatical
<1>3. Kids(TU) = ToSet(ast[TU].kids)
  BY <1>2, ScopesHoldKids
<1>4. f.ctx = TU /\ f.fn = "IterateScope" /\ f.rest = ast[TU].kids
  OBVIOUS
<1> HIDE DEF f
<1>5. Looping(f)
  BY <1>2, <1>3, <1>4 DEF Looping
<1> QED
  BY <1>1, <1>3, <1>4, <1>5

LEMMA FramedStep == Clang /\ Framed /\ [Next]_vars => Framed'
<1> SUFFICES ASSUME Clang, Framed, [Next]_vars PROVE Framed'
  OBVIOUS
<1>1. ast' = ast
  BY InputKept
<1>2. \A f : Looping(f)' <=> Looping(f')
  BY <1>1 DEF Looping, Kids
<1>3. SUFFICES ASSUME NEW i \in DOMAIN frames' PROVE Looping(frames'[i])
  BY <1>1 DEF Framed, Looping, Kids
<1>4. CASE Turned
  <2>1. CASE i \in DOMAIN frames
    <3>1. Looping(frames[i]) /\ Onward(frames[i], frames'[i])
      BY <1>4, <2>1 DEF Framed, Turned, TurnedOver, FramesTurn
    <3> QED
      BY <3>1 DEF Looping, Onward
  <2>2. CASE i \notin DOMAIN frames
    BY <1>4, <2>2 DEF Turned, TurnedOver, FramesTurn
  <2> QED
    BY <2>1, <2>2
<1>5. CASE LoopEnds
  BY <1>5, LoopsLeft DEF Framed, Clang, Coherent
<1>6. CASE ClassGuide
  BY <1>6 DEF ClassGuide
<1>7. CASE VisitTranslationUnitDecl
  BY <1>7, FirstLoop
<1>8. CASE UNCHANGED frames
  BY <1>8 DEF Framed
<1> QED
  BY <1>4, <1>5, <1>6, <1>7, <1>8, StepKinds

(* All that is walked and recorded is below the translation unit: in every *)
(* set that has it and what its elements hold.                             *)
Inside(S) == /\ \A i \in DOMAIN frames : frames[i].ctx \in S
             /\ \A r \in AllRows : r.of \in S /\ Indexed(r.of)

InEvery == \A S : Shut(S) => Inside(S)

LEMMA InEveryStep == Clang /\ Framed /\ InEvery /\ [Next]_vars => InEvery'
<1> SUFFICES ASSUME Clang, Framed, InEvery, [Next]_vars PROVE InEvery'
  OBVIOUS
<1>1. ast' = ast
  BY InputKept
<1>2. ASSUME NEW S, Shut(S)
      PROVE  /\ \A i \in DOMAIN frames' : frames'[i].ctx \in S
             /\ \A r \in AllRows' : r.of \in S /\ Indexed(r.of)
  <2>0. Inside(S)
    BY <1>2 DEF InEvery
  <2>1. CASE Turned
    <3>1. /\ frames # << >> /\ Top.rest # << >> /\ TurnedOver(Canonical(Cur))
      BY <2>1 DEF Turned
    <3>2. Canonical(Cur) \in Held(Top.ctx) /\ Top.ctx \in S
      <4>1. Top = frames[Len(frames)] /\ Len(frames) \in DOMAIN frames
        BY <3>1, TopTyped, SizesBounded DEF Clang, Coherent
      <4> QED
        BY <2>0, <3>1, <4>1, CurIsKid DEF Inside
    <3>3. Canonical(Cur) \in S
      BY <1>2, <3>2 DEF Shut
    <3> QED
      BY <2>0, <3>1, <3>3 DEF Inside, TurnedOver, FramesTurn, Onward
  <2>2. CASE UNCHANGED rows /\ \A i \in DOMAIN frames' : i \in DOMAIN frames /\ frames'[i] = frames[i]
    BY <2>0, <2>2 DEF Inside, AllRows, Rows
  <2>3. CASE LoopEnds
    BY <2>2, <2>3, LoopsLeft DEF LoopEnds, Clang, Coherent
  <2>4. CASE ClassGuide
    BY <2>2, <2>4 DEF ClassGuide, tables
  <2>5. CASE VisitTranslationUnitDecl
    <3>1. DOMAIN frames' = {1} /\ frames'[1].ctx = TU /\ UNCHANGED rows
      BY <2>5, FirstLoop
    <3>2. AllRows' = AllRows
      BY <3>1 DEF AllRows, Rows
    <3> QED
      BY <1>2, <2>0, <3>1, <3>2 DEF Inside, Shut
  <2>6. CASE UNCHANGED << rows, frames >>
    BY <2>2, <2>6
  <2> QED
    BY <2>1, <2>3, <2>4, <2>5, <2>6, StepKinds
<1>3. \A S : Shut(S)' => Shut(S')
  BY <1>1 DEF Shut, Held, Canonical
<1> QED
  BY <1>1, <1>2 DEF InEvery, Inside, Shut, Held, Canonical, Indexed

(* Nothing is left out: X has the translation unit and what was visited;   *)
(* what is in X and indexed has its row; and what is in X has its kids in  *)
(* X, or some loop is still to come to them.                               *)
Reached(X) ==
  /\ X \subseteq Decl /\ TU \in X
  /\ VisitedClasses \cup VisitedFunctions \subseteq X
  /\ \A x \in X : Indexed(x) => \E r \in AllRows : r.of = x
  /\ \A x \in X : \A k \in Kids(x) :
       Canonical(k) \in X \/ \E i \in DOMAIN frames : k \in ToSet(frames[i].rest)

Covering ==
  /\ phase \in {"new", "ready"} => VisitedClasses = {} /\ VisitedFunctions = {}
  /\ phase \in {"walking", "walked", "done"} => \E X : Reached(X)

LEMMA CoveringStep == Clang /\ Framed /\ Covering /\ [Next]_vars => Covering'
<1> SUFFICES ASSUME Clang, Framed, Covering, [Next]_vars PROVE Covering'
  OBVIOUS
<1>1. ast' = ast
  BY InputKept
<1> DEFINE ReachedNext(Y) ==
             /\ Y \subseteq Decl /\ TU \in Y
             /\ VisitedClasses' \cup VisitedFunctions' \subseteq Y
             /\ \A x \in Y : Indexed(x) => \E r \in AllRows' : r.of = x
             /\ \A x \in Y : \A k \in Kids(x) :
                  \/ Canonical(k) \in Y
                  \/ \E i \in DOMAIN frames' : k \in ToSet(frames'[i].rest)
<1>2. ASSUME NEW Y, ReachedNext(Y), phase' \notin {"new", "ready"}
      PROVE  Covering'
  <2>1. Reached(Y)'
    BY <1>1, <1>2 DEF Reached, Indexed, Kids, Canonical
  <2> QED
    BY <1>2, <2>1 DEF Covering
<1>3. frames # << >> => phase = "walking"
  BY DEF Clang, Coherent, StackCoherent
<1>4. CASE Turned
  <2>1. /\ frames # << >> /\ Top.rest # << >> /\ phase' = "walking"
        /\ TurnedOver(Canonical(Cur))
    BY <1>3, <1>4 DEF Turned
  <2>2. PICK X : Reached(X)
    BY <1>3, <2>1 DEF Covering
  <2> DEFINE d == Canonical(Cur)
  <2>3. d \in Decl
    BY <2>1, CurIsKid
  <2>4. ASSUME NEW x \in X, NEW k \in Kids(x)
        PROVE  \/ Canonical(k) \in X \cup {d}
               \/ \E i \in DOMAIN frames' : k \in ToSet(frames'[i].rest)
    <3>1. CASE Canonical(k) \in X
      BY <3>1
    <3>2. CASE \E i \in DOMAIN frames : k \in ToSet(frames[i].rest)
      <4>1. PICK i \in DOMAIN frames : k \in ToSet(frames[i].rest)
        BY <3>2
      <4>2. i \in DOMAIN frames' /\ Onward(frames[i], frames'[i])
        BY <2>1 DEF TurnedOver, FramesTurn
      <4>3. k \in ToSet(frames'[i].rest) \/ k = Cur
        BY <4>1, <4>2 DEF Onward
      <4> QED
        BY <4>2, <4>3
    <3> QED
      BY <2>2, <3>1, <3>2 DEF Reached
  <2>5. ReachedNext(X \cup {d})
    <3>1. \A x \in X : Indexed(x) => \E r \in AllRows' : r.of = x
      BY <2>1, <2>2 DEF Reached, TurnedOver
    <3>2. CASE d \in X
      <4> HIDE DEF d
      <4>1. X \cup {d} = X
        BY <3>2
      <4> QED
        BY <2>1, <2>2, <2>3, <2>4, <3>1, <4>1 DEF Reached, TurnedOver, d
    <3>3. CASE d \notin X
      <4>1. /\ Entered(d)
            /\ Indexed(d) => \E r \in AllRows' : r.of = d
        BY <2>1, <2>2, <3>3 DEF Reached, TurnedOver
      <4>2. \A k \in Kids(d) : \E i \in DOMAIN frames' : k \in ToSet(frames'[i].rest)
        BY <4>1 DEF Entered
      <4>3. VisitedClasses' \cup VisitedFunctions' \subseteq X \cup {d}
        BY <2>1, <2>2 DEF Reached, TurnedOver
      <4> HIDE DEF d
      <4>4. X \cup {d} \subseteq Decl /\ TU \in X \cup {d}
        BY <2>2, <2>3 DEF Reached
      <4> QED
        BY <2>4, <3>1, <4>1, <4>2, <4>3, <4>4
    <3> QED
      BY <3>2, <3>3
  <2> HIDE DEF ReachedNext, d
  <2> QED
    BY <1>2, <2>1, <2>5
<1>5. CASE LoopEnds /\ phase' \in {phase, "walked"}
  <2>1. frames # << >> /\ phase = "walking" /\ UNCHANGED << visited, rows >>
    BY <1>3, <1>5 DEF LoopEnds
  <2>2. PICK X : Reached(X)
    BY <2>1 DEF Covering
  <2>3. AllRows' = AllRows
    BY <2>1 DEF AllRows, Rows
  <2>4. \A i \in DOMAIN frames :
          ToSet(frames[i].rest) # {} => i \in DOMAIN frames' /\ frames'[i] = frames[i]
    BY <1>5, LoopsLeft DEF ToSet, Clang, Coherent
  <2>5. ReachedNext(X)
    BY <2>1, <2>2, <2>3, <2>4 DEF Reached, visited
  <2> HIDE DEF ReachedNext
  <2> QED
    BY <1>2, <1>5, <2>1, <2>5
<1>6. CASE ClassGuide
  BY <1>6 DEF ClassGuide, Covering
<1>7. CASE VisitTranslationUnitDecl
  <2>1. /\ DOMAIN frames' = {1} /\ Kids(TU) \subseteq ToSet(frames'[1].rest)
        /\ UNCHANGED << visited, rows >> /\ phase = "ready" /\ phase' = "walking"
    BY <1>7, FirstLoop
  <2>2. ~Indexed(TU) /\ TU \in Decl
    BY DeclAssumption DEF Clang, Grammatical, Indexed, Record, Template, Leaf
  <2>3. VisitedClasses' = {} /\ VisitedFunctions' = {}
    BY <2>1 DEF Covering, visited
  <2>4. ReachedNext({TU})
    BY <2>1, <2>2, <2>3
  <2> HIDE DEF ReachedNext
  <2> QED
    BY <1>2, <2>1, <2>4
<1>8. CASE /\ UNCHANGED << visited, rows, frames >>
           /\ \/ UNCHANGED phase
              \/ phase = "new" /\ phase' = "ready"
              \/ phase = "walked" /\ phase' = "done"
  <2>1. AllRows' = AllRows
    BY <1>8 DEF AllRows, Rows
  <2>2. ASSUME NEW X, Reached(X) PROVE ReachedNext(X)
    BY <1>8, <2>1, <2>2 DEF Reached, visited
  <2> HIDE DEF ReachedNext
  <2>3. CASE phase' \in {"walking", "walked", "done"}
    BY <1>2, <1>8, <2>2, <2>3 DEF Covering
  <2>4. CASE phase' \notin {"walking", "walked", "done"}
    BY <1>8, <2>4 DEF Covering, visited
  <2> QED
    BY <2>3, <2>4
<1> QED
  BY <1>4, <1>5, <1>6, <1>7, <1>8, StepKinds

(* When the walk has ended no loop is left to come to anything.            *)
LEMMA EndIsComplete ==
  ASSUME Clang, InEvery, Covering, phase = "walked"
  PROVE  {r.of : r \in AllRows} = {d \in Found : Indexed(d)}
<1>1. PICK X : Reached(X)
  BY DEF Covering
<1>2. frames = << >> /\ DOMAIN frames = {}
  BY DEF Clang, Coherent, StackCoherent
<1>3. Shut(X)
  BY <1>1, <1>2 DEF Reached, Shut, Held, Kids
<1>4. Found \subseteq X
  BY <1>3, FoundLeast DEF Clang, Coherent
<1>5. \A r \in AllRows : r.of \in Found /\ Indexed(r.of)
  BY FoundShut DEF InEvery, Inside, Clang, Coherent
<1> HIDE DEF Found
<1> QED
  BY <1>1, <1>4, <1>5 DEF Reached

-----------------------------------------------------------------------------
(* Each declaration is tried once, so that its symbol is as its row.       *)

(* Classes and functions are remembered when they have been visited; of    *)
(* the others the walk relies on meeting each once.                        *)
Plain(d) == ast[d].kind \notin Record \cup Function

Handled(d) == \/ \E r \in AllRows : r.of = d
              \/ [call |-> "symbol", of |-> d] \in errs

HandledSeen == \A d \in Decl : ~Plain(d) /\ Handled(d) => Seen(d)

PlainKids(d) == {k \in ToSet(ast[d].kids) : Plain(k)}

(* A loop goes over kids of its declaration, each once, and a class that   *)
(* it is for has been visited.                                             *)
Going(f) ==
  /\ f.ctx \in Decl
  /\ ToSet(f.rest) \subseteq ToSet(ast[f.ctx].kids)
  /\ IsInjective(f.rest)
  /\ ast[f.ctx].kind \in Record => f.ctx \in VisitedClasses

(* A is what is still ahead: what loops will come to, and what is in       *)
(* something ahead or in a class not visited yet.                          *)
Ahead(A) ==
  /\ A \subseteq {d \in Decl : Plain(d)}
  /\ \A d \in A : ~Handled(d) /\ PlainKids(d) \subseteq A
  /\ \A d \in Decl : ast[d].kind \in Record /\ d \notin VisitedClasses => PlainKids(d) \subseteq A
  /\ \A i \in DOMAIN frames :
       frames[i].ctx \notin A /\ {k \in ToSet(frames[i].rest) : Plain(k)} \subseteq A

OnceEach ==
  /\ phase \in {"new", "ready"} => \A d \in Decl : ~Handled(d) /\ ~Seen(d)
  /\ \A i \in DOMAIN frames : Going(frames[i])
  /\ \A i, j \in DOMAIN frames : frames[i].ctx = frames[j].ctx => i = j
  /\ frames # << >> => \E A \in SUBSET Decl : Ahead(A)

(* Behind the declaration the loop is on, a loop that comes to each once   *)
(* does not come to it again.                                              *)
LEMMA TailLeavesHead ==
  ASSUME NEW s \in Seq(Decl), s # << >>, IsInjective(s)
  PROVE  /\ IsInjective(Tail(s)) /\ ToSet(Tail(s)) \subseteq ToSet(s) \ {Head(s)}
         /\ Head(s) \in ToSet(s)
<1>1. /\ Len(s) \in Nat \ {0} /\ DOMAIN s = 1..Len(s) /\ Head(s) = s[1]
      /\ DOMAIN Tail(s) = 1..(Len(s) - 1)
      /\ \A i \in 1..(Len(s) - 1) : Tail(s)[i] = s[i + 1]
  BY HeadTailProperties
<1>2. \A i, j \in DOMAIN s : s[i] = s[j] => i = j
  BY DEF IsInjective
<1>3. ASSUME NEW i \in DOMAIN Tail(s)
      PROVE  i + 1 \in DOMAIN s /\ i + 1 # 1 /\ Tail(s)[i] = s[i + 1] /\ 1 \in DOMAIN s
  BY <1>1
<1>4. \A i, j \in DOMAIN Tail(s) : Tail(s)[i] = Tail(s)[j] => i = j
  <2> SUFFICES ASSUME NEW i \in DOMAIN Tail(s), NEW j \in DOMAIN Tail(s), Tail(s)[i] = Tail(s)[j]
               PROVE  i = j
    OBVIOUS
  <2>1. i + 1 = j + 1
    BY <1>2, <1>3
  <2> QED
    BY <1>1, <2>1
<1>5. ASSUME NEW i \in DOMAIN Tail(s) PROVE Tail(s)[i] \in ToSet(s) \ {Head(s)}
  BY <1>1, <1>2, <1>3 DEF ToSet
<1>6. Head(s) \in ToSet(s)
  BY <1>1 DEF ToSet
<1> QED
  BY <1>4, <1>5, <1>6 DEF IsInjective, ToSet

(* g is f, without the declaration the running loop is on.                 *)
Past(f, g) ==
  /\ g.ctx = f.ctx
  /\ ToSet(g.rest) \subseteq ToSet(f.rest)
  /\ IsInjective(f.rest) => IsInjective(g.rest)

(* A step of the running loop: it leaves the declaration behind, and may   *)
(* start a loop over kids of d.                                            *)
Stepped(d) ==
  /\ DOMAIN frames \subseteq DOMAIN frames'
  /\ \A i \in DOMAIN frames : Past(frames[i], frames'[i])
  /\ Cur \notin ToSet(frames'[Len(frames)].rest)
  /\ \A i, j \in DOMAIN frames' : i \notin DOMAIN frames /\ j \notin DOMAIN frames => i = j
  /\ \A i \in DOMAIN frames' : i \notin DOMAIN frames =>
       /\ frames'[i].ctx = d
       /\ ToSet(frames'[i].rest) \subseteq ToSet(ast[d].kids)
       /\ IsInjective(ast[d].kids) => IsInjective(frames'[i].rest)

LEMMA AdvanceIsPast ==
  ASSUME TypeOK, frames # << >>, Top.rest # << >>, IsInjective(Top.rest)
  PROVE  /\ Advance \in Seq(AnyFrame) /\ DOMAIN Advance = DOMAIN frames
         /\ \A i \in DOMAIN frames : Past(frames[i], Advance[i])
         /\ Cur \notin ToSet(Advance[Len(frames)].rest)
<1>1. /\ frames \in Seq(AnyFrame) /\ Len(frames) \in Nat \ {0}
      /\ DOMAIN frames = 1..Len(frames) /\ Top = frames[Len(frames)]
      /\ Top \in AnyFrame /\ Top.rest \in Seq(Decl)
      /\ Advance \in Seq(AnyFrame) /\ DOMAIN Advance = 1..Len(frames)
      /\ \A i \in 1..Len(frames) : Onward(frames[i], Advance[i])
  BY TopTyped, AdvanceGoesOn DEF TypeOK, AnyFrame, ScopeFrame, ClassFrame
<1>2. Advance[Len(frames)].rest = Tail(Top.rest)
  BY <1>1 DEF Advance, AnyFrame, ScopeFrame, ClassFrame
<1>3. IsInjective(Tail(Top.rest)) /\ Cur \notin ToSet(Tail(Top.rest))
  BY <1>1, TailLeavesHead DEF Cur
<1>4. ASSUME NEW i \in 1..Len(frames), i # Len(frames) PROVE Advance[i] = frames[i]
  BY <1>1, <1>4 DEF Advance
<1>5. \A i \in 1..Len(frames) : IsInjective(frames[i].rest) => IsInjective(Advance[i].rest)
  BY <1>1, <1>2, <1>3, <1>4
<1> QED
  BY <1>1, <1>2, <1>3, <1>5 DEF Past, Onward

LEMMA AdvanceSteps ==
  ASSUME TypeOK, frames # << >>, Top.rest # << >>, IsInjective(Top.rest), NEW d,
         DOMAIN frames' = DOMAIN Advance,
         \A i \in DOMAIN frames : frames'[i].ctx = Advance[i].ctx /\ frames'[i].rest = Advance[i].rest
  PROVE  Stepped(d)
<1>1. /\ DOMAIN Advance = DOMAIN frames /\ Len(frames) \in DOMAIN frames
      /\ \A i \in DOMAIN frames : Past(frames[i], Advance[i])
      /\ Cur \notin ToSet(Advance[Len(frames)].rest)
  BY AdvanceIsPast, AdvanceGoesOn
<1>2. \A i \in DOMAIN frames : Past(frames[i], frames'[i])
  BY <1>1 DEF Past
<1> QED
  BY <1>1, <1>2 DEF Stepped

LEMMA EnterSteps ==
  ASSUME TypeOK, frames # << >>, Top.rest # << >>, IsInjective(Top.rest), NEW d, NEW f,
         f \in AnyFrame, frames' = Append(Advance, f), f.ctx = d,
         ToSet(f.rest) \subseteq ToSet(ast[d].kids),
         IsInjective(ast[d].kids) => IsInjective(f.rest)
  PROVE  Stepped(d)
<1>0. PICK n \in Nat : n = Len(frames)
  BY AdvanceGoesOn
<1>1. /\ Advance \in Seq(AnyFrame) /\ Len(Advance) = n /\ DOMAIN frames = 1..n /\ n \in 1..n
      /\ \A i \in 1..n : Past(frames[i], Advance[i])
      /\ Cur \notin ToSet(Advance[n].rest)
  BY <1>0, AdvanceGoesOn, AdvanceIsPast
<1>2. /\ DOMAIN frames' = 1..(n + 1) /\ frames'[n + 1] = f
      /\ \A i \in 1..n : frames'[i] = Advance[i]
  BY <1>0, <1>1
<1>3. \A i \in 1..(n + 1) : i \in 1..n \/ i = n + 1
  OBVIOUS
<1> QED
  BY <1>0, <1>1, <1>2, <1>3 DEF Stepped

LEMMA MembersAmongKids ==
  ASSUME TypeOK, NEW d \in Decl
  PROVE  /\ ToSet(Members(d)) \subseteq ToSet(ast[d].kids)
         /\ IsInjective(ast[d].kids) => IsInjective(Members(d))
<1>1. ast[d].kids \in Seq(Decl)
  BY AstTyped
<1>2. CASE ast[d].kids = << >>
  BY <1>2 DEF Members
<1>3. CASE ast[d].kids # << >>
  <2>1. /\ Len(ast[d].kids) \in Nat \ {0} /\ DOMAIN ast[d].kids = 1..Len(ast[d].kids)
        /\ DOMAIN Members(d) = 1..(Len(ast[d].kids) - 1)
        /\ \A i \in 1..(Len(ast[d].kids) - 1) : Members(d)[i] = ast[d].kids[i + 1]
    BY <1>1, <1>3, HeadTailProperties DEF Members
  <2>2. \A i \in DOMAIN Members(d) :
          i + 1 \in DOMAIN ast[d].kids /\ Members(d)[i] = ast[d].kids[i + 1]
    BY <2>1
  <2>3. \A i, j \in DOMAIN Members(d) : i + 1 = j + 1 => i = j
    BY <2>1
  <2> QED
    BY <2>2, <2>3 DEF ToSet, IsInjective
<1> QED
  BY <1>2, <1>3

(* What is known of the declaration the running loop is on.                *)
LEMMA CurIsAhead ==
  ASSUME Coherent, \A i \in DOMAIN frames : Going(frames[i]), frames # << >>, Top.rest # << >>
  PROVE  /\ Top = frames[Len(frames)] /\ Len(frames) \in DOMAIN frames
         /\ Going(Top) /\ Cur \in Decl /\ Cur \in ToSet(Top.rest)
         /\ Canonical(Cur) \in Decl
         /\ IsInjective(Top.rest)
         /\ Plain(Cur) => Canonical(Cur) = Cur
         /\ ~Plain(Cur) => ~Plain(Canonical(Cur))
<1>1. /\ Top \in AnyFrame /\ Top = frames[Len(frames)] /\ Len(frames) \in DOMAIN frames
      /\ Cur \in Decl /\ Canonical(Cur) \in Decl
  BY TopTyped, SizesBounded, AstTyped DEF Coherent
<1>2. Top.rest \in Seq(Decl)
  BY <1>1 DEF AnyFrame, ScopeFrame, ClassFrame
<1>3. Going(Top)
  BY <1>1
<1>4. IsInjective(Top.rest)
  BY <1>3 DEF Going
<1>5. Cur \in ToSet(Top.rest)
  BY <1>2, <1>4, TailLeavesHead DEF Cur
<1>6. /\ Plain(Cur) => Canonical(Cur) = Cur
      /\ ~Plain(Cur) => ~Plain(Canonical(Cur))
  BY <1>1, Definitions DEF Plain, Coherent
<1> QED
  BY <1>1, <1>3, <1>4, <1>5, <1>6

(* A step of the running loop over d keeps everything in one place: only   *)
(* d is handled, it was ahead or had not been visited, and its kids are    *)
(* gone over from now on.                                                  *)
LEMMA SteppedKeeps ==
  ASSUME Coherent, InOneList(ast), HandledSeen, OnceEach, [Next]_vars,
         frames # << >>, Top.rest # << >>, NEW d, d = Canonical(Cur), Stepped(d),
         Plain(d) \/ DOMAIN frames' = DOMAIN frames
           \/ (ast[d].kind \in Record /\ d \notin VisitedClasses /\ d \in VisitedClasses'),
         \A x \in Decl : Handled(x)' => Handled(x) \/ x = d,
         phase' \notin {"new", "ready"}
  PROVE  OnceEach'
<1>1. \A i \in DOMAIN frames : Going(frames[i])
  BY DEF OnceEach
<1>2. /\ Top = frames[Len(frames)] /\ Len(frames) \in DOMAIN frames
      /\ Going(Top) /\ Cur \in Decl /\ Cur \in ToSet(Top.rest)
      /\ d \in Decl /\ IsInjective(Top.rest)
      /\ Plain(Cur) => d = Cur
      /\ ~Plain(Cur) => ~Plain(d)
  BY <1>1, CurIsAhead
<1>3. PICK A \in SUBSET Decl : Ahead(A)
  BY DEF OnceEach
<1>4. ast' = ast /\ VisitedClasses \subseteq VisitedClasses'
  BY InputKept, VisitedGrows DEF input
<1>5. \A c, e \in Decl : \A k \in ToSet(ast[c].kids) : k \in ToSet(ast[e].kids) => c = e
  BY DEF InOneList, ToSet
<1>6. \A c \in Decl : IsInjective(ast[c].kids)
  BY DEF InOneList, IsInjective
<1>7. Top.ctx \in Decl /\ Cur \in ToSet(ast[Top.ctx].kids) /\ Top.ctx \notin A
      /\ (ast[Top.ctx].kind \in Record => Top.ctx \in VisitedClasses)
  BY <1>2, <1>3 DEF Going, Ahead
<1>8. \A c \in Decl : Cur \in ToSet(ast[c].kids) => c = Top.ctx
  BY <1>5, <1>7
<1>9. Plain(d) => d = Cur /\ d \in A
  BY <1>2, <1>3 DEF Ahead
<1>10. ASSUME NEW i \in DOMAIN frames', i \notin DOMAIN frames
       PROVE  /\ frames'[i].ctx = d /\ d \notin A \ {d} /\ Cur \notin PlainKids(d) \cap A
              /\ ToSet(frames'[i].rest) \subseteq ToSet(ast[d].kids)
              /\ IsInjective(frames'[i].rest)
              /\ ast[d].kind \in Record => d \in VisitedClasses'
              /\ PlainKids(d) \subseteq A
              /\ \A j \in DOMAIN frames : frames[j].ctx # d
  <2>1. /\ frames'[i].ctx = d
        /\ ToSet(frames'[i].rest) \subseteq ToSet(ast[d].kids)
        /\ IsInjective(frames'[i].rest)
    BY <1>2, <1>6, <1>10 DEF Stepped
  <2>2. CASE Plain(d)
    <3>1. PlainKids(d) \subseteq A /\ d # Top.ctx
      BY <1>3, <1>7, <1>9, <2>2 DEF Ahead
    <3>2. \A j \in DOMAIN frames : frames[j].ctx # d
      BY <1>3, <1>9, <2>2 DEF Ahead
    <3>3. Cur \notin ToSet(ast[d].kids)
      BY <1>2, <1>8, <3>1
    <3> QED
      BY <2>1, <2>2, <3>1, <3>2, <3>3 DEF Plain, PlainKids
  <2>3. CASE ~Plain(d)
    <3>1. ast[d].kind \in Record /\ d \notin VisitedClasses /\ d \in VisitedClasses'
      BY <1>10, <2>3
    <3>2. PlainKids(d) \subseteq A
      BY <1>2, <1>3, <3>1 DEF Ahead
    <3>3. \A j \in DOMAIN frames : frames[j].ctx # d
      BY <1>1, <3>1 DEF Going
    <3>4. Cur \notin ToSet(ast[d].kids)
      BY <1>2, <1>7, <1>8, <3>1
    <3>5. d \notin A
      BY <1>3, <2>3 DEF Ahead
    <3> QED
      BY <2>1, <3>1, <3>2, <3>3, <3>4, <3>5 DEF PlainKids
  <2> QED
    BY <2>2, <2>3
<1>11. ASSUME NEW i \in DOMAIN frames
       PROVE  /\ i \in DOMAIN frames' /\ frames'[i].ctx = frames[i].ctx
              /\ ToSet(frames'[i].rest) \subseteq ToSet(frames[i].rest)
              /\ IsInjective(frames'[i].rest)
              /\ Cur \notin ToSet(frames'[i].rest)
  <2>1. /\ i \in DOMAIN frames' /\ frames'[i].ctx = frames[i].ctx
        /\ ToSet(frames'[i].rest) \subseteq ToSet(frames[i].rest)
        /\ IsInjective(frames'[i].rest)
    BY <1>1 DEF Stepped, Past, Going
  <2>2. CASE i = Len(frames)
    BY <2>1, <2>2 DEF Stepped
  <2>3. CASE i # Len(frames)
    <3>1. frames[i].ctx # Top.ctx
      BY <1>2, <2>3 DEF OnceEach
    <3>2. frames[i].ctx \in Decl /\ ToSet(frames[i].rest) \subseteq ToSet(ast[frames[i].ctx].kids)
      BY <1>1 DEF Going
    <3> QED
      BY <1>8, <2>1, <3>1, <3>2
  <2> QED
    BY <2>2, <2>3
<1>12. ASSUME NEW i \in DOMAIN frames'
       PROVE  /\ frames'[i].ctx \in Decl /\ IsInjective(frames'[i].rest)
              /\ ToSet(frames'[i].rest) \subseteq ToSet(ast[frames'[i].ctx].kids)
              /\ ast[frames'[i].ctx].kind \in Record => frames'[i].ctx \in VisitedClasses'
  <2>1. CASE i \in DOMAIN frames
    BY <1>1, <1>4, <1>11, <2>1 DEF Going
  <2>2. CASE i \notin DOMAIN frames
    BY <1>2, <1>4, <1>10, <2>2 DEF Going
  <2> QED
    BY <2>1, <2>2
<1>13. ASSUME NEW i \in DOMAIN frames', NEW j \in DOMAIN frames', frames'[i].ctx = frames'[j].ctx
       PROVE  i = j
  <2>1. CASE i \in DOMAIN frames /\ j \in DOMAIN frames
    BY <1>11, <1>13, <2>1 DEF OnceEach
  <2>2. CASE ~(i \in DOMAIN frames) /\ ~(j \in DOMAIN frames)
    BY <2>2 DEF Stepped
  <2>3. CASE i \in DOMAIN frames /\ ~(j \in DOMAIN frames)
    BY <1>10, <1>11, <1>13, <2>3
  <2>4. CASE ~(i \in DOMAIN frames) /\ j \in DOMAIN frames
    BY <1>10, <1>11, <1>13, <2>4
  <2> QED
    BY <2>1, <2>2, <2>3, <2>4
<1> DEFINE B == A \ {d}
<1>14. ASSUME NEW x \in B PROVE Plain(x) /\ ~Handled(x)' /\ PlainKids(x) \subseteq B
  <2>1. Plain(x) /\ ~Handled(x) /\ PlainKids(x) \subseteq A /\ x \in Decl
    BY <1>3 DEF Ahead
  <2>2. ~Handled(x)'
    BY <2>1
  <2>3. Plain(d) => d \notin PlainKids(x)
    BY <1>7, <1>8, <1>9, <2>1 DEF PlainKids
  <2>4. ~Plain(d) => d \notin PlainKids(x)
    BY DEF PlainKids
  <2> QED
    BY <2>1, <2>2, <2>3, <2>4
<1>15. ASSUME NEW x \in Decl, ast[x].kind \in Record, x \notin VisitedClasses'
       PROVE  PlainKids(x) \subseteq B
  <2>1. PlainKids(x) \subseteq A /\ x # Top.ctx
    BY <1>3, <1>4, <1>7, <1>15 DEF Ahead
  <2>2. Plain(d) => d \notin PlainKids(x)
    BY <1>8, <1>9, <2>1 DEF PlainKids
  <2>3. ~Plain(d) => d \notin PlainKids(x)
    BY DEF PlainKids
  <2> QED
    BY <2>1, <2>2, <2>3
<1>16. ASSUME NEW i \in DOMAIN frames'
       PROVE  frames'[i].ctx \notin B /\ {k \in ToSet(frames'[i].rest) : Plain(k)} \subseteq B
  <2>1. CASE i \in DOMAIN frames
    <3>1. frames[i].ctx \notin A /\ {k \in ToSet(frames[i].rest) : Plain(k)} \subseteq A
      BY <1>3, <2>1 DEF Ahead
    <3> QED
      BY <1>9, <1>11, <2>1, <3>1
  <2>2. CASE i \notin DOMAIN frames
    <3>1. /\ frames'[i].ctx = d /\ ToSet(frames'[i].rest) \subseteq ToSet(ast[d].kids)
          /\ Cur \notin PlainKids(d) \cap A /\ PlainKids(d) \subseteq A
      BY <1>10, <2>2
    <3>2. {k \in ToSet(frames'[i].rest) : Plain(k)} \subseteq PlainKids(d)
      BY <3>1 DEF PlainKids
    <3>3. d \notin PlainKids(d)
      BY <1>9, <3>1 DEF PlainKids
    <3> QED
      BY <3>1, <3>2, <3>3
  <2> QED
    BY <2>1, <2>2
<1> HIDE DEF B
<1>17. Ahead(B)'
  <2>1. B \subseteq {x \in Decl : Plain(x)}
    BY <1>14 DEF B
  <2>2. \A x : Plain(x)' <=> Plain(x)
    BY <1>4 DEF Plain
  <2>3. \A x : PlainKids(x)' = PlainKids(x)
    BY <1>4, <2>2 DEF PlainKids
  <2> QED
    BY <1>4, <1>14, <1>15, <1>16, <2>1, <2>2, <2>3 DEF Ahead
<1>18. B \in SUBSET Decl
  BY DEF B
<1>19. (\A i \in DOMAIN frames : Going(frames[i]))'
  BY <1>4, <1>12 DEF Going
<1> QED
  BY <1>13, <1>17, <1>18, <1>19 DEF OnceEach

(* The frames of a step that tries a row.                                  *)
LEMMA RowSteps ==
  ASSUME Coherent, OnceEach, InOneList(ast), NEW r, RowOfCur(r), Moves(r), TypeOK'
  PROVE  /\ Stepped(r.of)
         /\ Plain(r.of) \/ DOMAIN frames' = DOMAIN frames
              \/ (ast[r.of].kind \in Record /\ r.of \notin VisitedClasses /\ r.of \in VisitedClasses')
<1>1. frames # << >> /\ Top.rest # << >> /\ r.of = Canonical(Cur)
  BY DEF RowOfCur
<1>2. r.of \in Decl /\ IsInjective(Top.rest)
  BY <1>1, CurIsAhead DEF OnceEach
<1>3. CASE frames' = Advance
  <2>1. DOMAIN frames' = DOMAIN frames
    BY <1>1, <1>2, <1>3, AdvanceIsPast DEF Coherent
  <2> QED
    BY <1>1, <1>2, <1>3, <2>1, AdvanceSteps DEF Coherent
<1>4. CASE \E f : frames' = Append(Advance, f) /\ Opens(r, f)
  <2>1. PICK f : frames' = Append(Advance, f) /\ Opens(r, f)
    BY <1>4
  <2>2. f.ctx = r.of /\ f.rest \in {Members(r.of), ast[r.of].kids}
    BY <2>1 DEF Opens
  <2>3. /\ ToSet(f.rest) \subseteq ToSet(ast[r.of].kids)
        /\ IsInjective(ast[r.of].kids) => IsInjective(f.rest)
    BY <1>2, <2>2, MembersAmongKids DEF Coherent
  <2>4. f \in AnyFrame
    <3>1. frames' \in Seq(AnyFrame) /\ Advance \in Seq(AnyFrame)
      BY <1>1, AdvanceGoesOn DEF TypeOK, AnyFrame, Coherent
    <3>2. Len(Append(Advance, f)) = Len(Advance) + 1
          /\ Append(Advance, f)[Len(Advance) + 1] = f /\ Len(Advance) \in Nat
      BY <3>1
    <3>3. Len(Advance) + 1 \in DOMAIN frames'
      BY <2>1, <3>1, <3>2
    <3> QED
      BY <2>1, <3>1, <3>2, <3>3
  <2>5. Stepped(r.of)
    BY <1>1, <1>2, <2>1, <2>2, <2>3, <2>4, EnterSteps DEF Coherent
  <2>6. ast[r.of].kind \notin Function
    BY <2>1 DEF Opens, Function, Record, Template
  <2>7. Plain(r.of) \/ (ast[r.of].kind \in Record /\ r.of \notin VisitedClasses /\ r.of \in VisitedClasses')
    BY <2>6 DEF RowOfCur, Plain, Seen, Marks
  <2> QED
    BY <2>5, <2>7
<1> QED
  BY <1>3, <1>4 DEF Moves

(* The steps that try no row.                                              *)
LEMMA SilentSteps ==
  ASSUME Coherent, OnceEach, InOneList(ast), [Next]_vars, ~RowAction
  PROVE  /\ \A x : Handled(x)' <=> Handled(x)
         /\ \/ frames' = << >> /\ phase' \notin {"new", "ready"}
            \/ UNCHANGED << frames, visited >> /\ (phase' \in {"new", "ready"} => phase \in {"new", "ready"})
            \/ LoopEnds /\ UNCHANGED phase
            \/ VisitTranslationUnitDecl
            \/ /\ frames # << >> /\ Top.rest # << >> /\ UNCHANGED phase
               /\ Stepped(Canonical(Cur))
               /\ Plain(Canonical(Cur)) \/ DOMAIN frames' = DOMAIN frames
<1>1. \A x : Handled(x)' <=> Handled(x)
  <2>1. UNCHANGED rows
    BY OtherActionsTryNone
  <2>2. AllRows' = AllRows
    BY <2>1 DEF AllRows, Rows, rows
  <2> QED
    BY <2>2, OtherSymbolsKept DEF Handled
<1>2. frames # << >> => phase = "walking"
  BY DEF Coherent, StackCoherent
<1>3. CASE UNCHANGED vars \/ Construct \/ Destroy
  BY <1>1, <1>3 DEF vars, Construct, Destroy
<1>4. CASE Return
  <2>1. frames # << >>
    BY <1>4, EmptySeq DEF Return
  <2> QED
    BY <1>1, <1>4, <2>1 DEF Return, LoopEnds, Front, tables
<1>5. CASE FinishTranslationUnit \/ ClassGuide
  BY <1>1, <1>5 DEF FinishTranslationUnit, ClassGuide
<1>6. CASE VisitTranslationUnitDecl
  BY <1>1, <1>6
<1>7. CASE frames' = Advance /\ frames # << >> /\ Top.rest # << >> /\ UNCHANGED phase
  <2>1. IsInjective(Top.rest)
    BY <1>7, CurIsAhead DEF OnceEach
  <2>2. DOMAIN frames' = DOMAIN frames
    BY <1>7, <2>1, AdvanceIsPast DEF Coherent
  <2>3. Stepped(Canonical(Cur))
    BY <1>7, <2>1, AdvanceSteps DEF Coherent
  <2> QED
    BY <1>1, <1>7, <2>2, <2>3
<1>8. CASE ScopeIgnored \/ ClassIgnored \/ SkipVisited
           \/ (ScopeFunction /\ UNCHANGED tables) \/ (ClassFunction /\ UNCHANGED tables)
  BY <1>7, <1>8 DEF ScopeIgnored, ClassIgnored, SkipVisited, ScopeFunction, ClassFunction, At, NextDecl
<1>9. CASE ClassAccess
  <2>1. frames # << >> /\ Top.rest # << >> /\ UNCHANGED phase
        /\ frames' = [Advance EXCEPT ![Len(frames)].access = ast[Cur].kind]
    BY <1>9 DEF ClassAccess, At
  <2>2. IsInjective(Top.rest)
    BY <2>1, CurIsAhead DEF OnceEach
  <2>3. Advance \in Seq(AnyFrame) /\ DOMAIN Advance = DOMAIN frames
    BY <2>1, <2>2, AdvanceIsPast DEF Coherent
  <2>4. /\ DOMAIN frames' = DOMAIN Advance
        /\ \A i \in DOMAIN frames : frames'[i].ctx = Advance[i].ctx /\ frames'[i].rest = Advance[i].rest
    BY <2>1, <2>3 DEF AnyFrame, ScopeFrame, ClassFrame
  <2>5. Stepped(Canonical(Cur))
    BY <2>1, <2>2, <2>4, AdvanceSteps DEF Coherent
  <2> QED
    BY <1>1, <2>1, <2>3, <2>4, <2>5
<1>10. CASE ScopeLinkage
  <2> DEFINE f == [fn |-> "IterateScope", ctx |-> Cur, rest |-> ast[Cur].kids,
                   cur |-> WholeName \o << >>, access |-> "none"]
  <2>1. frames # << >> /\ Top.rest # << >> /\ UNCHANGED phase
        /\ ast[Cur].kind = "linkage" /\ frames' = Append(Advance, f)
    BY <1>10 DEF ScopeLinkage, At, VisitLinkageSpecDecl, Visit
  <2>2. IsInjective(Top.rest) /\ Cur \in Decl /\ Plain(Cur) /\ Canonical(Cur) = Cur
    BY <2>1, CurIsAhead DEF OnceEach, Plain, Record, Function
  <2>3. f \in AnyFrame
    <3>1. WholeName \o << >> \in Text /\ ast[Cur].kids \in Seq(Decl)
      BY <2>2, AstTyped, EmptySeq DEF Coherent, TypeOK, Text
    <3> QED
      BY <2>2, <3>1 DEF AnyFrame, ScopeFrame
  <2>4. f.ctx = Cur /\ f.rest = ast[Cur].kids
    OBVIOUS
  <2> HIDE DEF f
  <2>5. Stepped(Cur)
    BY <2>1, <2>2, <2>3, <2>4, EnterSteps DEF Coherent
  <2> QED
    BY <1>1, <2>1, <2>2, <2>5
<1> QED
  BY <1>3, <1>4, <1>5, <1>6, <1>8, <1>9, <1>10 DEF Next, RowAction

(* A row tried: its declaration is the only one handled, for the first     *)
(* time.                                                                   *)
LEMMA RowHandles ==
  ASSUME Coherent, HandledSeen, OnceEach, NEW r, RowOfCur(r)
  PROVE  /\ r.of \in Decl /\ ~Handled(r.of)
         /\ \A x \in Decl : Handled(x)' => Handled(x) \/ x = r.of
<1>1. frames # << >> /\ Top.rest # << >> /\ r.of = Canonical(Cur)
  BY DEF RowOfCur
<1>2. /\ Cur \in Decl /\ Cur \in ToSet(Top.rest) /\ r.of \in Decl
      /\ Top = frames[Len(frames)] /\ Len(frames) \in DOMAIN frames
      /\ Plain(Cur) => r.of = Cur
      /\ ~Plain(Cur) => ~Plain(r.of)
  BY <1>1, CurIsAhead DEF OnceEach
<1>3. Plain(r.of) => ~Handled(r.of)
  <2>1. PICK A \in SUBSET Decl : Ahead(A)
    BY <1>1 DEF OnceEach
  <2> QED
    BY <1>2, <2>1 DEF Ahead
<1>4. ~Plain(r.of) => ~Handled(r.of)
  BY <1>2 DEF HandledSeen, RowOfCur, Plain
<1>5. ASSUME NEW x \in Decl, Handled(x)' PROVE Handled(x) \/ x = r.of
  <2>1. AllRows' = AllRows \cup {r}
    BY RowAdded DEF Coherent
  <2>2. errs' = errs \/ errs' = errs \cup {[call |-> "symbol", of |-> r.of]}
    BY SymbolAdded DEF Coherent
  <2>3. [call |-> "symbol", of |-> x] = [call |-> "symbol", of |-> r.of] => x = r.of
    <3>1. [call |-> "symbol", of |-> x].of = x /\ [call |-> "symbol", of |-> r.of].of = r.of
      OBVIOUS
    <3> QED
      BY <3>1
  <2> QED
    BY <1>5, <2>1, <2>2, <2>3 DEF Handled
<1> QED
  BY <1>2, <1>3, <1>4, <1>5

LEMMA HandledSeenStep ==
  Coherent /\ InOneList(ast) /\ HandledSeen /\ OnceEach /\ [Next]_vars => HandledSeen'
<1> SUFFICES ASSUME Coherent, InOneList(ast), HandledSeen, OnceEach, [Next]_vars,
                    NEW x \in Decl, ~Plain(x)', Handled(x)'
             PROVE  Seen(x)'
  BY DEF HandledSeen
<1>1. ast' = ast /\ (Seen(x) => Seen(x)') /\ ~Plain(x)
  BY InputKept, VisitedGrows DEF Seen, Plain, input
<1>2. CASE RowAction
  <2>1. PICK r : RowOfCur(r)
    BY <1>2, RowActionTries DEF Coherent
  <2>2. Handled(x) \/ x = r.of
    BY <2>1, RowHandles
  <2>3. x = r.of => Seen(x)'
    BY <1>1, <2>1 DEF RowOfCur, Plain, Marks, Seen
  <2> QED
    BY <1>1, <2>2, <2>3 DEF HandledSeen
<1>3. CASE ~RowAction
  BY <1>1, <1>3, SilentSteps DEF HandledSeen
<1> QED
  BY <1>2, <1>3

(* At the start everything but the translation unit is ahead.              *)
LEMMA FirstLoopIsAhead ==
  ASSUME Coherent, InOneList(ast), HandledSeen, OnceEach, VisitTranslationUnitDecl,
         ast[TU].kind = "tu", \A x : Handled(x)' <=> Handled(x)
  PROVE  OnceEach'
<1> DEFINE f == [fn |-> "IterateScope", ctx |-> TU, rest |-> ast[TU].kids,
                 cur |-> << >>, access |-> "none"]
<1>0. PICK A \in SUBSET Decl : A = {x \in Decl : Plain(x)} \ {TU}
  OBVIOUS
<1>1. /\ frames' = << f >> /\ phase = "ready" /\ phase' = "walking"
      /\ ast' = ast /\ UNCHANGED visited
  BY DEF VisitTranslationUnitDecl, input
<1>2. f.ctx = TU /\ f.rest = ast[TU].kids /\ TU \in Decl
  BY DeclAssumption
<1> HIDE DEF f
<1>3. DOMAIN frames' = {1} /\ frames'[1].ctx = TU /\ frames'[1].rest = ast[TU].kids
  BY <1>1, <1>2
<1>4. \A x \in Decl : ToSet(ast[x].kids) \subseteq Decl /\ TU \notin ToSet(ast[x].kids)
  BY AstTyped DEF InOneList, ToSet, Coherent
<1>5. \A x \in Decl : PlainKids(x) \subseteq A
  BY <1>0, <1>4 DEF PlainKids
<1>6. \A x \in A : ~Handled(x)'
  BY <1>0, <1>1 DEF OnceEach
<1>7. IsInjective(ast[TU].kids)
  BY <1>2 DEF InOneList, IsInjective
<1>8. Going(frames[1])'
  BY <1>1, <1>2, <1>3, <1>7 DEF Going, Record
<1>9. {k \in ToSet(ast[TU].kids) : Plain(k)} = PlainKids(TU)
  BY DEF PlainKids
<1>10. A \subseteq {x \in Decl : Plain(x)} /\ TU \notin A /\ A \in SUBSET Decl
  BY <1>0
<1>11. /\ \A x : Plain(x)' <=> Plain(x)
       /\ \A x : PlainKids(x)' = PlainKids(x)
  BY <1>1 DEF Plain, PlainKids
<1>12. A \subseteq Decl
  BY <1>10
<1>13. \A i \in DOMAIN frames' :
          i = 1 /\ frames'[i].ctx = TU /\ {k \in ToSet(frames'[i].rest) : Plain(k)} \subseteq A
  BY <1>2, <1>3, <1>5, <1>9
<1>14. \A i \in DOMAIN frames' :
          frames'[i].ctx \notin A /\ {k \in ToSet(frames'[i].rest) : Plain(k)'} \subseteq A
  BY <1>10, <1>11, <1>13
<1>15. \A x \in Decl : PlainKids(x)' \subseteq A
  BY <1>5, <1>11
<1>16. A \subseteq {x \in Decl : Plain(x)'}
  BY <1>10, <1>11
<1>17. Ahead(A)'
  BY <1>6, <1>12, <1>14, <1>15, <1>16, Zenon DEF Ahead
<1>18. (\A i \in DOMAIN frames : Going(frames[i]))'
  BY <1>8, <1>13
<1>19. phase' \notin {"new", "ready"}
  BY <1>1
<1>20. \A i \in DOMAIN frames' : i = 1
  BY <1>13
<1>21. (\E X \in SUBSET Decl : Ahead(X))'
  BY <1>12, <1>17
<1>22. (\A i, j \in DOMAIN frames : frames[i].ctx = frames[j].ctx => i = j)'
  BY <1>20
<1> QED
  BY <1>18, <1>19, <1>21, <1>22 DEF OnceEach

LEMMA OnceEachStep ==
  ASSUME Coherent, InOneList(ast), ast[TU].kind = "tu", HandledSeen, OnceEach, [Next]_vars
  PROVE  OnceEach'
<1>1. ast' = ast /\ VisitedClasses \subseteq VisitedClasses'
  BY InputKept, VisitedGrows DEF input
<1>2. /\ \A x : Plain(x)' <=> Plain(x)
      /\ \A x : PlainKids(x)' = PlainKids(x)
  BY <1>1 DEF Plain, PlainKids
<1>3. CASE RowAction
  <2>1. PICK r : RowOfCur(r) /\ Moves(r)
    BY <1>3, RowActionTries DEF Coherent
  <2>2. TypeOK'
    BY TypeStep DEF Coherent
  <2>3. frames # << >> /\ Top.rest # << >> /\ r.of = Canonical(Cur) /\ phase' = "walking"
    <3>1. frames # << >> /\ Top.rest # << >> /\ r.of = Canonical(Cur)
      BY <2>1 DEF RowOfCur
    <3>2. phase = "walking"
      BY <3>1 DEF Coherent, StackCoherent
    <3>3. UNCHANGED phase
      BY <1>3 DEF RowAction, ScopeNamespace, ScopeRecord, ScopeTemplate, ScopeFunction,
         ScopeLeaf, ScopeEnum, ClassRecord, ClassTemplate, ClassFunction, ClassLeaf,
         ClassEnum, Enumerator
    <3> QED
      BY <3>1, <3>2, <3>3
  <2>4. /\ Stepped(r.of)
        /\ Plain(r.of) \/ DOMAIN frames' = DOMAIN frames
             \/ (ast[r.of].kind \in Record /\ r.of \notin VisitedClasses /\ r.of \in VisitedClasses')
    BY <2>1, <2>2, RowSteps
  <2>5. \A x \in Decl : Handled(x)' => Handled(x) \/ x = r.of
    BY <2>1, RowHandles
  <2> QED
    BY <2>3, <2>4, <2>5, SteppedKeeps
<1>4. CASE ~RowAction
  <2>1. \A x : Handled(x)' <=> Handled(x)
    BY <1>4, SilentSteps
  <2>2. CASE frames' = << >> /\ phase' \notin {"new", "ready"}
    <3>1. DOMAIN frames' = {}
      BY <2>2, EmptySeq
    <3> QED
      BY <2>2, <3>1 DEF OnceEach
  <2>3. CASE /\ UNCHANGED << frames, visited >>
             /\ phase' \in {"new", "ready"} => phase \in {"new", "ready"}
    <3>1. \A f : Going(f)' <=> Going(f)
      BY <1>1, <2>3 DEF Going, visited
    <3>2. \A x : Seen(x)' <=> Seen(x)
      BY <1>1, <2>3 DEF Seen, visited
    <3>3. \A A : Ahead(A)' <=> Ahead(A)
      BY <1>1, <1>2, <2>1, <2>3 DEF Ahead, visited
    <3> QED
      BY <2>1, <2>3, <3>1, <3>2, <3>3 DEF OnceEach
  <2>4. CASE LoopEnds /\ UNCHANGED phase
    <3>1. \A i \in DOMAIN frames' : i \in DOMAIN frames /\ frames'[i] = frames[i]
      BY <2>4, LoopsLeft DEF Coherent
    <3>2. phase = "walking" /\ frames # << >> /\ UNCHANGED << visited, phase >>
      BY <2>4 DEF LoopEnds, Coherent, StackCoherent
    <3>3. \A i \in DOMAIN frames' : Going(frames'[i])
      BY <3>1 DEF OnceEach
    <3>4. \A f : Going(f)' <=> Going(f')
      BY <1>1, <3>2 DEF Going, visited
    <3>5. PICK A \in SUBSET Decl : Ahead(A)
      BY <3>2 DEF OnceEach
    <3>6. \A i \in DOMAIN frames' :
            frames'[i].ctx \notin A /\ {k \in ToSet(frames'[i].rest) : Plain(k)'} \subseteq A
      BY <1>2, <3>1, <3>5 DEF Ahead
    <3>7. Ahead(A)'
      BY <1>1, <1>2, <2>1, <3>2, <3>5, <3>6 DEF Ahead, visited
    <3> QED
      BY <3>1, <3>2, <3>3, <3>4, <3>5, <3>7 DEF OnceEach
  <2>5. CASE VisitTranslationUnitDecl
    BY <2>1, <2>5, FirstLoopIsAhead
  <2>6. CASE /\ frames # << >> /\ Top.rest # << >> /\ UNCHANGED phase
             /\ Stepped(Canonical(Cur))
             /\ Plain(Canonical(Cur)) \/ DOMAIN frames' = DOMAIN frames
    <3>1. phase' = "walking"
      BY <2>6 DEF Coherent, StackCoherent
    <3>2. PICK d : d = Canonical(Cur)
      OBVIOUS
    <3> QED
      BY <2>1, <2>6, <3>1, <3>2, SteppedKeeps
  <2> QED
    BY <1>4, <2>2, <2>3, <2>4, <2>5, <2>6, SilentSteps
<1> QED
  BY <1>3, <1>4

(* A row tried and its symbol leave the rows and symbols of all other      *)
(* declarations as they are.                                               *)
LEMMA SymbolsStep ==
  Coherent /\ HandledSeen /\ OnceEach /\ SymbolsMatch /\ [Next]_vars => SymbolsMatch'
<1> SUFFICES ASSUME Coherent, HandledSeen, OnceEach, SymbolsMatch, [Next]_vars
             PROVE  SymbolsMatch'
  OBVIOUS
<1> DEFINE Owed(r, E) == /\ r.type.what # "namespace" /\ ast[r.of].loc
                         /\ [call |-> "symbol", of |-> r.of] \notin E
           Symbol(r) == [name |-> r.name \o r.member, at |-> r.of]
<1>1. /\ ToSet(Symbols) = {Symbol(r) : r \in {q \in AllRows : Owed(q, errs)}}
      /\ ast' = ast
  BY InputKept DEF SymbolsMatch, input
<1>2. SUFFICES ToSet(Symbols') = {Symbol(r) : r \in {q \in AllRows' : Owed(q, errs')}}
  BY <1>1 DEF SymbolsMatch
<1>3. CASE RowAction
  <2>1. PICK r : RowOfCur(r)
    BY <1>3, RowActionTries DEF Coherent
  <2>2. AllRows' = AllRows \cup {r} /\ ~Handled(r.of)
    BY <2>1, RowAdded, RowHandles DEF Coherent
  <2>3. CASE r.type.what = "namespace"
    BY <1>1, <2>1, <2>2, <2>3, SymbolAdded DEF Coherent
  <2>4. CASE r.type.what # "namespace"
    <3>1. PICK e : e = [call |-> "symbol", of |-> r.of]
      OBVIOUS
    <3>2. CASE ToSet(Symbols') = ToSet(Symbols) \cup {Symbol(r)} /\ ast[r.of].loc /\ errs' = errs
      <4>1. Owed(r, errs)
        BY <2>2, <2>4, <3>2 DEF Handled
      <4> HIDE DEF Owed, Symbol
      <4> QED
        BY <1>1, <2>2, <3>2, <4>1
    <3>3. CASE UNCHANGED Symbols /\ errs' = errs \cup {e}
      <4>1. ASSUME NEW q \in AllRows PROVE Owed(q, errs') <=> Owed(q, errs)
        <5>1. q.of # r.of
          BY <2>2 DEF Handled
        <5>2. [call |-> "symbol", of |-> q.of].of = q.of /\ e.of = r.of
          BY <3>1
        <5>3. [call |-> "symbol", of |-> q.of] # e
          BY <5>1, <5>2
        <5> QED
          BY <3>3, <5>3
      <4>2. ~Owed(r, errs')
        BY <3>1, <3>3
      <4> HIDE DEF Owed, Symbol
      <4>3. {q \in AllRows' : Owed(q, errs')} = {q \in AllRows : Owed(q, errs)}
        BY <2>2, <4>1, <4>2
      <4> QED
        BY <1>1, <3>3, <4>3
    <3> QED
      BY <2>1, <2>4, <3>1, <3>2, <3>3, SymbolAdded DEF Coherent
  <2> QED
    BY <2>3, <2>4
<1>4. CASE ~RowAction
  <2>1. UNCHANGED rows
    BY <1>4, OtherActionsTryNone
  <2>2. AllRows' = AllRows /\ Symbols' = Symbols
    BY <2>1 DEF AllRows, Rows, rows
  <2>3. \A x : [call |-> "symbol", of |-> x] \in errs' <=> [call |-> "symbol", of |-> x] \in errs
    BY <1>4, OtherSymbolsKept
  <2>4. \A q : Owed(q, errs') <=> Owed(q, errs)
    BY <2>3
  <2> HIDE DEF Owed, Symbol
  <2>5. {q \in AllRows' : Owed(q, errs')} = {q \in AllRows : Owed(q, errs)}
    BY <2>2, <2>4
  <2> QED
    BY <1>1, <2>2, <2>5
<1> QED
  BY <1>3, <1>4

-----------------------------------------------------------------------------
(* Theorems about the tables. *)

LEMMA AlwaysCoherent == Spec => []Coherent
<1>1. Init => WellFormed(ast)
  BY TreeAssumption DEF Init
<1>2. WellFormed(ast) /\ [Next]_vars => WellFormed(ast)'
  BY InputKept DEF WellFormed
<1>3. Spec => []WellFormed(ast)
  BY <1>1, <1>2, PTL DEF Spec
<1> QED
  BY <1>3, StackInvariant, PTL DEF Coherent

(* At first the tables are empty.                                          *)
LEMMA EmptyTables ==
  ASSUME Init
  PROVE  /\ AllRows = {} /\ ToSet(Symbols) = {} /\ errs = {}
         /\ DOMAIN Classes = {} /\ DOMAIN Namespaces = {} /\ DOMAIN frames = {}
<1>1. /\ Classes = << >> /\ Namespaces = << >> /\ Symbols = << >> /\ lost = {}
      /\ frames = << >> /\ errs = {}
  BY DEF Init
<1>2. DOMAIN << >> = {} /\ ToSet(<< >>) = {}
  BY DEF ToSet
<1> QED
  BY <1>1, <1>2, Zenon DEF AllRows, Rows

(* Rows are only ever added, and inside a transaction unless BEGIN failed, *)
(* whatever else fails.                                                    *)
THEOREM WritesAreInTransaction == Spec => WritesInTransaction
<1>1. Init => Begun
  BY DEF Init, Begun
<1>2. Spec => []Begun
  BY <1>1, BegunStep, AlwaysCoherent, PTL DEF Spec
<1> QED
  BY <1>2, TablesStepHolds, AlwaysCoherent, PTL DEF Spec, WritesInTransaction, TablesStep

(* However often a class or function is declared, mentioned and defined,   *)
(* it gets at most one row.                                                *)
THEOREM EachRecordedOnce == Spec => []RecordedOnce
<1>1. Init => RowsSeen /\ RecordedOnce
  BY EmptyTables DEF RowsSeen, RecordedOnce, NoRepeat
<1> QED
  BY <1>1, RowsSeenStep, OnceStep, AlwaysCoherent, PTL DEF Spec

(* Whatever calls fail, the symbols are those of the rows but for the      *)
(* symbols that failed: no declaration is tried twice, so that no symbol   *)
(* fails whose declaration has one already.                                *)
THEOREM SymbolsMatchRows == Spec => []SymbolsMatch
<1> DEFINE Listed == InOneList(ast) /\ ast[TU].kind = "tu"
<1>1. Init => Listed
  BY ListAssumption, GrammarAssumption DEF Init, Grammatical
<1>2. Listed /\ [Next]_vars => Listed'
  BY InputKept DEF InOneList, input
<1>3. Init => HandledSeen /\ OnceEach /\ SymbolsMatch
  <2> SUFFICES ASSUME Init PROVE HandledSeen /\ OnceEach /\ SymbolsMatch
    OBVIOUS
  <2>1. \A d \in Decl : ~Handled(d)
    BY EmptyTables DEF Handled
  <2>2. \A d \in Decl : ~Seen(d)
    BY DEF Init, Seen
  <2>3. frames = << >> /\ DOMAIN frames = {}
    BY EmptyTables DEF Init
  <2> QED
    BY <2>1, <2>2, <2>3, EmptyTables DEF HandledSeen, OnceEach, SymbolsMatch
<1> QED
  BY <1>1, <1>2, <1>3, HandledSeenStep, OnceEachStep, SymbolsStep, AlwaysCoherent, PTL DEF Spec

(* Without specialisations the tables are a tree, but for rows that could  *)
(* not be inserted: every row's name is the whole name of the row it       *)
(* belongs under.                                                          *)
THEOREM TablesAreTree ==
  ASSUME \A w \in Walks : Unspecialised(w[1])
  PROVE  Spec => []RowsNested
<1>1. Init => Unspecialised(ast)
  BY DEF Init
<1>2. Unspecialised(ast) /\ [Next]_vars => Unspecialised(ast)'
  BY InputKept DEF Unspecialised
<1>3. Init => Placed /\ RowsNested
  BY EmptyTables DEF Placed, RowsNested
<1> QED
  BY <1>1, <1>2, <1>3, PlacedStep, NestedStep, AlwaysCoherent, PTL DEF Spec
(* If no class begins with an access specifier, which one without a name   *)
(* can, every member has the access in force where it is mentioned.        *)
THEOREM MembersHaveAccess ==
  ASSUME \A w \in Walks : SkipsNoSpecifier(w[1])
  PROVE  Spec => []AccessInForce
<1>1. Init => SkipsNoSpecifier(ast)
  BY DEF Init
<1>2. SkipsNoSpecifier(ast) /\ [Next]_vars => SkipsNoSpecifier(ast)'
  BY InputKept DEF SkipsNoSpecifier
<1>3. Init => InForce /\ RowsInForce
  BY EmptyTables DEF InForce, RowsInForce
<1>4. Coherent /\ RowsInForce => AccessInForce
  <2> SUFFICES ASSUME Coherent, RowsInForce, NEW r \in ToSet(Classes)
               PROVE  AccessOf(r)
    BY DEF AccessInForce, AccessOf
  <2>1. r \in ClassRow
    BY DEF Coherent, TypeOK, ToSet
  <2>2. r \in AllRows /\ r.type.access # "none"
    BY <2>1 DEF AllRows, Rows, ClassRow, Access
  <2> QED
    BY <2>2 DEF RowsInForce
<1> QED
  BY <1>1, <1>2, <1>3, <1>4, InForceStep, RowsInForceStep, AlwaysCoherent, PTL DEF Spec

(* If every class with members begins with its body, which one without a   *)
(* name need not, then whatever calls fail the walk tries a row for every  *)
(* declaration to be indexed and for nothing else.                         *)
THEOREM WalkFindsAll ==
  ASSUME \A w \in Walks : BodiesFirst(w[1])
  PROVE  Spec => []Complete
<1>1. Init => Clang
  BY TypeInit, TreeAssumption, GrammarAssumption
  DEF Init, Clang, Coherent, StackCoherent
<1>2. Init => Framed /\ InEvery /\ Covering
  BY EmptyTables DEF Init, Framed, InEvery, Inside, Covering
<1>3. Clang /\ InEvery /\ Covering => Complete
  BY EndIsComplete DEF Complete
<1> QED
  BY <1>1, <1>2, <1>3, ClangKept, FramedStep, InEveryStep, CoveringStep, PTL DEF Spec
=============================================================================
