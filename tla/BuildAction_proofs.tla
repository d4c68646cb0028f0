-------------------------- MODULE BuildAction_proofs --------------------------
(***************************************************************************)
(* Whatever the command line, and whatever fails: each database has one    *)
(* owner, and the units are where they were asked for.                     *)
(***************************************************************************)
EXTENDS BuildAction, Induction, SequenceTheorems, FiniteSetTheorems

Pc == {"args", "execute", "destroy", "exited", "aborted"}

(* Who owns which database, stage by stage.                                *)
Owners ==
  /\ program \in {"plugin", "dbgen"} /\ pc \in Pc
  /\ pc = "args" => alive = {} /\ ~DB.bit
  /\ pc # "execute" => consumer = None
  /\ pc = "execute" =>
       /\ consumer \in {None, DB.ptr}
       /\ program = "plugin" => alive = {"action"} /\ DB = set(QualPtr("action"))
       /\ program = "dbgen" => alive = {"main"} /\ DB = QualPtr("main")
  /\ pc = "destroy" =>
       /\ program = "dbgen" => alive = {"main"} /\ ~DB.bit
       /\ program = "plugin" => alive = IF DB.bit THEN {DB.ptr} ELSE {}
  /\ pc = "exited" /\ alive # {} =>
       disableFree \/ (program = "dbgen" /\ status = 1)

LEMMA OwnersInit == Init => Owners
BY DEF Init, Owners, Pc, QualPtr

LEMMA OwnersNext == Owners /\ [Next]_vars => Owners'
<1> SUFFICES ASSUME Owners, [Next]_vars PROVE Owners'
  OBVIOUS
<1> USE DEF Owners, Pc, QualPtr, set, None
<1>1. CASE Refuse
  BY <1>1 DEF Refuse, parseUnits, started
<1>2. CASE UseMemory
  BY <1>2 DEF UseMemory, parseUnits, started
<1>3. CASE OpenFile
  BY <1>3 DEF OpenFile, parseUnits, started
<1>4. CASE OpenFails
  <2>1. CASE pc' = "aborted"
    BY <1>4, <2>1 DEF OpenFails, parseUnits, started
  <2>2. CASE pc' = "destroy"
    <3>1. alive' = {} /\ DB' = QualPtr("action") /\ UNCHANGED << program, consumer >>
      BY <1>4, <2>2 DEF OpenFails, parseUnits, started
    <3> QED
      BY <1>4, <2>2, <3>1 DEF OpenFails
  <2> QED
    BY <1>4, <2>1, <2>2 DEF OpenFails
<1>5. CASE ArgInput \/ ArgInputMissing \/ ArgLanguage \/ ArgStored \/ ArgStd
  BY <1>5 DEF ArgInput, ArgInputMissing, ArgLanguage, ArgStored, ArgStd, AtArg, argUnits, started
<1>6. CASE ArgFails
  <2>1. pc = "args" /\ pc' = "exited" /\ UNCHANGED << program, consumer, alive >>
    BY <1>6 DEF ArgFails, Exit1, AtArg, argUnits, started
  <2> QED
    BY <2>1
<1>7. CASE MakeDatabase
  BY <1>7 DEF MakeDatabase, started
<1>8. CASE Unopened \/ CreateASTConsumer \/ HandleTranslationUnit
  BY <1>8 DEF Unopened, CreateASTConsumer, HandleTranslationUnit, executeUnits, started
<1>9. CASE Executed
  BY <1>9 DEF Executed, AllHandled, executeUnits, started
<1>10. CASE PrintTables
  BY <1>10 DEF PrintTables, AllHandled, exitUnits, started
<1>11. CASE Destroy
  BY <1>11 DEF Destroy, exitUnits, started
<1>12. CASE UNCHANGED vars
  BY <1>12 DEF vars
<1> QED
  BY <1>1, <1>2, <1>3, <1>4, <1>5, <1>6, <1>7, <1>8, <1>9, <1>10, <1>11, <1>12 DEF Next

(* At any time each database has exactly one owner, and none is used or    *)
(* deleted that is not there: the address that ParseArgs leaves in DB      *)
(* after a file that could not be opened is never followed.                *)
THEOREM EachHasOneOwner == Spec => []OneOwner
<1>1. Owners => OneOwner
  BY DEF Owners, OneOwner, QualPtr, set, None
<1> QED
  BY <1>1, OwnersInit, OwnersNext, PTL DEF Spec

-----------------------------------------------------------------------------
Tongue == STRING \cup Language \cup {"unknown"}
Input == STRING \X Tongue
Argument == [is : STRING, value : STRING]
Place == Values \cup {"main", "memory"}
Asked == IF program = "dbgen" THEN "main" ELSE target

Typed ==
  /\ args \in Seq(Argument) /\ inputs \in Seq(Input)
  /\ i \in Nat \ {0} /\ status \in {0, 1} /\ lang \in Tongue
  /\ rows \in [Place -> Seq(Nat)] /\ held \in Seq(Nat)

(* The numbers up to n, all of them, or some of them in order.             *)
Numbers(n)  == [k \in 1..n |-> k]
UpTo(s, n)  == \A k \in 1..Len(s) : s[k] \in 1..n /\ \A m \in 1..(k - 1) : s[m] < s[k]

Parsing ==
  pc = "args" =>
    /\ printed = << >> /\ status = 0 /\ \A d \in Place : rows[d] = << >>
    /\ held = << >> /\ failed = FALSE
    /\ program = "plugin" => i = 1

(* What has been handled so far is in the one place, unless something      *)
(* failed; what has failed may still come, after what is there, and before *)
(* all that is to be handled; and nothing is anywhere else.                *)
Executing ==
  pc = "execute" =>
    /\ printed = << >> /\ i <= Len(inputs) + 1
    /\ consumer # None => i <= Len(inputs)
    /\ Asked \in Place /\ (program = "plugin" /\ OFile # "" => target = OFile)
    /\ \A d \in Place \ {Asked} : rows[d] = << >>
    /\ UpTo(rows[Asked] \o held, i - 1)
    /\ ~failed => held = << >>
    /\ failed => program = "plugin"
    /\ status = 0 /\ ~failed => rows[Asked] = Numbers(i - 1)

Ending ==
  pc \in {"destroy", "exited"} =>
    /\ printed = IF program = "dbgen" /\ status = 0 THEN Numbers(Len(inputs)) ELSE << >>
    /\ program = "plugin" /\ OFile # "" =>
         \A d \in Values :
           IF d # OFile THEN rows[d] = << >>
           ELSE /\ UpTo(rows[d], Len(inputs))
                /\ status = 0 /\ ~failed => rows[d] = Numbers(Len(inputs))

Handled == Typed /\ Parsing /\ Executing /\ Ending

LEMMA LastIndex ==
  ASSUME NEW n \in Nat, 1..n # {}
  PROVE  n \in 1..n /\ \A m \in 1..n : m <= n
OBVIOUS

LEMMA LastOutput ==
  ASSUME Accepted, OFile # "", args \in Seq(Argument)
  PROVE  OFile \in Values
<1>1. DOMAIN args = 1..Len(args) /\ Len(args) \in Nat
  BY LenProperties
<1>2. Outputs = 1..Len(args)
  BY <1>1 DEF Accepted, Outputs
<1>3. Outputs # {}
  <2>1. Outputs = {} => OFile = ""
    BY DEF OFile
  <2> QED
    BY <2>1
<1>4. Len(args) \in Outputs /\ \A k \in Outputs : k <= Len(args)
  BY <1>1, <1>2, <1>3, LastIndex
<1> DEFINE last == CHOOSE j \in Outputs : \A k \in Outputs : k <= j
<1>5. last \in Outputs
  BY <1>4
<1>6. args[last].value \in Values
  BY <1>1, <1>2, <1>5 DEF Values
<1>7. OFile = args[last].value
  BY <1>3 DEF OFile
<1> QED
  BY <1>6, <1>7

LEMMA HandledInit == Init => Handled
<1> SUFFICES ASSUME Init PROVE Handled
  OBVIOUS
<1>1. args \in Seq(Argument) /\ inputs \in Seq(Input)
  <2>1. CASE program = "plugin"
    BY <2>1, ArgsAssumption DEF Init, Input, Tongue, Argument
  <2>2. CASE program = "dbgen"
    BY <2>2, ArgsAssumption DEF Init, Argument
  <2> QED
    BY <2>1, <2>2 DEF Init
<1>2. rows = [d \in Place |-> << >>] /\ pc = "args"
  BY DEF Init, Place
<1>3. rows \in [Place -> Seq(Nat)] /\ \A d \in Place : rows[d] = << >>
  BY <1>2
<1>4. i = 1 /\ status = 0 /\ printed = << >> /\ held = << >> /\ failed = FALSE
  BY DEF Init
<1>5. lang \in Tongue
  BY DEF Init, Tongue
<1> QED
  BY <1>1, <1>2, <1>3, <1>4, <1>5 DEF Handled, Typed, Parsing, Executing, Ending

LEMMA Fixed ==
  ASSUME started' = started
  PROVE  program' = program /\ args' = args /\ OFile' = OFile /\ Values' = Values /\ Place' = Place
<1>1. args' = args /\ program' = program
  BY DEF started
<1>2. Outputs' = Outputs
  BY <1>1 DEF Outputs
<1>3. OFile' = OFile
  BY <1>1, <1>2 DEF OFile
<1>4. Values' = Values
  BY <1>1 DEF Values
<1> QED
  BY <1>1, <1>3, <1>4 DEF Place

LEMMA NothingUpTo == \A n : UpTo(<< >>, n) /\ UpTo(<< >> \o << >>, n)
BY DEF UpTo

LEMMA NoNumbers == Numbers(0) = << >>
BY DEF Numbers

LEMMA OneMoreNumber ==
  ASSUME NEW n \in Nat \ {0}
  PROVE  Append(Numbers(n - 1), n) = Numbers(n)
<1>1. PICK s : s = Numbers(n - 1)
  OBVIOUS
<1>2. s \in Seq(Nat) /\ Len(s) = n - 1 /\ \A k \in 1..(n - 1) : s[k] = k
  BY <1>1 DEF Numbers
<1>3. PICK t : t = Append(s, n)
  OBVIOUS
<1>4. /\ t \in Seq(Nat) /\ Len(t) = n
      /\ \A k \in 1..(n - 1) : t[k] = k
      /\ t[n] = n
  BY <1>2, <1>3
<1>5. \A k \in 1..n : t[k] = k
  <2> TAKE k \in 1..n
  <2>1. k = n \/ k \in 1..(n - 1)
    OBVIOUS
  <2> QED
    BY <1>4, <2>1
<1>6. PICK u : u = Numbers(n)
  OBVIOUS
<1>7. u \in Seq(Nat) /\ Len(u) = n /\ \A k \in 1..n : u[k] = k
  BY <1>6 DEF Numbers
<1>8. t = u
  BY <1>4, <1>5, <1>7, SeqEqual
<1> QED
  BY <1>1, <1>3, <1>6, <1>8

LEMMA OneMore ==
  ASSUME NEW s \in Seq(Nat), NEW n \in Nat \ {0}, UpTo(s, n - 1)
  PROVE  UpTo(s, n) /\ UpTo(Append(s, n), n)
<1>1. Len(s) \in Nat /\ \A k \in 1..Len(s) : s[k] \in 1..(n - 1)
  BY LenProperties DEF UpTo
<1>2. UpTo(s, n)
  BY <1>1 DEF UpTo
<1>3. PICK t : t = Append(s, n)
  OBVIOUS
<1>4. Len(t) = Len(s) + 1 /\ t[Len(s) + 1] = n /\ \A k \in 1..Len(s) : t[k] = s[k]
  BY <1>3
<1>5. ASSUME NEW k \in 1..Len(t) PROVE t[k] \in 1..n /\ \A m \in 1..(k - 1) : t[m] < t[k]
  <2>1. CASE k \in 1..Len(s)
    BY <1>1, <1>4, <2>1 DEF UpTo
  <2>2. CASE k = Len(s) + 1
    BY <1>1, <1>4, <2>2
  <2> QED
    BY <1>1, <1>4, <2>1, <2>2
<1>6. UpTo(t, n)
  BY <1>5 DEF UpTo
<1> QED
  BY <1>2, <1>3, <1>6

LEMMA Beginning ==
  ASSUME NEW s \in Seq(Nat), NEW h \in Seq(Nat), NEW n \in Nat, UpTo(s \o h, n)
  PROVE  UpTo(s, n)
<1>1. PICK t : t = s \o h
  OBVIOUS
<1>2. Len(s) \in Nat /\ Len(t) \in Nat /\ Len(s) <= Len(t) /\ \A k \in 1..Len(s) : t[k] = s[k]
  BY <1>1, LenProperties
<1>3. UpTo(t, n)
  BY <1>1
<1> QED
  BY <1>2, <1>3 DEF UpTo

(* What a unit may leave, with what it has been told of before.            *)
LEMMA Arriving ==
  ASSUME NEW s \in Seq(Nat), NEW h \in Seq(Nat), NEW n \in Nat \ {0}, UpTo(s \o h, n - 1),
         NEW there \in {<< >>, h, << n >>, Append(h, n)},
         NEW more, more = << >> \/ (there = << >> /\ more \in {h, Append(h, n)})
  PROVE  /\ s \o there \in Seq(Nat) /\ more \in Seq(Nat)
         /\ UpTo((s \o there) \o more, n)
<1>1. there \in Seq(Nat) /\ more \in Seq(Nat) /\ s \o h \in Seq(Nat)
  <2>1. << >> \in Seq(Nat) /\ << n >> \in Seq(Nat) /\ Append(h, n) \in Seq(Nat)
    OBVIOUS
  <2>2. there \in Seq(Nat)
    BY <2>1, Zenon
  <2>3. more \in Seq(Nat)
    BY <2>1, Zenon
  <2> QED
    BY <2>2, <2>3
<1>2. UpTo(s, n - 1)
  BY Beginning
<1>3. UpTo(s, n) /\ UpTo(Append(s, n), n) /\ UpTo(s \o h, n) /\ UpTo(Append(s \o h, n), n)
  BY <1>1, <1>2, OneMore
<1>4. s \o << >> = s /\ s \o << n >> = Append(s, n) /\ s \o Append(h, n) = Append(s \o h, n)
  OBVIOUS
<1>5. \A t \in Seq(Nat) : t \o << >> = t
  OBVIOUS
<1>6. CASE more = << >>
  <2>1. s \o there \in Seq(Nat)
    BY <1>1
  <2>2. (s \o there) \o more = s \o there
    BY <1>5, <1>6, <2>1, Zenon
  <2>3. s \o there \in {s, s \o h, Append(s, n), Append(s \o h, n)}
    BY <1>4, Zenon
  <2>4. UpTo(s \o there, n)
    BY <1>3, <2>3, Zenon
  <2> QED
    BY <1>1, <2>1, <2>2, <2>4, Zenon
<1>7. CASE there = << >> /\ more \in {h, Append(h, n)}
  BY <1>1, <1>3, <1>4, <1>7
<1> QED
  BY <1>1, <1>6, <1>7

LEMMA HandledNext == Owners /\ Handled /\ [Next]_vars => Handled'
<1> SUFFICES ASSUME Owners, Handled, [Next]_vars PROVE Handled'
  OBVIOUS
<1>1. started' = started
  BY DEF Next, vars, started, Refuse, UseMemory, OpenFile, OpenFails, parseUnits,
     ArgInput, ArgInputMissing, ArgLanguage, ArgStored, ArgStd, ArgFails, Exit1, argUnits,
     MakeDatabase, Unopened, CreateASTConsumer, HandleTranslationUnit, Executed,
     executeUnits, PrintTables, Destroy, exitUnits
<1>2. program' = program /\ args' = args /\ OFile' = OFile /\ Values' = Values /\ Place' = Place
  BY <1>1, Fixed
<1>t. Typed /\ Len(inputs) \in Nat /\ Len(args) \in Nat
  BY LenProperties DEF Handled, Typed
<1>3. CASE Refuse \/ OpenFails
  <2>1. /\ pc = "args" /\ pc' \in {"destroy", "aborted"} /\ status' = 1
        /\ UNCHANGED << inputs, i, lang, rows, held, failed, printed >>
    BY <1>3 DEF Refuse, OpenFails, parseUnits
  <2>2. printed = << >> /\ \A d \in Place : rows[d] = << >>
    BY <2>1 DEF Handled, Parsing
  <2>3. Typed'
    BY <1>2, <1>t, <2>1 DEF Typed
  <2>4. /\ status' # 0 /\ printed' = << >> /\ pc' # "args" /\ pc' # "execute"
        /\ \A d \in Values : rows'[d] = << >> /\ UpTo(rows'[d], Len(inputs'))
    BY <2>1, <2>2, NothingUpTo DEF Place
  <2> QED
    BY <1>2, <2>3, <2>4 DEF Handled, Parsing, Executing, Ending
<1>4. CASE UseMemory \/ OpenFile
  <2>1. /\ pc = "args" /\ program = "plugin" /\ pc' = "execute"
        /\ UNCHANGED << inputs, i, lang, rows, held, failed, printed, status, consumer >>
    BY <1>4 DEF UseMemory, OpenFile, parseUnits
  <2>2. target' \in Place /\ (OFile # "" => target' = OFile)
    <3>1. CASE UseMemory
      BY <3>1 DEF UseMemory, Place
    <3>2. CASE OpenFile
      BY <1>t, <3>2, LastOutput DEF OpenFile, Place, Typed
    <3> QED
      BY <1>4, <3>1, <3>2
  <2>3. /\ i = 1 /\ status = 0 /\ printed = << >> /\ consumer = None
        /\ held = << >> /\ failed = FALSE /\ \A d \in Place : rows[d] = << >>
    BY <2>1 DEF Handled, Parsing, Owners
  <2>4. Asked' = target' /\ i' - 1 = 0 /\ rows'[Asked'] = << >>
    <3>1. Asked' = target'
      BY <1>2, <2>1 DEF Asked
    <3>2. \A d \in Place : rows'[d] = << >>
      BY <2>1, <2>3
    <3>3. i' - 1 = 0
      BY <2>1, <2>3
    <3> QED
      BY <2>2, <3>1, <3>2, <3>3, Zenon
  <2>5. Typed'
    BY <1>2, <1>t, <2>1 DEF Typed
  <2>6. i' <= Len(inputs') + 1
    BY <1>t, <2>1, <2>3
  <2>7. Executing'
    BY <1>2, <2>1, <2>2, <2>3, <2>4, <2>6, NothingUpTo, NoNumbers DEF Executing
  <2> QED
    BY <2>1, <2>5, <2>7 DEF Handled, Parsing, Ending
<1>5. CASE ArgInput \/ ArgInputMissing \/ ArgLanguage \/ ArgStored \/ ArgStd \/ ArgFails
  <2>1. pc = "args" /\ program = "dbgen" /\ UNCHANGED << rows, held, failed, printed >>
    BY <1>5 DEF ArgInput, ArgInputMissing, ArgLanguage, ArgStored, ArgStd, ArgFails, Exit1,
       AtArg, argUnits
  <2>2. \/ pc' \in {"exited", "aborted"} /\ status' = 1
        \/ pc' = pc /\ status' = status
    BY <1>5 DEF ArgInput, ArgInputMissing, ArgLanguage, ArgStored, ArgStd, ArgFails, Exit1
  <2>3. i' \in Nat \ {0}
    <3>1. i' = i \/ i' = i + 1 \/ i' = i + 2
      BY <1>5 DEF ArgInput, ArgInputMissing, ArgLanguage, ArgStored, ArgStd, ArgFails,
         LookingAhead, Exit1
    <3>2. i \in Nat \ {0}
      BY <1>t DEF Typed
    <3> QED
      BY <3>1, <3>2
  <2>4. lang' \in Tongue
    BY <1>5, <1>t DEF ArgInput, ArgInputMissing, ArgLanguage, ArgStored, ArgStd, ArgFails, Exit1,
       Typed, Tongue
  <2>5. inputs' \in Seq(Input)
    <3>1. CASE ArgInput
      <4>1. i \in 1..Len(args)
        BY <1>t, <3>1 DEF ArgInput, AtArg, Typed
      <4>2. args[i] \in Argument
        BY <1>t, <4>1 DEF Typed
      <4>3. AutoDetect(args[i].value) \in Tongue
        BY DEF AutoDetect, Tongue, Language
      <4>4. PICK t \in Tongue : inputs' = Append(inputs, << args[i].value, t >>)
        BY <1>t, <3>1, <4>3 DEF ArgInput, Typed
      <4>5. << args[i].value, t >> \in Input
        BY <4>2 DEF Argument, Input
      <4> QED
        BY <1>t, <4>4, <4>5, AppendProperties DEF Typed
    <3>2. CASE inputs' = inputs
      BY <1>t, <3>2 DEF Typed
    <3> QED
      BY <1>5, <3>1, <3>2 DEF ArgInputMissing, ArgLanguage, ArgStored, ArgStd, ArgFails, Exit1
  <2>6. Typed'
    BY <1>2, <1>t, <2>1, <2>2, <2>3, <2>4, <2>5 DEF Typed
  <2>7. /\ printed = << >> /\ held = << >> /\ failed = FALSE
        /\ \A d \in Place : rows[d] = << >>
    BY <2>1 DEF Handled, Parsing
  <2> QED
    BY <1>2, <2>1, <2>2, <2>6, <2>7 DEF Handled, Parsing, Executing, Ending
<1>6. CASE MakeDatabase
  <2>1. /\ pc = "args" /\ program = "dbgen" /\ pc' = "execute" /\ i' = 1
        /\ UNCHANGED << inputs, lang, rows, held, failed, printed, status, consumer >>
    BY <1>6 DEF MakeDatabase
  <2>2. /\ status = 0 /\ printed = << >> /\ consumer = None
        /\ held = << >> /\ failed = FALSE /\ \A d \in Place : rows[d] = << >>
    BY <2>1 DEF Handled, Parsing, Owners
  <2>3. Asked' = "main" /\ "main" \in Place /\ i' - 1 = 0
    BY <1>2, <2>1 DEF Asked, Place
  <2>4. Typed'
    BY <1>2, <1>t, <2>1 DEF Typed
  <2>5. i' <= Len(inputs') + 1
    BY <1>t, <2>1
  <2>6. Executing'
    BY <1>2, <2>1, <2>2, <2>3, <2>5, NothingUpTo, NoNumbers DEF Executing
  <2> QED
    BY <2>1, <2>4, <2>6 DEF Handled, Parsing, Ending
<1>7. CASE Unopened \/ CreateASTConsumer
  <2>1. /\ pc = "execute" /\ pc' = "execute" /\ i <= Len(inputs)
        /\ UNCHANGED << inputs, lang, rows, held, failed, printed, target >>
        /\ \/ i' = i + 1 /\ status' = 1 /\ consumer' = None
           \/ i' = i /\ status' = status
    BY <1>7 DEF Unopened, CreateASTConsumer, executeUnits
  <2>2. Asked' = Asked
    BY <1>2, <2>1 DEF Asked
  <2>3. i \in Nat \ {0}
    BY <1>t DEF Typed
  <2>4. i' \in Nat \ {0} /\ i' <= Len(inputs) + 1 /\ (consumer' # None => i' <= Len(inputs))
    BY <1>t, <2>1, <2>3
  <2>5. Typed'
    BY <1>2, <1>t, <2>1, <2>4 DEF Typed
  <2>6. Executing
    BY DEF Handled
  <2>7. Executing'
    <3>1. CASE status' = 1
      <4>1. status' # 0 /\ inputs' = inputs
        BY <2>1, <3>1
      <4>2. /\ printed' = << >> /\ Asked' \in Place'
            /\ program' = "plugin" /\ OFile' # "" => target' = OFile'
            /\ \A d \in Place' \ {Asked'} : rows'[d] = << >>
            /\ ~failed' => held' = << >>
            /\ failed' => program' = "plugin"
        BY <1>2, <2>1, <2>2, <2>6, Zenon DEF Executing
      <4>3. UpTo(rows'[Asked'] \o held', i' - 1)
        <5> DEFINE r == rows[Asked] \o held
        <5>1. r \in Seq(Nat) /\ UpTo(r, i - 1)
          <6>1. Asked \in Place /\ UpTo(r, i - 1)
            BY <2>1, <2>6 DEF Executing
          <6>2. rows[Asked] \in Seq(Nat) /\ held \in Seq(Nat)
            BY <1>t, <6>1 DEF Typed
          <6> QED
            BY <6>1, <6>2
        <5>2. UpTo(r, i)
          <6> HIDE DEF r
          <6> QED
            BY <2>3, <5>1, OneMore
        <5>3. i' - 1 = i \/ i' - 1 = i - 1
          BY <2>1, <2>3
        <5> QED
          BY <2>1, <2>2, <5>1, <5>2, <5>3
      <4> QED
        BY <2>1, <2>4, <4>1, <4>2, <4>3, Zenon DEF Executing
    <3>2. CASE i' = i /\ status' = status
      BY <1>2, <2>1, <2>2, <2>4, <2>6, <3>2 DEF Executing
    <3> QED
      BY <2>1, <3>1, <3>2
  <2> QED
    BY <2>1, <2>5, <2>7 DEF Handled, Parsing, Ending
<1>8. CASE HandleTranslationUnit
  <2>1. /\ pc = "execute" /\ pc' = "execute" /\ consumer # None /\ consumer' = None
        /\ UNCHANGED << inputs, lang, printed, target >>
        /\ i' = i + 1 /\ status' \in {status, 1}
        /\ UnitArrives \/ UnitFails
    BY <1>8 DEF HandleTranslationUnit, executeUnits
  <2>2. Asked' = Asked /\ Asked \in Place
    BY <1>2, <2>1 DEF Asked, Handled, Executing
  <2>3. To = Asked
    BY <2>1 DEF Owners, To, Asked, QualPtr, set, None
  <2>4. i <= Len(inputs) /\ i \in Nat \ {0}
    BY <1>t, <2>1 DEF Handled, Executing, Typed
  <2>5. /\ rows[Asked] \in Seq(Nat) /\ held \in Seq(Nat)
        /\ UpTo(rows[Asked] \o held, i - 1)
    BY <1>t, <2>1, <2>2 DEF Typed, Handled, Executing
  <2>6. PICK there \in {<< >>, held, << i >>, Append(held, i)} :
          /\ rows' = [rows EXCEPT ![Asked] = @ \o there]
          /\ held' = << >> \/ (there = << >> /\ held' \in {held, Append(held, i)})
    <3>1. CASE UnitArrives
      BY <2>3, <3>1 DEF UnitArrives
    <3>2. CASE UnitFails
      BY <2>3, <3>2 DEF UnitFails
    <3> QED
      BY <2>1, <3>1, <3>2
  <2>7. /\ rows[Asked] \o there \in Seq(Nat) /\ held' \in Seq(Nat)
        /\ UpTo((rows[Asked] \o there) \o held', i)
    BY <2>4, <2>5, <2>6, Arriving
  <2>8. /\ rows' \in [Place -> Seq(Nat)]
        /\ rows'[Asked] = rows[Asked] \o there
        /\ \A d \in Place \ {Asked} : rows'[d] = << >>
    BY <1>t, <2>1, <2>2, <2>6, <2>7 DEF Handled, Executing, Typed
  <2>9. ~failed' => ~failed /\ held' = << >>
    BY <2>1 DEF UnitArrives, UnitFails
  <2>10. failed' => program = "plugin"
    BY <2>1 DEF UnitArrives, UnitFails, IntoFile, Handled, Executing
  <2>11. status' = 0 /\ ~failed' => rows'[Asked] = Numbers(i)
    <3> SUFFICES ASSUME status' = 0, ~failed' PROVE rows'[Asked] = Numbers(i)
      OBVIOUS
    <3>0. UnitFails => failed' = TRUE
      BY Zenon DEF UnitFails
    <3>1. status = 0 /\ UnitArrives
      BY <2>1, <3>0
    <3>2. ~failed => held = << >>
      BY <2>1, Zenon DEF Handled, Executing
    <3>3. rows[Asked] = Numbers(i - 1)
      BY <2>1, <2>9, <3>1 DEF Handled, Executing
    <3>4. rows'[Asked] = rows[Asked] \o << i >>
      <4>1. rows' = [rows EXCEPT ![Asked] = @ \o Append(held, i)] /\ held = << >>
        BY <2>3, <2>9, <3>1, <3>2, Zenon DEF UnitArrives
      <4>2. Append(held, i) = << i >>
        BY <4>1
      <4>3. rows' = [rows EXCEPT ![Asked] = @ \o << i >>]
        BY <4>1, <4>2, Zenon
      <4> QED
        BY <1>t, <2>2, <4>3 DEF Typed
    <3>5. rows'[Asked] = Append(rows[Asked], i)
      BY <2>5, <3>4
    <3> QED
      BY <2>4, <3>3, <3>5, OneMoreNumber
  <2>12. i' \in Nat \ {0} /\ i' <= Len(inputs) + 1 /\ i' - 1 = i
    BY <1>t, <2>1, <2>4
  <2>13. Typed'
    BY <1>2, <1>t, <2>1, <2>7, <2>8, <2>12 DEF Typed
  <2>14. printed' = << >> /\ (program = "plugin" /\ OFile # "" => target' = OFile)
    BY <2>1 DEF Handled, Executing
  <2>15. UpTo(rows'[Asked] \o held', i' - 1)
    BY <2>7, <2>8, <2>12
  <2>16. Len(inputs') = Len(inputs)
    BY <2>1
  <2>17. Executing'
    <3> HIDE DEF None
    <3> QED
      BY <1>2, <2>1, <2>2, <2>8, <2>9, <2>10, <2>11, <2>12, <2>14, <2>15, <2>16 DEF Executing
  <2> QED
    BY <2>1, <2>13, <2>17 DEF Handled, Parsing, Ending
<1>w. ASSUME AllHandled
      PROVE  /\ UpTo(rows[Asked], Len(inputs)) /\ Asked \in Place
             /\ status = 0 /\ ~failed => rows[Asked] = Numbers(Len(inputs))
  <2>1. pc = "execute" /\ i > Len(inputs)
    BY <1>w DEF AllHandled
  <2>2. /\ i <= Len(inputs) + 1 /\ Asked \in Place /\ UpTo(rows[Asked] \o held, i - 1)
        /\ status = 0 /\ ~failed => rows[Asked] = Numbers(i - 1)
    BY <2>1 DEF Handled, Executing
  <2>3. i \in Nat /\ rows[Asked] \in Seq(Nat) /\ held \in Seq(Nat)
    BY <1>t, <2>2 DEF Typed
  <2>4. i - 1 = Len(inputs)
    BY <1>t, <2>1, <2>2, <2>3
  <2> QED
    BY <1>t, <2>2, <2>3, <2>4, Beginning
<1>9. CASE Executed
  <2>1. /\ AllHandled /\ program = "plugin" /\ pc' \in {"exited", "destroy"}
        /\ UNCHANGED << inputs, i, lang, rows, held, failed, printed, status, target >>
    BY <1>9 DEF Executed, executeUnits
  <2>2. printed = << >>
    BY <2>1 DEF AllHandled, Handled, Executing
  <2>3. OFile # "" =>
          \A d \in Values :
            IF d # OFile THEN rows[d] = << >>
            ELSE /\ UpTo(rows[d], Len(inputs))
                 /\ status = 0 /\ ~failed => rows[d] = Numbers(Len(inputs))
    BY <1>w, <2>1 DEF AllHandled, Handled, Executing, Asked, Place
  <2>4. Typed'
    BY <1>2, <1>t, <2>1 DEF Typed
  <2> QED
    BY <1>2, <2>1, <2>2, <2>3, <2>4 DEF Handled, Parsing, Executing, Ending
<1>10. CASE PrintTables
  <2>1. /\ AllHandled /\ program = "dbgen" /\ pc' \in {"exited", "destroy"}
        /\ UNCHANGED << inputs, i, lang, rows, held, failed, status, target >>
        /\ printed' = IF status = 0 THEN rows["main"] ELSE printed
    BY <1>10 DEF PrintTables, exitUnits
  <2>2. printed = << >> /\ (status = 0 => rows["main"] = Numbers(Len(inputs)))
    BY <1>w, <2>1 DEF AllHandled, Handled, Executing, Asked
  <2>3. Typed'
    BY <1>2, <1>t, <2>1 DEF Typed
  <2> QED
    BY <1>2, <2>1, <2>2, <2>3 DEF Handled, Parsing, Executing, Ending
<1>11. CASE Destroy
  <2>1. /\ pc = "destroy" /\ pc' = "exited"
        /\ UNCHANGED << inputs, i, lang, rows, held, failed, printed, status, target >>
    BY <1>11 DEF Destroy, exitUnits
  <2>2. Typed'
    BY <1>2, <1>t, <2>1 DEF Typed
  <2> QED
    BY <1>2, <2>1, <2>2 DEF Handled, Parsing, Executing, Ending
<1>12. CASE UNCHANGED vars
  <2>1. UNCHANGED << pc, inputs, i, lang, rows, held, failed, printed, status, target, consumer >>
    BY <1>12 DEF vars
  <2>2. Asked' = Asked
    BY <1>2, <2>1 DEF Asked
  <2>3. Typed'
    BY <1>2, <1>t, <2>1 DEF Typed
  <2> QED
    BY <1>2, <2>1, <2>2, <2>3 DEF Handled, Parsing, Executing, Ending
<1> QED
  BY <1>3, <1>4, <1>5, <1>6, <1>7, <1>8, <1>9, <1>10, <1>11, <1>12 DEF Next

(* Whatever the command line, and whatever fails: dbgen prints the units   *)
(* of all its inputs or, with status 1, nothing; the plugin leaves units   *)
(* in the file it was asked to and nowhere else, each at most once and in  *)
(* order, and all of them unless an input or a statement has failed.       *)
THEOREM UnitsArrive == Spec => []UnitsWhereAsked
<1>1. Owners /\ Handled => UnitsWhereAsked
  <2> SUFFICES ASSUME Handled, pc = "exited" PROVE UnitsWhereAsked
    BY DEF UnitsWhereAsked
  <2>1. Ending
    BY DEF Handled
  <2>2. \A s : UpTo(s, Len(inputs)) => InOrder(s)
    BY DEF UpTo, InOrder
  <2> QED
    BY <2>1, <2>2, Zenon DEF Ending, Numbers, UnitsWhereAsked
<1> QED
  BY <1>1, OwnersInit, OwnersNext, HandledInit, HandledNext, PTL DEF Spec

-----------------------------------------------------------------------------
(* The command line of dbgen. *)

(* What Consumed is, from its recursive definition.                        *)
LEMMA ConsumedIs ==
  ASSUME args \in Seq(Argument)
  PROVE  \A j \in 1..Len(args) :
           Consumed[j] <=> j > 1 /\ ~Consumed[j - 1] /\ NeedsNext(args[j - 1])
<1> DEFINE n == Len(args)
           Level(c, j) == j > 1 /\ ~c[j - 1] /\ NeedsNext(args[j - 1])
           P == {k \in Nat : NeedsNext(args[k])}
<1>1. n \in Nat
  BY LenProperties
<1> HIDE DEF n, P
<1>2. PICK h : h = [j \in 1..n |-> j > 1 /\ ~h[j - 1] /\ j - 1 \in P]
  BY <1>1, Alternation, Zenon
<1>3. \A c : \A j \in 1..n : (j > 1 /\ ~c[j - 1] /\ j - 1 \in P) = Level(c, j)
  BY <1>1 DEF P
<1>5. h = [j \in 1..n |-> Level(h, j)]
  <2> HIDE DEF Level
  <2>1. [j \in 1..n |-> j > 1 /\ ~h[j - 1] /\ j - 1 \in P] = [j \in 1..n |-> Level(h, j)]
    BY <1>3
  <2> QED
    BY <1>2, <2>1, Zenon
<1>6. Consumed = [j \in 1..n |-> Level(Consumed, j)]
  <2>1. Consumed = CHOOSE c : c = [j \in 1..n |-> Level(c, j)]
    BY DEF Consumed, n
  <2> HIDE DEF Level
  <2> QED
    BY <1>5, <2>1, Zenon
<1>7. \A j \in 1..n : Consumed[j] = Level(Consumed, j)
  <2> HIDE DEF Level
  <2>1. \A j \in 1..n : [k \in 1..n |-> Level(Consumed, k)][j] = Level(Consumed, j)
    OBVIOUS
  <2> QED
    BY <1>6, <2>1, Zenon
<1> QED
  BY <1>7 DEF n

(* The next argument to look at: past one that i consumes.                 *)
Following(m) ==
  \/ m = i + 1 /\ ~NeedsNext(args[i])
  \/ m = i + 2 /\ NeedsNext(args[i]) /\ i < Len(args)

LEMMA FollowingReads ==
  ASSUME args \in Seq(Argument), i \in 1..Len(args), ~Consumed[i], NEW m, Following(m)
  PROVE  /\ m \in 1..(Len(args) + 1) /\ m > i /\ (m <= Len(args) => ~Consumed[m])
         /\ \A kind : Until(Read(kind), m - 1) =
              Until(Read(kind), i - 1) \cup (IF args[i].is = kind THEN {i} ELSE {})
<1>1. PICK n \in Nat : n = Len(args)
  BY LenProperties
<1>2. DOMAIN args = 1..n /\ i \in 1..n
  BY <1>1
<1>3. \A j \in 1..n : Consumed[j] <=> j > 1 /\ ~Consumed[j - 1] /\ NeedsNext(args[j - 1])
  BY <1>1, ConsumedIs
<1>4. i + 1 \in 1..n => (Consumed[i + 1] <=> NeedsNext(args[i]))
  <2> SUFFICES ASSUME i + 1 \in 1..n PROVE Consumed[i + 1] <=> NeedsNext(args[i])
    OBVIOUS
  <2>1. i + 1 > 1 /\ i + 1 - 1 = i
    BY <1>2
  <2> QED
    BY <1>3, <2>1
<1>5. i + 2 \in 1..n => (Consumed[i + 1] => ~Consumed[i + 2])
  <2> SUFFICES ASSUME i + 2 \in 1..n, Consumed[i + 1] PROVE ~Consumed[i + 2]
    OBVIOUS
  <2>1. i + 2 > 1 /\ i + 2 - 1 = i + 1
    BY <1>2
  <2> QED
    BY <1>3, <2>1
<1>6. m \in 1..(n + 1) /\ m > i
  BY <1>1, <1>2 DEF Following
<1>7. m <= n => ~Consumed[m]
  BY <1>1, <1>2, <1>4, <1>5 DEF Following
<1>8. ASSUME NEW kind
      PROVE  Until(Read(kind), m - 1) =
               Until(Read(kind), i - 1) \cup (IF args[i].is = kind THEN {i} ELSE {})
  <2>1. \A k \in 1..n : k <= m - 1 => k <= i - 1 \/ k = i \/ (k = i + 1 /\ Consumed[k])
    <3> TAKE k \in 1..n
    <3>1. CASE m = i + 1
      BY <1>2, <3>1
    <3>2. CASE m = i + 2 /\ NeedsNext(args[i])
      BY <1>2, <1>4, <3>2
    <3> QED
      BY <3>1, <3>2 DEF Following
  <2>2. \A k \in 1..n : k <= i => k <= m - 1
    BY <1>2, <1>6
  <2>3. \A k \in 1..n : k <= i - 1 => k <= i
    BY <1>2
  <2>4. i <= i /\ ~(i <= i - 1)
    BY <1>2
  <2> QED
    BY <1>2, <2>1, <2>2, <2>3, <2>4 DEF Until, Read
<1> QED
  BY <1>1, <1>6, <1>7, <1>8

(* An element above all others is the last of a set of numbers.            *)
LEMMA LatestAdded ==
  ASSUME NEW S \in SUBSET Int, NEW n \in Int, \A k \in S : k <= n
  PROVE  Latest(S \cup {n}) = n
<1>1. \A k \in S \cup {n} : k <= n
  OBVIOUS
<1>2. \A j \in S \cup {n} : (\A m \in S \cup {n} : m <= j) => j = n
  OBVIOUS
<1> QED
  BY <1>1, <1>2 DEF Latest

(* Of finitely many numbers one is the last.                               *)
LEMMA ReadIsFinite ==
  ASSUME args \in Seq(Argument), NEW kind, NEW n
  PROVE  IsFiniteSet(Until(Read(kind), n)) /\ Until(Read(kind), n) \subseteq 1..Len(args)
<1>1. Len(args) \in Nat /\ DOMAIN args = 1..Len(args)
  BY LenProperties
<1>2. Until(Read(kind), n) \subseteq 1..Len(args)
  BY <1>1 DEF Until, Read
<1>3. IsFiniteSet(1..Len(args))
  BY <1>1, FS_Interval
<1> QED
  BY <1>2, <1>3, FS_Subset

(* What has been read of the arguments up to n.                            *)
ParsedTo(n) ==
  /\ Len(inputs) = Cardinality(Until(Read("input"), n))
  /\ \A j \in Until(Read("input"), n) :
       inputs[Cardinality(Until(Read("input"), j))] = << args[j].value, LanguageOf(j) >>
  /\ CPlusPlus = SaysCPlusPlus(n)

LanguageTo(n) ==
  LET before == Until(Read("x"), n)
  IN  IF before = {} THEN lang = "unknown"
      ELSE lang = Named(Latest(before)) /\ lang \in Language

Reading ==
  program = "dbgen" =>
    /\ pc = "args" =>
         /\ i \in 1..(Len(args) + 1) /\ (i <= Len(args) => ~Consumed[i])
         /\ LanguageTo(i - 1) /\ ParsedTo(i - 1)
    /\ pc = "execute" => ParsedTo(Len(args))

(* The arguments are not written.                                          *)
LEMMA QuestionsFixed ==
  ASSUME args' = args
  PROVE  /\ Consumed' = Consumed /\ Telling' = Telling
         /\ \A kind : Read(kind)' = Read(kind)
         /\ \A k : Named(k)' = Named(k)
         /\ \A j : LanguageOf(j)' = LanguageOf(j)
         /\ \A n : SaysCPlusPlus(n)' = SaysCPlusPlus(n)
<1>1. Consumed' = Consumed
  BY DEF Consumed
<1>2. \A kind : Read(kind)' = Read(kind)
  BY <1>1 DEF Read
<1>3. Telling' = Telling
  BY <1>2 DEF Telling
<1>4. \A k : Named(k)' = Named(k)
  BY DEF Named
<1>5. \A j : LanguageOf(j)' = LanguageOf(j)
  BY <1>2, <1>4 DEF LanguageOf
<1>6. \A n : SaysCPlusPlus(n)' = SaysCPlusPlus(n)
  BY <1>3, <1>4 DEF SaysCPlusPlus
<1> QED
  BY <1>1, <1>2, <1>3, <1>4, <1>5, <1>6
(* What says C++, up to the next argument to look at.                      *)
LEMMA FollowingTells ==
  ASSUME args \in Seq(Argument), i \in 1..Len(args), ~Consumed[i], NEW m, Following(m)
  PROVE  Until(Telling, m - 1) =
           Until(Telling, i - 1) \cup
             (IF args[i].is = "x" \/ (args[i].is = "std" /\ args[i].value \in CXXStds)
              THEN {i} ELSE {})
<1>1. \A n : Until(Telling, n) = Until(Read("x"), n) \cup
                                 {j \in Until(Read("std"), n) : args[j].value \in CXXStds}
  BY DEF Until, Telling
<1>2. \A kind : Until(Read(kind), m - 1) =
        Until(Read(kind), i - 1) \cup (IF args[i].is = kind THEN {i} ELSE {})
  BY FollowingReads
<1>3. /\ Until(Read("x"), m - 1) =
           Until(Read("x"), i - 1) \cup (IF args[i].is = "x" THEN {i} ELSE {})
      /\ Until(Read("std"), m - 1) =
           Until(Read("std"), i - 1) \cup (IF args[i].is = "std" THEN {i} ELSE {})
  BY <1>2
<1>4. "x" # "std"
  OBVIOUS
<1>5. CASE args[i].is = "x"
  BY <1>1, <1>3, <1>4, <1>5
<1>6. CASE args[i].is = "std"
  BY <1>1, <1>3, <1>4, <1>6
<1>7. CASE args[i].is \notin {"x", "std"}
  BY <1>1, <1>3, <1>7
<1> QED
  BY <1>5, <1>6, <1>7

(* What the arguments up to n say, they still say when n grows past        *)
(* arguments that say nothing.                                             *)
LEMMA Silent ==
  ASSUME args \in Seq(Argument), i \in 1..Len(args), ~Consumed[i], NEW m, Following(m),
         args[i].is # "x"
  PROVE  /\ Until(Read("x"), m - 1) = Until(Read("x"), i - 1)
         /\ LanguageTo(m - 1) <=> LanguageTo(i - 1)
<1>1. Until(Read("x"), m - 1) = Until(Read("x"), i - 1)
  BY FollowingReads
<1> QED
  BY <1>1 DEF LanguageTo

(* The place of an input among the inputs.                                 *)
LEMMA Ranked ==
  ASSUME args \in Seq(Argument), NEW n \in Int, NEW j \in Until(Read("input"), n)
  PROVE  /\ Cardinality(Until(Read("input"), j)) \in Nat \ {0}
         /\ Cardinality(Until(Read("input"), j)) <= Cardinality(Until(Read("input"), n))
         /\ Cardinality(Until(Read("input"), n)) \in Nat
<1> DEFINE S == Until(Read("input"), n)
           T == Until(Read("input"), j)
<1>1. IsFiniteSet(S) /\ IsFiniteSet(T) /\ S \subseteq 1..Len(args)
  BY ReadIsFinite
<1>2. Len(args) \in Nat /\ j \in 1..Len(args) /\ j <= n
  BY <1>1, LenProperties DEF Until
<1>3. T \subseteq S /\ j \in T
  <2>1. \A k \in Read("input") : k \in Int
    BY <1>2, LenProperties DEF Read
  <2>2. j \in Read("input") /\ j <= j
    BY <1>2 DEF Until
  <2>3. \A k \in Read("input") : k <= j => k <= n
    BY <1>2, <2>1
  <2> QED
    BY <2>2, <2>3 DEF Until
<1>4. Cardinality(T) <= Cardinality(S)
  BY <1>1, <1>3, FS_Subset
<1>5. Cardinality(T) \in Nat /\ Cardinality(S) \in Nat /\ Cardinality(T) # 0
  BY <1>1, <1>3, FS_CardinalityType, FS_EmptySet
<1> QED
  BY <1>4, <1>5

LEMMA ReadingInit == Init => Reading
<1> SUFFICES ASSUME Init, program = "dbgen" PROVE Reading
  BY DEF Reading
<1>1. /\ pc = "args" /\ i = 1 /\ lang = "unknown" /\ CPlusPlus = FALSE
      /\ inputs = << >> /\ args \in Seq(Argument)
  BY ArgsAssumption DEF Init, Argument
<1>2. PICK n \in Nat : n = Len(args)
  BY <1>1, LenProperties
<1>3. \A kind : Until(Read(kind), 0) = {}
  <2> TAKE kind
  <2>1. Until(Read(kind), 0) \subseteq 1..n
    BY <1>1, <1>2, ReadIsFinite
  <2> QED
    BY <1>2, <2>1 DEF Until
<1>4. Until(Telling, 0) = {}
  <2>1. Until(Telling, 0) \subseteq Until(Read("x"), 0) \cup Until(Read("std"), 0)
    BY DEF Until, Telling
  <2> QED
    BY <1>3, <2>1
<1>5. LanguageTo(0)
  BY <1>1, <1>3 DEF LanguageTo
<1>6. ParsedTo(0)
  <2>1. Cardinality({}) = 0 /\ Len(inputs) = 0
    BY <1>1, FS_EmptySet
  <2>2. SaysCPlusPlus(0) = FALSE
    BY <1>4 DEF SaysCPlusPlus
  <2>3. CPlusPlus = SaysCPlusPlus(0)
    BY <1>1, <2>2, Zenon
  <2>4. Until(Read("input"), 0) = {}
    BY <1>3
  <2> QED
    BY <2>1, <2>3, <2>4 DEF ParsedTo
<1>7. i <= Len(args) => ~Consumed[i]
  <2>1. ASSUME 1 \in 1..n PROVE ~Consumed[1]
    BY <1>1, <1>2, <2>1, ConsumedIs
  <2> QED
    BY <1>1, <1>2, <2>1
<1>8. i \in 1..(Len(args) + 1) /\ i - 1 = 0
  BY <1>1, <1>2
<1> QED
  BY <1>1, <1>5, <1>6, <1>7, <1>8 DEF Reading
(* The state before an argument of dbgen is read, and the one after it.    *)
AtHand ==
  /\ program = "dbgen" /\ pc = "args"
  /\ args \in Seq(Argument) /\ inputs \in Seq(Input)
  /\ i \in 1..Len(args) /\ ~Consumed[i]
  /\ LanguageTo(i - 1) /\ ParsedTo(i - 1)

After(m) ==
  /\ Following(m) /\ args' = args
  /\ Len(inputs') = Cardinality(Until(Read("input"), m - 1))
  /\ \A j \in Until(Read("input"), m - 1) :
       inputs'[Cardinality(Until(Read("input"), j))] = << args[j].value, LanguageOf(j) >>
  /\ CPlusPlus' = SaysCPlusPlus(m - 1)
  /\ IF Until(Read("x"), m - 1) = {} THEN lang' = "unknown"
     ELSE lang' = Named(Latest(Until(Read("x"), m - 1))) /\ lang' \in Language

LEMMA AfterInput == AtHand /\ ArgInput => After(i + 1)
<1> SUFFICES ASSUME AtHand, ArgInput PROVE After(i + 1)
  OBVIOUS
<1> DEFINE S == Until(Read("input"), i - 1)
           entry == << args[i].value,
                       IF lang = "unknown" THEN AutoDetect(args[i].value) ELSE lang >>
<1>1. /\ args[i].is = "input" /\ args' = args /\ lang' = lang /\ CPlusPlus' = CPlusPlus
      /\ inputs' = Append(inputs, entry)
  BY DEF ArgInput, AtArg, argUnits, started
<1>2. args \in Seq(Argument) /\ i \in 1..Len(args) /\ i \in Int /\ i + 1 - 1 = i
      /\ inputs \in Seq(Input)
  BY LenProperties DEF AtHand
<1>3. Following(i + 1)
  BY <1>1 DEF Following, NeedsNext
<1>4. Until(Read("input"), i) = S \cup {i} /\ i \notin S
  <2>0. \A kind : Until(Read(kind), i + 1 - 1) =
          Until(Read(kind), i - 1) \cup (IF args[i].is = kind THEN {i} ELSE {})
    BY <1>3, FollowingReads DEF AtHand
  <2>1. Until(Read("input"), i + 1 - 1) = S \cup {i}
    BY <1>1, <2>0, Zenon
  <2>2. ~(i <= i - 1)
    BY <1>2
  <2>3. i \notin S
    BY <2>2 DEF Until
  <2> QED
    BY <1>2, <2>1, <2>3
<1>5. Until(Telling, i) = Until(Telling, i - 1)
  <2>1. Until(Telling, i + 1 - 1) = Until(Telling, i - 1)
    BY <1>1, <1>3, FollowingTells DEF AtHand
  <2> QED
    BY <1>2, <2>1
<1>6. Until(Read("x"), i) = Until(Read("x"), i - 1)
  <2>1. Until(Read("x"), i + 1 - 1) = Until(Read("x"), i - 1)
    BY <1>1, <1>3, Silent DEF AtHand
  <2> QED
    BY <1>2, <2>1
<1>7. Cardinality(S \cup {i}) = Len(inputs) + 1 /\ Len(inputs) = Cardinality(S)
      /\ Len(inputs) \in Nat
  <2>1. IsFiniteSet(S)
    BY <1>2, ReadIsFinite
  <2>2. Len(inputs) = Cardinality(S)
    BY DEF AtHand, ParsedTo
  <2> QED
    BY <1>2, <1>4, <2>1, <2>2, FS_AddElement, LenProperties
<1>8. entry[2] = LanguageOf(i)
  <2>1. CASE Until(Read("x"), i) = {}
    BY <1>6, <2>1 DEF LanguageOf, AtHand, LanguageTo
  <2>2. CASE Until(Read("x"), i) # {}
    <3>1. lang = Named(Latest(Until(Read("x"), i))) /\ lang # "unknown"
      BY <1>6, <2>2 DEF AtHand, LanguageTo, Language
    <3> QED
      BY <2>2, <3>1 DEF LanguageOf
  <2> QED
    BY <2>1, <2>2
<1>9. \A j \in S \cup {i} :
        inputs'[Cardinality(Until(Read("input"), j))] = << args[j].value, LanguageOf(j) >>
  <2> TAKE j \in S \cup {i}
  <2>1. \A k \in 1..Len(inputs) : Append(inputs, entry)[k] = inputs[k]
    BY <1>2
  <2>2. Append(inputs, entry)[Len(inputs) + 1] = entry
    BY <1>2
  <2> HIDE DEF entry
  <2>3. CASE j = i
    <3>1. inputs'[Cardinality(Until(Read("input"), i))] = entry
      BY <1>1, <1>4, <1>7, <2>2
    <3> QED
      BY <1>8, <2>3, <3>1 DEF entry
  <2>4. CASE j \in S
    <3> DEFINE k == Cardinality(Until(Read("input"), j))
    <3>1. k \in Nat \ {0} /\ k <= Cardinality(S)
      BY <1>2, <2>4, Ranked
    <3>2. k \in 1..Len(inputs)
      BY <1>7, <3>1
    <3>3. inputs[k] = << args[j].value, LanguageOf(j) >>
      BY <2>4 DEF AtHand, ParsedTo
    <3> QED
      BY <1>1, <2>1, <3>2, <3>3
  <2> QED
    BY <2>3, <2>4
<1>a. Len(inputs') = Cardinality(S \cup {i})
  BY <1>1, <1>2, <1>7
<1>b. CPlusPlus' = SaysCPlusPlus(i)
  <2>1. SaysCPlusPlus(i) = SaysCPlusPlus(i - 1)
    BY <1>5, Zenon DEF SaysCPlusPlus
  <2> QED
    BY <1>1, <2>1, Zenon DEF AtHand, ParsedTo
<1>c. IF Until(Read("x"), i) = {} THEN lang' = "unknown"
      ELSE lang' = Named(Latest(Until(Read("x"), i))) /\ lang' \in Language
  BY <1>1, <1>6 DEF AtHand, LanguageTo
<1>d. \A m : m - 1 = i /\ Following(m) => After(m)
  <2> HIDE DEF S, entry
  <2> QED
    BY <1>1, <1>4, <1>9, <1>a, <1>b, <1>c, Zenon DEF After
<1> QED
  BY <1>2, <1>3, <1>d
LEMMA AfterLanguage == AtHand /\ ArgLanguage => \E m : After(m) /\ i' = m
<1> SUFFICES ASSUME AtHand, ArgLanguage PROVE \E m : After(m) /\ i' = m
  OBVIOUS
<1> DEFINE X == Until(Read("x"), i - 1)
<1>1. /\ args[i].is = "x" /\ args' = args /\ inputs' = inputs
      /\ LookingAhead /\ Value \in Language /\ lang' = Value /\ CPlusPlus' = (Value = "c++")
  BY DEF ArgLanguage, AtArg, argUnits, started
<1>2. PICK m : m = IF Attached THEN i + 1 ELSE i + 2
  OBVIOUS
<1>3. Following(m) /\ i' = m
  BY <1>1, <1>2 DEF LookingAhead, Attached, Following, NeedsNext
<1>4. args \in Seq(Argument) /\ i \in 1..Len(args) /\ ~Consumed[i] /\ i \in Int
  BY LenProperties DEF AtHand
<1>5. \A kind : Until(Read(kind), m - 1) =
        Until(Read(kind), i - 1) \cup (IF args[i].is = kind THEN {i} ELSE {})
  BY <1>3, <1>4, FollowingReads
<1>6. Until(Read("x"), m - 1) = X \cup {i} /\ Until(Read("input"), m - 1) = Until(Read("input"), i - 1)
  BY <1>1, <1>5
<1>7. Until(Telling, m - 1) = Until(Telling, i - 1) \cup {i}
  BY <1>1, <1>3, <1>4, FollowingTells
<1>8. Value = Named(i)
  <2>1. CASE Attached
    BY <2>1 DEF Attached, Value, Named, NeedsNext
  <2>2. CASE ~Attached
    <3>1. Value = Text(args[i + 1]) /\ Named(i) = args[i + 1].value
      BY <1>1, <2>2 DEF Attached, Value, Named, NeedsNext
    <3> QED
      BY <1>1, <3>1 DEF Text, Language
  <2> QED
    BY <2>1, <2>2
<1>9. Latest(X \cup {i}) = i /\ Latest(Until(Telling, i - 1) \cup {i}) = i
  <2>1. \A j \in DOMAIN args : j \in Int
    BY <1>4, LenProperties
  <2>2. X \in SUBSET Int /\ Until(Telling, i - 1) \in SUBSET Int
    BY <2>1 DEF Until, Telling, Read
  <2>3. \A k \in Int : k <= i - 1 => k <= i
    BY <1>4
  <2>4. (\A k \in X : k <= i) /\ \A k \in Until(Telling, i - 1) : k <= i
    BY <2>2, <2>3 DEF Until
  <2> QED
    BY <1>4, <2>2, <2>4, LatestAdded
<1>a. SaysCPlusPlus(m - 1) = (Named(i) = "c++")
  BY <1>1, <1>7, <1>9 DEF SaysCPlusPlus
<1>b. CPlusPlus' = SaysCPlusPlus(m - 1)
  BY <1>1, <1>8, <1>a, Zenon
<1>c. /\ Until(Read("x"), m - 1) # {}
      /\ lang' = Named(Latest(Until(Read("x"), m - 1))) /\ lang' \in Language
  BY <1>1, <1>6, <1>8, <1>9
<1>d. /\ Len(inputs') = Cardinality(Until(Read("input"), m - 1))
      /\ \A j \in Until(Read("input"), m - 1) :
           inputs'[Cardinality(Until(Read("input"), j))] = << args[j].value, LanguageOf(j) >>
  BY <1>1, <1>6 DEF AtHand, ParsedTo
<1> QED
  BY <1>1, <1>3, <1>b, <1>c, <1>d, Zenon DEF After

(* The others leave the inputs and the language as they are.               *)
LEMMA AfterOther == AtHand /\ (ArgStored \/ ArgStd) => \E m : After(m) /\ i' = m
<1> SUFFICES ASSUME AtHand, ArgStored \/ ArgStd PROVE \E m : After(m) /\ i' = m
  OBVIOUS
<1>1. /\ args[i].is \in {"D", "I", "o", "include", "std"}
      /\ args' = args /\ inputs' = inputs /\ lang' = lang
  BY DEF ArgStored, ArgStd, AtArg, argUnits, started
<1>2. \E m : Following(m) /\ i' = m
  <2>1. CASE ArgStored
    BY <2>1 DEF ArgStored, AtArg, LookingAhead, Attached, Following, NeedsNext
  <2>2. CASE ArgStd
    BY <2>2 DEF ArgStd, AtArg, Following, NeedsNext
  <2> QED
    BY <2>1, <2>2
<1>3. PICK m : Following(m) /\ i' = m
  BY <1>2
<1>4. args \in Seq(Argument) /\ i \in 1..Len(args) /\ ~Consumed[i] /\ i \in Int
  BY LenProperties DEF AtHand
<1>5. \A kind : Until(Read(kind), m - 1) =
        Until(Read(kind), i - 1) \cup (IF args[i].is = kind THEN {i} ELSE {})
  BY <1>3, <1>4, FollowingReads
<1>6. /\ Until(Read("x"), m - 1) = Until(Read("x"), i - 1)
      /\ Until(Read("input"), m - 1) = Until(Read("input"), i - 1)
  BY <1>1, <1>5
<1>7. CPlusPlus' = SaysCPlusPlus(m - 1)
  <2> DEFINE T == Until(Telling, i - 1)
  <2>1. CASE args[i].is = "std" /\ args[i].value \in CXXStds
    <3>1. Until(Telling, m - 1) = T \cup {i}
      BY <1>3, <1>4, <2>1, FollowingTells
    <3>2. Latest(T \cup {i}) = i
      <4>1. \A j \in DOMAIN args : j \in Int
        BY <1>4, LenProperties
      <4>2. T \in SUBSET Int
        BY <4>1 DEF Until, Telling, Read
      <4>3. \A k \in Int : k <= i - 1 => k <= i
        BY <1>4
      <4>4. \A k \in T : k <= i
        BY <4>2, <4>3 DEF Until
      <4> QED
        BY <1>4, <4>2, <4>4, LatestAdded
    <3>3. SaysCPlusPlus(m - 1) = TRUE
      BY <2>1, <3>1, <3>2 DEF SaysCPlusPlus
    <3>4. CPlusPlus' = TRUE
      BY <2>1 DEF ArgStored, ArgStd, AtArg
    <3> QED
      BY <3>3, <3>4, Zenon
  <2>2. CASE ~(args[i].is = "std" /\ args[i].value \in CXXStds)
    <3>1. Until(Telling, m - 1) = T
      BY <1>1, <1>3, <1>4, <2>2, FollowingTells
    <3>2. SaysCPlusPlus(m - 1) = SaysCPlusPlus(i - 1)
      BY <3>1, Zenon DEF SaysCPlusPlus
    <3>3. CPlusPlus = SaysCPlusPlus(i - 1) /\ CPlusPlus \in BOOLEAN
      BY DEF AtHand, ParsedTo, SaysCPlusPlus
    <3>4. CPlusPlus' = CPlusPlus
      BY <2>2, <3>3 DEF ArgStored, ArgStd, AtArg
    <3> QED
      BY <3>2, <3>3, <3>4, Zenon
  <2> QED
    BY <2>1, <2>2
<1>8. IF Until(Read("x"), m - 1) = {} THEN lang' = "unknown"
      ELSE lang' = Named(Latest(Until(Read("x"), m - 1))) /\ lang' \in Language
  BY <1>1, <1>6 DEF AtHand, LanguageTo
<1>9. /\ Len(inputs') = Cardinality(Until(Read("input"), m - 1))
      /\ \A j \in Until(Read("input"), m - 1) :
           inputs'[Cardinality(Until(Read("input"), j))] = << args[j].value, LanguageOf(j) >>
  BY <1>1, <1>6 DEF AtHand, ParsedTo
<1> QED
  BY <1>1, <1>3, <1>7, <1>8, <1>9, Zenon DEF After
LEMMA ReadingNext == Typed /\ Reading /\ [Next]_vars => Reading'
<1> SUFFICES ASSUME Typed, Reading, [Next]_vars, program' = "dbgen"
             PROVE  Reading'
  BY DEF Reading
<1>1. started' = started
  BY DEF Next, vars, started, Refuse, UseMemory, OpenFile, OpenFails, parseUnits,
     ArgInput, ArgInputMissing, ArgLanguage, ArgStored, ArgStd, ArgFails, Exit1, argUnits,
     MakeDatabase, Unopened, CreateASTConsumer, HandleTranslationUnit, Executed,
     executeUnits, PrintTables, Destroy, exitUnits
<1>2. program' = program /\ args' = args /\ program = "dbgen"
  BY <1>1, Fixed
<1>3. /\ Consumed' = Consumed
      /\ \A kind : Read(kind)' = Read(kind)
      /\ \A k : Named(k)' = Named(k)
      /\ \A j : LanguageOf(j)' = LanguageOf(j)
      /\ \A n : SaysCPlusPlus(n)' = SaysCPlusPlus(n)
  BY <1>2, QuestionsFixed
<1>t. /\ args \in Seq(Argument) /\ inputs \in Seq(Input)
      /\ Len(args) \in Nat /\ i \in Nat \ {0}
  BY LenProperties DEF Typed
<1>4. ASSUME NEW m, After(m), i' = m, AtHand, pc' = pc
      PROVE  Reading'
  <2>1. Following(m) /\ i \in 1..Len(args) /\ ~Consumed[i] /\ pc = "args"
    BY <1>4 DEF After, AtHand
  <2>2. m \in 1..(Len(args) + 1) /\ (m <= Len(args) => ~Consumed[m])
    BY <1>t, <2>1, FollowingReads
  <2>3. LanguageTo(m - 1)'
    BY <1>3, <1>4 DEF After, LanguageTo
  <2>4. ParsedTo(m - 1)'
    BY <1>2, <1>3, <1>4 DEF After, ParsedTo
  <2> QED
    BY <1>2, <1>3, <1>4, <2>1, <2>2, <2>3, <2>4 DEF Reading
<1>5. CASE ArgInput \/ ArgLanguage \/ ArgStored \/ ArgStd
  <2>1. pc' = pc /\ pc = "args" /\ i <= Len(args)
    BY <1>5 DEF ArgInput, ArgLanguage, ArgStored, ArgStd, AtArg
  <2>2. i \in 1..Len(args)
    BY <1>t, <2>1
  <2>3. AtHand
    BY <1>2, <1>t, <2>1, <2>2 DEF AtHand, Reading
  <2>4. CASE ArgInput
    <3>1. i' = i + 1
      BY <2>4 DEF ArgInput
    <3> QED
      BY <1>4, <2>1, <2>3, <2>4, <3>1, AfterInput
  <2>5. CASE ArgLanguage
    BY <1>4, <2>1, <2>3, <2>5, AfterLanguage
  <2>6. CASE ArgStored \/ ArgStd
    BY <1>4, <2>1, <2>3, <2>6, AfterOther
  <2> QED
    BY <1>5, <2>4, <2>5, <2>6
<1>6. CASE ArgInputMissing \/ ArgFails
  <2>1. pc' \in {"aborted", "exited"}
    BY <1>6 DEF ArgInputMissing, ArgFails, Exit1
  <2> QED
    BY <2>1 DEF Reading
<1>7. CASE MakeDatabase
  <2>1. /\ pc = "args" /\ pc' = "execute" /\ i > Len(args)
        /\ inputs' = inputs /\ CPlusPlus' = CPlusPlus
    BY <1>7 DEF MakeDatabase
  <2>2. ParsedTo(i - 1) /\ i - 1 = Len(args)
    <3>1. i \in 1..(Len(args) + 1) /\ ParsedTo(i - 1)
      BY <1>2, <2>1 DEF Reading
    <3> QED
      BY <1>t, <2>1, <3>1
  <2>3. PICK n \in Nat : n = Len(args)
    BY <1>t
  <2>4. ParsedTo(n)
    BY <2>2, <2>3
  <2>5. ParsedTo(n)'
    BY <1>2, <1>3, <2>1, <2>4 DEF ParsedTo
  <2> QED
    BY <1>2, <2>1, <2>3, <2>5 DEF Reading
<1>8. CASE Unopened \/ CreateASTConsumer \/ HandleTranslationUnit \/ Executed \/ PrintTables
           \/ Destroy
  <2>1. pc' # "args" /\ (pc' = "execute" => pc = "execute")
        /\ inputs' = inputs /\ CPlusPlus' = CPlusPlus
    BY <1>8 DEF Unopened, CreateASTConsumer, HandleTranslationUnit, Executed, PrintTables,
       AllHandled, Destroy, executeUnits, exitUnits
  <2>2. PICK n \in Nat : n = Len(args)
    BY <1>t
  <2>3. ASSUME pc = "execute" PROVE ParsedTo(n)'
    <3>1. ParsedTo(n)
      BY <1>2, <2>2, <2>3 DEF Reading
    <3> QED
      BY <1>2, <1>3, <2>1, <3>1 DEF ParsedTo
  <2> QED
    BY <1>2, <2>1, <2>2, <2>3 DEF Reading
<1>9. CASE Refuse \/ UseMemory \/ OpenFile \/ OpenFails
  BY <1>2, <1>9 DEF Refuse, UseMemory, OpenFile, OpenFails
<1>10. CASE UNCHANGED vars
  <2>1. UNCHANGED << pc, i, lang, inputs, CPlusPlus >>
    BY <1>10 DEF vars
  <2>2. \A n : LanguageTo(n) => LanguageTo(n)'
    BY <1>3, <2>1 DEF LanguageTo
  <2>3. \A n : ParsedTo(n) => ParsedTo(n)'
    BY <1>2, <1>3, <2>1 DEF ParsedTo
  <2> QED
    BY <1>2, <1>3, <2>1, <2>2, <2>3 DEF Reading
<1> QED
  BY <1>5, <1>6, <1>7, <1>8, <1>9, <1>10 DEF Next

(* Whatever is written on the command line of dbgen, its inputs are the    *)
(* arguments meant as inputs, in the language that the -x before them says.*)
THEOREM InputsAreAsWritten == Spec => []InputsAsWritten
<1>1. Typed /\ Reading => InputsAsWritten
  <2> SUFFICES ASSUME Typed, Reading, program = "dbgen", pc = "execute"
               PROVE  InputsAsWritten
    BY DEF InputsAsWritten
  <2>1. Len(args) \in Nat /\ DOMAIN args = 1..Len(args)
    BY LenProperties DEF Typed
  <2>2. Until(Read("input"), Len(args)) = Read("input")
    BY <2>1 DEF Until, Read
  <2>3. ParsedTo(Len(args))
    BY DEF Reading
  <2> QED
    BY <2>2, <2>3 DEF ParsedTo, InputsAsWritten
<1>2. Handled => Typed
  BY DEF Handled
<1> QED
  BY <1>1, <1>2, OwnersInit, OwnersNext, HandledInit, HandledNext, ReadingInit, ReadingNext,
     PTL DEF Spec

=============================================================================
