----------------------------- MODULE BuildAction -----------------------------
(***************************************************************************)
(* The two programs that fill a database, from their command line to their *)
(* exit status: clang -cc1 -plugin build-db (bin/plugin.cc, and ParseArgs  *)
(* in src/ast.cc), and dbgen (bin/dbgen.cc).  Both run BuildDatabaseAction *)
(* (include/ast.h), whose QualPtr holds the address of the database and,   *)
(* in its lowest bit, whether the action is to delete it.                  *)
(*                                                                         *)
(* clang is external: the plugin is given its arguments once, and dropped  *)
(* when it refuses them; every input that can be opened gets a consumer,   *)
(* which is given the translation unit even if it has errors; cc1 with     *)
(* -disable-free never destroys the action.  SqliteStore has what one      *)
(* translation unit does to a file, call by call; here it is one step,     *)
(* with every outcome those calls can have.                                *)
(***************************************************************************)
EXTENDS Integers, Sequences, FiniteSets

CONSTANTS
  PluginArgs,     \* sequences of [is, value]: help, output, or other
  Argvs,          \* sequences of [is, value]: input, x, std, other, or an
                  \* option whose argument dbgen only stores: D, I, o, include
  Inputs,         \* sequences of inputs of the plugin
  CFiles, CXXFiles,   \* inputs by their suffix
  CXXStds         \* values of -std= that begin with c++

Language == {"c", "c++"}
None == "none"

AutoDetect(file) ==
  IF file \in CFiles THEN "c" ELSE IF file \in CXXFiles THEN "c++" ELSE "unknown"

(* An address, and whether the holder is to delete what is there.          *)
QualPtr(Pt) == [ptr |-> Pt, bit |-> FALSE]
set(q)      == [q EXCEPT !.bit = TRUE]

ASSUME ArgsAssumption ==
  /\ \A a \in PluginArgs : a \in Seq([is : STRING, value : STRING])
  /\ \A a \in Argvs : a \in Seq([is : STRING, value : STRING])
  /\ \A s \in Inputs : s \in Seq(STRING \X STRING)

VARIABLES
  program,        \* "plugin" or "dbgen"
  args,
  assertions,     \* CLANGDB_ENABLE_ASSERTIONS
  disableFree,
  pc,
  i,              \* the argument, then the input, that is next
  lang,           \* dbgen: the language in force
  CPlusPlus,      \* of LangOpts, which are those of all inputs
  inputs,         \* << name, language >> of each
  alive,          \* the databases that exist: "main" and "action"
  target,         \* the file of the one ParseArgs makes, or "memory"
  DB,             \* QualPtr: ptr and bit
  consumer,       \* its pointer, or None
  rows,           \* of each database or file, the inputs of whose units
                  \* it has rows
  held,           \* the inputs whose units are in a transaction still open
  failed,         \* whether a BEGIN, an insertion or a COMMIT has
  printed,        \* the inputs of the tables that are printed
  status

vars == << program, args, assertions, disableFree, pc, i, lang,
           CPlusPlus, inputs, alive, target, DB, consumer, rows, held, failed,
           printed, status >>

started == << program, args, assertions, disableFree >>

Values == {args[j].value : j \in DOMAIN args}

Init ==
  /\ \/ program = "plugin" /\ args \in PluginArgs /\ inputs \in Inputs
     \/ program = "dbgen" /\ args \in Argvs /\ inputs = << >>
  /\ assertions \in BOOLEAN
  /\ disableFree \in BOOLEAN /\ (program = "dbgen" => ~disableFree)
  /\ pc = "args" /\ i = 1 /\ lang = "unknown" /\ CPlusPlus = FALSE
  /\ alive = {} /\ target = None
  /\ DB = QualPtr(None) /\ consumer = None
  /\ rows = [d \in Values \cup {"main", "memory"} |-> << >>]
  /\ held = << >> /\ failed = FALSE
  /\ printed = << >> /\ status = 0

-----------------------------------------------------------------------------
(* BuildDatabaseAction::ParseArgs.                                         *)
Outputs == {j \in DOMAIN args : args[j].is = "output"}
OFile ==
  IF Outputs = {} THEN ""
  ELSE args[CHOOSE j \in Outputs : \A k \in Outputs : k <= j].value
Accepted == \A j \in DOMAIN args : args[j].is = "output"

parseUnits == << started, i, lang, CPlusPlus, inputs, consumer, rows, held, failed, printed >>

Refuse ==
  /\ pc = "args" /\ program = "plugin" /\ ~Accepted
  /\ pc' = "destroy" /\ status' = 1
  /\ UNCHANGED << parseUnits, alive, target, DB >>

UseMemory ==
  /\ pc = "args" /\ program = "plugin" /\ Accepted /\ OFile = ""
  /\ alive' = {"action"} /\ target' = "memory"
  /\ DB' = set(QualPtr("action"))
  /\ pc' = "execute"
  /\ UNCHANGED << parseUnits, status >>

OpenFile ==
  /\ pc = "args" /\ program = "plugin" /\ Accepted /\ OFile # ""
  /\ alive' = {"action"} /\ target' = OFile
  /\ DB' = set(QualPtr("action"))
  /\ pc' = "execute"
  /\ UNCHANGED << parseUnits, status >>

(* Variant: the bit is set before the database is looked at.               *)
OpenFailsBitSet ==
  /\ pc = "args" /\ program = "plugin" /\ Accepted /\ OFile # ""
  /\ \/ assertions /\ pc' = "aborted" /\ alive' = {"action"} /\ UNCHANGED DB
     \/ /\ ~assertions
        /\ DB' = set(QualPtr("action"))
        /\ pc' = "destroy" /\ UNCHANGED alive
  /\ status' = 1
  /\ UNCHANGED << parseUnits, target >>

(* The constructor of SqliteDatabase ends the process, or ParseArgs        *)
(* deletes the database again, whose address stays in DB.                  *)
OpenFails ==
  /\ pc = "args" /\ program = "plugin" /\ Accepted /\ OFile # ""
  /\ \/ assertions /\ pc' = "aborted" /\ alive' = {"action"} /\ UNCHANGED DB
     \/ /\ ~assertions
        /\ DB' = QualPtr("action")
        /\ pc' = "destroy" /\ UNCHANGED alive
  /\ status' = 1
  /\ UNCHANGED << parseUnits, target >>

-----------------------------------------------------------------------------
(* ArgParse of dbgen.                                                      *)
argUnits == << started, alive, target, DB, consumer, rows, held, failed, printed >>

AtArg(kinds) ==
  /\ pc = "args" /\ program = "dbgen"
  /\ i <= Len(args) /\ args[i].is \in kinds

Exit1 == pc' = "exited" /\ status' = 1 /\ UNCHANGED << argUnits, i, lang, CPlusPlus, inputs >>

Attached == args[i].value # ""
Text(a)  == IF a.is = "input" THEN a.value ELSE "-"    \* and no language
Value    == IF Attached THEN args[i].value ELSE Text(args[i + 1])

(* Variant: the argument that was looked at is looked at again.            *)
LookingAheadStays == (Attached \/ i < Len(args)) /\ i' = i + 1

LookingAhead ==
  /\ Attached \/ i < Len(args)
  /\ i' = IF Attached THEN i + 1 ELSE i + 2

ArgInput ==
  /\ AtArg({"input"})
  /\ inputs' = Append(inputs, << args[i].value,
                  IF lang = "unknown" THEN AutoDetect(args[i].value) ELSE lang >>)
  /\ i' = i + 1
  /\ UNCHANGED << argUnits, pc, lang, CPlusPlus, status >>

(* ErrorOr::get without a file.                                            *)
ArgInputMissing ==
  /\ AtArg({"input"})
  /\ pc' = "aborted" /\ status' = 1
  /\ UNCHANGED << argUnits, i, lang, CPlusPlus, inputs >>

ArgLanguage ==
  /\ AtArg({"x"})
  /\ LookingAhead /\ Value \in Language
  /\ lang' = Value /\ CPlusPlus' = (Value = "c++")
  /\ UNCHANGED << argUnits, pc, inputs, status >>

ArgStored ==
  /\ AtArg({"D", "I", "o", "include"})
  /\ LookingAhead
  /\ UNCHANGED << argUnits, pc, lang, CPlusPlus, inputs, status >>

ArgStd ==
  /\ AtArg({"std"}) /\ Attached
  /\ i' = i + 1
  /\ CPlusPlus' = (CPlusPlus \/ args[i].value \in CXXStds)
  /\ UNCHANGED << argUnits, pc, lang, inputs, status >>

(* Unknown arguments, values and languages, and a missing argument.        *)
ArgFails ==
  /\ \/ AtArg({"other"})
     \/ AtArg({"std"}) /\ ~Attached
     \/ AtArg({"x", "D", "I", "o", "include"}) /\ ~Attached /\ i = Len(args)
     \/ AtArg({"x"}) /\ (Attached \/ i < Len(args)) /\ Value \notin Language
  /\ Exit1

MakeDatabase ==
  /\ pc = "args" /\ program = "dbgen" /\ i > Len(args)
  /\ alive' = {"main"}
  /\ DB' = QualPtr("main")
  /\ pc' = "execute" /\ i' = 1
  /\ UNCHANGED << started, lang, CPlusPlus, inputs, target, consumer, rows, held, failed,
                  printed, status >>

-----------------------------------------------------------------------------
(* CompilerInstance::ExecuteAction, which calls the action for each input. *)
executeUnits == << started, lang, CPlusPlus, inputs, alive, target, DB, printed >>

Unopened ==
  /\ pc = "execute" /\ consumer = None /\ i <= Len(inputs)
  /\ i' = i + 1 /\ status' = 1
  /\ UNCHANGED << executeUnits, pc, consumer, rows, held, failed >>

CreateASTConsumer ==
  /\ pc = "execute" /\ consumer = None /\ i <= Len(inputs)
  /\ consumer' = DB.ptr
  /\ UNCHANGED << executeUnits, pc, i, rows, held, failed, status >>

(* The walk of one unit.  Into memory it goes as it is.  SqliteDatabase     *)
(* may fail, and the results are dropped or only logged: BEGIN, for which  *)
(* the insertions are then transactions of their own; an insertion, which  *)
(* leaves the unit without a row, or rolls back all of the transaction;    *)
(* and COMMIT, which rolls it back, or leaves it open for the next unit.   *)
To == IF consumer = "main" THEN "main" ELSE target
IntoFile == program = "plugin" /\ OFile # ""

UnitArrives ==
  /\ rows' = [rows EXCEPT ![To] = @ \o Append(held, i)]
  /\ held' = << >>
  /\ UNCHANGED failed

UnitFails ==
  /\ IntoFile
  /\ failed' = TRUE
  /\ \E there \in {<< >>, held, << i >>, Append(held, i)} :
       /\ rows' = [rows EXCEPT ![To] = @ \o there]
       /\ held' \in {<< >>} \cup (IF there = << >> THEN {held, Append(held, i)} ELSE {})

HandleTranslationUnit ==
  /\ pc = "execute" /\ consumer # None
  /\ UnitArrives \/ UnitFails
  /\ consumer' = None
  /\ i' = i + 1
  /\ status' \in {status, 1}
  /\ UNCHANGED << executeUnits, pc >>

AllHandled == pc = "execute" /\ consumer = None /\ i > Len(inputs)

Executed ==
  /\ AllHandled /\ program = "plugin"
  /\ pc' = IF disableFree THEN "exited" ELSE "destroy"
  /\ UNCHANGED << executeUnits, i, consumer, rows, held, failed, status >>

exitUnits == << started, i, lang, CPlusPlus, inputs, target, consumer, rows, held, failed, status >>

(* Variant: what there is is printed in any case.                          *)
PrintTablesAlways ==
  /\ AllHandled /\ program = "dbgen"
  /\ printed' = rows["main"] /\ pc' = "destroy"
  /\ UNCHANGED << exitUnits, alive, DB >>

(* The tables are printed and main returns, or it exits at once.           *)
PrintTables ==
  /\ AllHandled /\ program = "dbgen"
  /\ \/ status = 0 /\ printed' = rows["main"] /\ pc' = "destroy"
     \/ status = 1 /\ UNCHANGED printed /\ pc' = "exited"
  /\ UNCHANGED << exitUnits, alive, DB >>

(* ~BuildDatabaseAction, and, in dbgen, ~unique_ptr of the database.       *)
Destroy ==
  /\ pc = "destroy"
  /\ alive' = alive \ ((IF DB.bit THEN {DB.ptr} ELSE {}) \cup {"main"})
  /\ DB' = QualPtr(None)
  /\ pc' = "exited"
  /\ UNCHANGED << exitUnits, printed >>

Next ==
  \/ Refuse \/ UseMemory \/ OpenFile \/ OpenFails
  \/ ArgInput \/ ArgInputMissing \/ ArgLanguage \/ ArgStored \/ ArgStd \/ ArgFails
  \/ MakeDatabase
  \/ Unopened \/ CreateASTConsumer \/ HandleTranslationUnit \/ Executed
  \/ PrintTables \/ Destroy

Spec == Init /\ [][Next]_vars

-----------------------------------------------------------------------------
(* Each database that exists has one owner, the action or main, and who is *)
(* about to use or delete one finds it there, even after a database that   *)
(* could not be opened; none is left at the end, but by main's exit(1), an *)
(* assertion or -disable-free.                                             *)
OneOwner ==
  /\ consumer # None => consumer \in alive
  /\ pc \in {"execute", "destroy"} =>
       alive = (IF DB.bit THEN {DB.ptr} ELSE {})
                 \cup (IF program = "dbgen" THEN {"main"} ELSE {})
  /\ pc = "exited" /\ alive # {} =>
       disableFree \/ (program = "dbgen" /\ status = 1)

(* The numbers of s, all of them inputs, each once and in order.           *)
InOrder(s) ==
  \A k \in 1..Len(s) : s[k] \in 1..Len(inputs) /\ \A m \in 1..(k - 1) : s[m] < s[k]

(* At the exit of dbgen the units of all its inputs are on its output, in  *)
(* order, or nothing is, if its status is 1.  At the exit of the plugin    *)
(* the last file named has units of its inputs, each at most once and in   *)
(* order, and no other file has any; all of them, if the status is 0 and   *)
(* no statement has failed.  (That is more than the status says: results   *)
(* are dropped at context.h:152-154 and context.cc:32, so that 0 may be    *)
(* the status of a compiler that left out any of them.)                    *)
UnitsWhereAsked ==
  LET all == [k \in 1..Len(inputs) |-> k] IN
  pc = "exited" =>
    /\ printed = IF program = "dbgen" /\ status = 0 THEN all ELSE << >>
    /\ program = "plugin" /\ OFile # "" =>
         \A d \in Values :
           IF d # OFile THEN rows[d] = << >>
           ELSE InOrder(rows[d]) /\ (status = 0 /\ ~failed => rows[d] = all)

(* An argument is consumed by the option before it when that stands alone  *)
(* and is not consumed itself.                                             *)
NeedsNext(a) == a.is \in {"x", "D", "I", "o", "include"} /\ a.value = ""

Consumed ==
  LET consumed[j \in 1..Len(args)] ==
        j > 1 /\ ~consumed[j - 1] /\ NeedsNext(args[j - 1])
  IN  consumed

Read(kind)  == {j \in DOMAIN args : ~Consumed[j] /\ args[j].is = kind}
Until(S, n) == {k \in S : k <= n}
Latest(S)   == CHOOSE k \in S : \A m \in S : m <= k

(* The language that the -x at k names, the one an input is in, and        *)
(* whether the last of the first n arguments to say so says C++.           *)
Named(k) == IF NeedsNext(args[k]) THEN args[k + 1].value ELSE args[k].value
LanguageOf(j) ==
  LET before == Until(Read("x"), j)
  IN  IF before = {} THEN AutoDetect(args[j].value) ELSE Named(Latest(before))
Telling == Read("x") \cup {j \in Read("std") : args[j].value \in CXXStds}
SaysCPlusPlus(n) ==
  LET told == Until(Telling, n)
  IN  told # {} /\ (args[Latest(told)].is = "x" => Named(Latest(told)) = "c++")

(* The inputs are the arguments that have no dash and are not consumed, in *)
(* the language of the nearest -x before them, or else by their suffix;    *)
(* and LangOpts are for C++ if the last -x or -std=c++ says so.            *)
InputsAsWritten ==
  (program = "dbgen" /\ pc = "execute") =>
    /\ Len(inputs) = Cardinality(Read("input"))
    /\ \A j \in Read("input") :
         inputs[Cardinality(Until(Read("input"), j))] = << args[j].value, LanguageOf(j) >>
    /\ CPlusPlus = SaysCPlusPlus(Len(args))
=============================================================================
