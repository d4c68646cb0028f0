# A model of clang-db in TLA+

clang-db is a clang plugin that records the declarations of C++ translation
units in three SQLite tables, and the programs that read them again: a
command-line lookup (`retrieve`) and a Python package that rebuilds the tree of
declarations. This directory holds TLA+ modules that model its parts, TLC
configurations that check them on small instances, and proofs checked by
TLAPS. All source paths below are relative to the root of the repository.

## 1. The system

```
 clang -cc1 -plugin            clang -cc1 -plugin          retrieve    check-db.py
   BuildDatabaseAction           ...                       Retriever   Builder
   DatabaseContext: the walk                                  |           |
          |                         |                         |           |
          +----- SqliteDatabase ----+------ one file ---------+-----------+
                                (SQLite, rollback journal)
```

| part | state | operations | how it meets the others |
|---|---|---|---|
| `DatabaseContext` (`include/context.h`, `src/context.cc`) | the scope text `WholeName`, the lengths `NameSizes`, the contexts `DeclContexts`, the sets of visited classes and functions | `VisitX`, `IterateScope`, `IterateClass`, `ShouldVisitX`, two insertion helpers | driven by clang's tree; calls `DatabaseInterface` once or twice per declaration |
| `BuildVisitor`, `BuildDatabaseConsumer` (`include/ast.h`) | the context of one unit | construct, traverse, destroy | the constructor begins a transaction, the destructor commits it |
| `InMemoryDatabase` (`include/storage.h`, `src/iterator.cc`) | three vectors and a flag; of an iterator, an index | insert, begin, commit, `QueryX`, `next` | used without an output file, and by the tests |
| `SqliteDatabase` (`src/storage.cc`, `src/iterator.cc`) | a connection; of an iterator, a statement | open, create the schema, insert, begin, commit, `QueryX`, `next` | shares its file with other processes; drops no result but its caller does |
| `Retriever` (`bin/retrieve.cc`) | `StringStack` (one text, a vector of lengths), a result counter | `Query`, `Descend`, `Yield` | reads all three tables, one open statement per level of recursion |
| `Builder` (`clang_db/builder.py`) | two stacks, the tree | `build`, `_build_recurse`, `yield_decl`, `resolve_record_type` | reads two tables, one open statement per level of recursion |
| mangling (`src/typing.cc`) | none | write types, records, parameter lists | the columns of the tables |
| `Tokenizer`, `TypeParser` (`clang_db/parsing.py`, `clang_db/cctype.py`) | a position, a stack of nestings, the cache of builtin types | split a column, make type objects, set qualifiers on them | called by the builder for each row |
| `NormalizePathName` (`include/common.h`) | the ranges kept, a buffer | normalise a path | called by `InsertSymbol` of `SqliteDatabase` for the file column of `symbol` |
| `BuildDatabaseAction` (`include/ast.h`, `src/ast.cc`, `bin/plugin.cc`) | the database behind a tagged pointer | parse arguments, create the consumer, destroy | owns the database, or has it from `dbgen`; called by clang for each input |
| `dbgen` (`bin/dbgen.cc`) | the inputs, the language options | parse arguments, run the action over all inputs, print the tables | lends the action its own database |
| SQLite and Python bindings (`3rdparty/sqlite`), `pyptr`, scripts | | | |

What is hard in it:

* *Recursion over shared stacks.* Three parts (walk, lookup, builder) recurse
  from within a loop and keep one text or one list for all activations, pushed
  and popped by hand. One exit that pops too much or too little shifts
  everything that follows. Tests look at a few rows, not at the stack.
* *Lexical and semantic order.* The walk goes through declarations in source
  order but records a class where it is first mentioned, with the members of
  its definition, which may stand elsewhere.
* *Failure without consequence.* Results of `TransactionBegin`, `Commit` and
  one insertion are dropped; other failed insertions are logged and the walk
  goes on; loops over rows take an error for the end.
* *A language with two grammars.* Types are written by one recursive function
  and read by two others, from texts in which names, lengths and letters of
  types use the same characters; the reader changes objects some of which are
  shared by the whole process.
* *Arithmetic on a buffer.* A path is normalised into a buffer whose size one
  loop counts and which another one fills.
* *Ownership told by a bit.* One pointer holds the address of a database and
  whether to delete it, through exits taken when a file cannot be opened.
* *Several processes on one file*, without a busy handler: any call may be
  BUSY, and a process may die anywhere.

What makes the parts right: the stacks stand for the path to the current
declaration; the tables form a tree that has every declaration once, under the
name its readers compute; what fails is told; the file holds whole units, those of all inputs;
an iterator gives every row that matches once; the lookup prints what the tables say; the rebuilt tree is that of the tables; the
type read is the type written.
`PROJECT.json` lists the hazards one by one, each at its line, with the
properties that are about it.

## 2. The modules

| module | what it is |
|---|---|
| `NameStack` | abstract: a stack of texts, where entering a level extends the text and leaving it restores the text the level was entered from |
| `DatabaseContext` | the walk of one translation unit and the tables it fills |
| `MCDatabaseContext` | all syntax trees of a bounded size |
| `DatabaseContext_proofs` | its theorems |
| `StringStack` | the text stack of `retrieve` |
| `Retriever`, `MCRetriever`, `Retriever_proofs` | the lookup of a qualified name |
| `PathName` | the normalisation of a path, and its buffer |
| `IteratorBase` | abstract: what an iterator promises to the loop that reads it |
| `Storage`, `MCStorage`, `Storage_proofs` | both databases behind `DatabaseInterface`: insertions and iterators |
| `BuildAction`, `MCBuildAction`, `BuildAction_proofs` | plugin and `dbgen`, from the command line to the exit status |
| `UnitStore` | abstract: what of the units of several compilers a file shows |
| `SqliteStore`, `MCSqliteStore`, `SqliteStore_proofs` | processes and locks on one database file |
| `Builder`, `MCBuilder`, `Builder_proofs` | the declaration tree, rebuilt from the tables |
| `Texts` | characters, numbers in decimal |
| `Mangling` | the text of a type, as the plugin writes it |
| `TypeParser` | tokenizer and type parser of the Python package, for any text |
| `TypeCodec`, `MCTypeCodec`, `TypeCodec_proofs` | the two composed: what is written of a declaration, then read |
| `Induction` | induction and recursive definitions on the natural numbers, as the proofs use them |

`NameStack` is implemented twice, by the writer of the names (`DatabaseContext`)
and by their reader (`Retriever`): that both use one abstraction, one string
with a vector of lengths, is what makes the lookup meet the rows. The rows
`DatabaseContext` can leave are the inputs of `Retriever` and `Builder`: their
instances enumerate databases closed under the property `RowsNested` of the
walk, and, where a failed insertion matters, databases with the holes that
`RowsNested` and `SymbolsMatch` allow behind a row that was lost. `SqliteStore`
takes over what the walk calls "a row was inserted" or "BEGIN failed" and asks
what becomes of it in the file; `Storage` takes over the rows and asks what a
query gives back. `Storage` EXTENDS `PathName`: `InsertSymbol` of the SQLite
database runs its steps. `BuildAction` is around all of these: its
`HandleTranslationUnit` stands for one behaviour of `DatabaseContext` and, with a
file, for what `SqliteStore` has one unit of one compiler do to it.

### DatabaseContext

The recursion `VisitX -> IterateX -> VisitX` is a stack of activations,
`frames`; an action is one turn of a loop with every call it makes, one action
for each branch of `IterateScope` (`ScopeNamespace`, `ScopeRecord`, ...) and of
`IterateClass` (`ClassRecord`, `ClassLeaf`, ...), the enumerators of
`VisitEnumDecl`, and `Return` for the end of a loop with its `LeaveDeclContext`.
`WholeName`, `NameSizes`, `DeclContexts` and the visited sets are the fields of
the struct, changed as the code changes them, `std::string::resize` with its
padding included. A local of `IterateScope` (`CurScope`) or `IterateClass`
(`Access`) is a field of its activation. Branches that call `ShouldVisitX` go to
the definition and test the visited set; a template class is always visited. A
deduction guide in a class ends in `crashed` (a null pointer is used,
`src/context.cc:114`). Tables are sequences of rows. A type column is reduced to
what its readers branch on and its access.

A text is a sequence of tokens, one for each piece that one `EncodeNs` or
`Mangle...` call appends. The syntax tree is a constant of the behaviour: `MCDatabaseContext`
generates all sequences of a few declarations in source order that are legal
C++ (names may repeat where C++ allows it, members may be defined out of line,
a class may first be named in a type) and the tree clang builds of each: injected
class names, definitions, semantic parents, missing locations. `WellFormed` says
what of this holds of any tree: a definition is a declaration of the same kind,
and an injected class name comes first. `Grammatical` says what kinds of
declarations can be inside each kind (no namespace in a class, enumerators in
enumerations only, nothing in a field), and that the root is the unit;
a tree has finitely many declarations.

A walk is a tree and a database, `Walks`. Into memory no call fails; into SQLite
each may: `InsertRow` and `InsertSymbol` have a disjunct for it, which follows what
the code does with the result at that place (logged, or dropped). `lost` has the
rows that were tried in vain, as history, so that the properties can speak of the
tables and of what is missing in them.

### StringStack and Retriever

`push`, `pop` and `reset` are functions on records; `pop` of the last level
clears `Offsets` too, as in the code. `Descend` has an activation per level of
recursion; an action is one statement with the loop that reads its rows
(`Lookup`), the treatment of one member (`Enter`, `HitNamespace`, `HitSymbol`,
the latter with `Yield` and all its exits), or a return. `Query` first descends
from the empty scope and then, if that found nothing, from every scope that has a
member of the first name. The properties give the answer without the stack:
`Matches(scope)` are the rows to which the identifiers of the query lead from
`scope`, and `Leads(scope)` is the recursion they come from. LIKE is modelled by what it does: an encoded
identifier is matched token by token with `Like`, under which `_` matches other
identifiers.

Left out: the order of rows and duplicates among them (a result is a set),
queries that are not identifiers joined by `::`, and writers (the lock of an
open statement keeps COMMIT out while a query runs; between queries the tables
may be taken as another initial state).

### PathName, Storage and IteratorBase

`PathName` has the two passes over a path as steps: `Split` is one component with
what it does to `RangesToReplace` and `ResultLength`, `Allocate` makes the
buffer, `Copy` writes one component and its `/`, `Terminate` erases the last one.
Characters matter only as far as the code looks at them: `/`, `.` and others; NUL,
which ends a C string, is not in a file name (`IsPath`).
A write outside the buffer goes to `stray`.

`Storage` is one program that inserts rows and steps iterators in any order. Of
an iterator in memory there is `Index` (`at`), which `next` moves to the next
match in the vector as it is at that moment; of one on SQLite there is what the
open scan returns and has returned. SQLite is external: a scan returns what
matched when it began, rows inserted meanwhile may or may not be seen, a
statement stepped after its end starts again, and a step may be BUSY. Other
processes commit between scans (`OthersInsert`). `IteratorBase` knows neither
index nor statement: it counts what an iterator has produced (`got`), and what it
owes (`due`), the rows that matched when the query was made. The refinement
mapping `Open` makes `got` of `seen`, or of the matches up to `at`.

### BuildAction

Both programs in one module: `ParseArgs` (`Refuse`, `UseMemory`, `OpenFile`,
`OpenFails`), `ArgParse` of `dbgen` with one action for each kind of argument, the
loop of clang over the inputs (`Unopened`, `CreateASTConsumer`,
`HandleTranslationUnit`), and the ends (`Executed`, `PrintTables`, `Destroy`, exits and
assertions). `DB` is the `QualPtr`: an address and a bit; `alive` has the
databases that exist, `rows` the inputs (by their number) of whose units each has
rows, the file of the plugin being named by its argument. A unit goes into memory as it
is (`UnitArrives`); into a file it arrives, or BEGIN, an insertion or COMMIT fails
(`UnitFails`): it is then there or not, alone or with those `held` in a transaction that
an earlier COMMIT left open, or is held itself. The program does not learn of it: these results are
dropped (`include/context.h:152-154`, `src/context.cc:32`) or logged, and the exit status stays
what it was, so that `failed` is history. An argument is what the code makes of it (`is`, and the
`value` written with it), `CLANGDB_ENABLE_ASSERTIONS` and `-disable-free` are
chosen at the start. clang is external: it gives the plugin its arguments once,
drops it if it refuses them, and hands over a unit even if it has errors.

### UnitStore and SqliteStore

A compiler opens the file, executes the statements of `CreateTableAndIndex`
(`NObjects` of them), walks its units (BEGIN, insertions, COMMIT) and closes;
several inputs of one `clang -cc1` are several units of one compiler. A reader
opens the file the same way and runs statements that it may leave open for
ever. SQLite is external and modelled by its documented locking with a rollback
journal and no busy handler: BEGIN takes nothing, the first INSERT of a
transaction takes RESERVED or is BUSY, COMMIT needs EXCLUSIVE and, when a reader
is there, leaves the transaction open under PENDING; closing and dying roll back.
Of the compilers in `Faulty`, BEGIN may fail, a full disk may roll a
transaction back, and COMMIT may fail in any way, which rolls back or leaves the transaction
open (`CommitFails`). Which results the
code drops is read off the code: `TransactionBegin` and `Commit` are called for
their effect, a failed INSERT is logged, a failed CREATE ends the process at an
assertion.

### Builder

`_build_recurse` keeps a statement open for each declaration from the unit to
the innermost one: `stmts` holds the rows each has still to return, in no
particular order. `Yield` is one row: a typedef (skipped), a field, function or
enumerator, a namespace or record (the recursion), a text that does not parse,
or the failed assertion about enumerators. A node of the tree is the sequence of
rows that leads to it. An exception leaves the stacks as they are, and a `Builder`
that raised may be used again, up to `MaxStale` stale names. The tables do not
change during a build, because the statement of the unit holds its lock until
the end. `Resolve` is `resolve_record_type` over a finished tree, with the set of
results the order of rows allows; `Tokens` is what the tokenizer makes of a
mangled name, where the length 0 of an empty name merges with the digits behind it.

### Mangling, TypeParser and TypeCodec

`Mangling` translates `MangleType` and what it calls as one recursive function
on types and template arguments, which are records; `QualType` is the set of the
types there are, with all that they are made of, of whatever form (`Type`,
`TypeAssumption`) and depth (`DepthAssumption`: types are finite trees). A text is a sequence of pieces (letters,
numbers, names with their length), so that a property can say where it was
put together. The classes of clang's types whose text is that of another type
(typedefs, elaborated types, substituted parameters and so on) are one kind,
"sugar", of which the qualifiers matter: `isConstQualified` sees through it. The value of a
template argument is a number of a type with `range` values, and is written as
`getZExtValue` reads its bits (`Unsigned`), always with the letter of `int`. Types and names
that the writer does not survive are not among those modelled (section 6).

`TypeParser` reads one column of one row as `yield_decl` does: a type, a
member's type wrapped in a length behind an access specifier, or a member's
name with its template arguments and parameters. One action is one branch of
`Tokenizer._step` (`TakeName`, `TakeArray`, ...), `SplitEnds` decides what the
tokens are read as, and each call of `TypeParser` or `parse_template` is an
element of `calls` with the types it has got so far; `Return` and its like end
one. Here single characters matter, since a number behind a number merges with
it. Type objects are entries of `heap`: `K` and `V` change an object in place
unless it is a builtin type, which is exchanged for another one of
`_builtin_type_cache`. A reading starts from what the cache holds after earlier
columns. Every Python exception, an index out of range included, ends in the
phase `raised`.

`TypeCodec` puts the text of a declaration into a column and compares tokens
and objects with it: `Meaning` is the type as a tree, with all qualifiers of a
type at one place; what is expected of a template argument is its declared value (`ValueText`), and
of the column of a function template its return type (`ReturnIn`) before the types
of its parameters, as `include/typing.h:78-83` and `ReadMe.md:186-192` order them. It also gives `TypeParser` every short text that this plugin
never writes.

## 3. What TLC checks

| run | instance | properties |
|---|---|---|
| `walk` | into memory, 4 declarations: namespaces, at most one linkage specification, structs with at most one access specifier, fields and functions, declared, defined and first named in types anywhere; into SQLite, 2 declarations of all kinds, every call may fail | `TypeOK`, `LeaveAsserts`, `RowsNested`, `Complete`, `ScopeRestored`, `RecordedOnce`, `AccessInForce`, `SymbolsMatch`, `ImplementsNameStack`, `WritesInTransaction`, `Terminates` |
| `storage` | 2 iterators, 3 rows of 2 tables inserted before and while they run; every path of up to 6 characters of `/`, `.` and another | `InBuffer`, `Resolved`, `ImplementsIteratorBase` |
| `action` | all command lines of up to 4 arguments of every kind, up to 2 inputs of the plugin, any call into its file failing | `OneOwner`, `UnitsWhereAsked`, `InputsAsWritten` |
| `lookup` | all databases of 3 of 11 declarations, queries of 1 and 2 identifiers, failing statements | `StackTopIsLength`, `DescendsInScope`, `Answered`, `Sound`, `ImplementsNameStack`, `Answers` |
| `store` | 2 compilers, 2 units, 2 rows, 1 reader, 2 schema objects, BUSY and crashes; for one of the compilers BEGIN and COMMIT may fail and the disk be full | `NothingElseIsLost`, `StoreIsCommittedUnits`, `ImplementsUnitStore`, `BuildEnds` |
| `build` | all contents of the tables with up to 5 of 15 rows, failing statements, texts and steps, a Builder used again | `TypeOK`, `StackIsPath`, `TreeIsFromTables`, `TreeIsComplete`, `ResolveFinds`, `BuildEnds` |
| `codec` | types two constructors deep, members and record levels over types one deep, values of two types and both signs, in each kind of column, with an empty and a used cache; all texts of up to 3 of 11 letters | `CacheHonest`, `PartsAreOlder`, `OnlyBuiltinShared`, `SplitIsPieces`, `RoundTrip`, `NeverRaises`, `ReadingEnds` |

The type invariants of `Retriever`, `SqliteStore` and `TypeParser` are proved (section 5)
and not run.

*The bounds.* Four declarations are enough for a class in a class in a
namespace with something behind it, for a declaration, a mention and a
definition in three contexts, and for a nested class between a specifier and
the member it is in force for: every branch is taken below and behind every
other; a failing call meets every kind of declaration, and one behind it. With
two identifiers, names can be equal or different at each level. In
`storage`, three rows give a query two matches and a row in between that is none,
and let one of them come after the scan began, or after its end; two iterators
(symmetric: no property tells them apart) tell a query from another one that is
open. A path of six characters has two components before `..` and one behind it, or
three levels of `..`; since paths do not meet iterators, a row with a path of its
own (`Single`) goes only into an empty database that nobody queries (`Bounded`).
`NRows` and `MaxPath` are these bounds. In `action`, four arguments are an option,
what it consumes, and an input before or behind them, or two options that claim
one argument (`MaxArgs`). In `lookup`, three rows make a path of two and a rival for it, two identifiers
make the recursion go in and come back to a further row. In `store`, two
compilers of two units are the least with a unit carried over by a refused
COMMIT while another compiler wants the lock; two rows tell the first insertion,
which takes the lock, from the last; one compiler with faults and one without
(`Faulty`) tell what a fault costs its own unit from what it costs another; the locks of more processes differ from
those of three only in how many hold SHARED. In `build`, five rows reach a
depth of four with a sibling still to come in an outer statement. In `codec`,
two constructors put every one of them directly inside every other, and names
that end in digits, have the letters of types, a length of two digits or none
stand in front of every kind of piece; left out are arrays of length zero and
levels without a name above another level, which the reader does not get back
(section 4). Enumerations, templates, guides, variables and unnamed declarations are among the
two declarations of any kind only. Every action
of every module is taken in some passing run.

*Fairness.* The walk, a query, a build and the reading of a column each run on one thread that does
nothing else until they end: weak fairness of their steps. A query is typed by a user:
`Query` and `Build` (starting a build) have no fairness. In the store,
compilers that were started have weak fairness for their own steps; starting,
crashing and all a reader does have none, so that `BuildEnds` covers the reader
that keeps a statement open for ever.

*Deadlock* is not checked where the system stops: a walk has an end, processes
end (`store`, `action`), a column has been read, and a Builder is not used again beyond `MaxStale`. The lookup must always be
ready for a query and a database for a call, and deadlock is checked there.

*Variants.* Operators whose comment begins with "Variant:" are not part of a
specification. Each is a plausible mistake in the operator below it (a
dropped pop, a swapped order, a missing guard) and shows that a property is
able to fail; `PROJECT.json` pairs them, one for each property of each passing run.

## 4. Where code and intent disagree

Five runs end with a violation, each of one property that states what the
repository says of itself.

| run | what it shows |
|---|---|
| `unnamed_struct` | A record without a name has no injected-class-name; the declaration `IterateClass` skips as "the struct/class body" is then its first member, which is lost. |
| `class_whole_name` | A struct first named in the type of a member is recorded as a member of the class, not under its whole name. |
| `leak` | When the bind of the prefix statement fails, `Yield` leaves its `%` on the stack; its caller pops only that and the lookup goes on below the wrong scope. |
| `open_asserts` | Two compilers started on a file without tables: the second finds CREATE TABLE BUSY and ends at an assertion. |
| `enum_outside` | An unnamed struct and an unnamed enumeration of one scope have the same whole name, `0`: the builder is given the enumerators as members of the struct and ends at its assertion. |

Noticed while modelling, without a run of their own: a function with C linkage is
recorded under the plain name of its namespace although the documentation
describes an `extern` level (`include/context.h:167`); members of an explicit
specialisation are recorded under a name that types do not use
(`include/context.h:174`); a failed row of a namespace is dropped silently
(`src/context.cc:32`), and so are failed calls of BEGIN and COMMIT (`include/context.h:152-154`): the
plugin may exit with 0 and without a message, and its file lack the unit, or part of it, which
`NothingElseIsLost` and `UnitsWhereAsked` state as it is; once a query has one result, prefixes are not tried for
later members (`bin/retrieve.cc:121`), although the comment above speaks of each;
the "precise" lookup uses LIKE, with its wildcards and its indifference to case
(`bin/retrieve.cc:150`); a reader of a missing file stops at an assertion before the
message meant for that case can be printed (`bin/retrieve.cc:308`); the tokenizer
loses a level without a name, and a parameter pack without one (`clang_db/parsing.py:142`) and the length of an
array of length zero (`clang_db/parsing.py:191`); a type column that begins with
`decltype(nullptr)`, `Dn`, is split into a destructor and an `n`, and raises
(`clang_db/parsing.py:165` comes before `:172`), which is the one exception
`NeverRaises` names; the builder takes the return type of a function template,
which the writer puts in front of the parameters (`include/typing.h:78-83`),
for its first parameter (`clang_db/builder.py:113`; `ReadMe.md:186-192` and
`test/typeop_test.cc:197-202` keep the two apart, and `RoundTrip` expects it as the return type);
the value of a template argument loses its sign and its type, so that `S<-1>` is written
`Li4294967295E`, read back as `S<4294967295>`, and `S<true>` as `S<1>`
(`src/typing.cc:250-255`; `RoundTrip` excepts negative values and asks for no type); `ls` stands for both `<<` and `<` (`clang_db/parsing.py:44-45`); the
access of a record is overwritten by that of its base classes
(`clang_db/builder.py:55-57`).

Of the databases and paths: a leading `..` is dropped, so that `../x.h` and `x.h` have
one name, and of a relative path of which nothing remains the final `/` is
erased before the buffer (`include/common.h:112`; such a path can come from `#line` only);
the path of the root becomes empty; SQLite normalises the path of a symbol, the
in-memory database does not, so that one file has a different name in each;
the documentation of the queries says `FROM class` for `QuerySymbol` (`include/storage.h:154`)
and `<>` where the code compares with `=` (`include/storage.h:189`); after its end an iterator in memory goes on
with rows inserted later, one on SQLite starts the query again. Running the
plugin twice on one file inserts all rows twice: nothing is unique in the schema.

Of the programs: units are written even for inputs with errors; without `-o=` the
plugin fills an in-memory database that nobody reads; a failed creation of the
schema is ignored when assertions are off, and only then the failure branch of
`ParseArgs` can be reached; under `-add-plugin` (`script/ci-reg-test.sh:22` and
the documentation at `src/ast.cc:72` use `-plugin`) clang would destroy the action, and its database,
before the consumer runs; `dbgen -`, an example in the header of `bin/dbgen.cc`, is refused as
an unknown argument; `-o` of `dbgen` is stored and not used; a missing input ends in
`ErrorOr::get`; `-std=c89` selects C99; language options follow `-x` and `-std=` of
the command line, never the suffix of an input. Of the bindings: the constructor
of `SQLite3` leaks its handle when opening fails; the move constructor of
`SQLite3Stmt` leaves `bound_objects` behind; `sqlite3py_open` reads its second argument
when it was given one; `check-db.py` closes the database under open statements.
An unnamed class that begins with an access specifier loses it, as it loses a
first member (`src/context.cc:89`).

## 5. What is proved

The theorems hold for every syntax tree, every content of the tables, every
query, command line and path, every number of processes, units, iterators and rows,
under the named assumptions of the modules. These fix types and little more: a member
column is not empty (which follows from `EncodeNs`), a unit and a row number are
positive, a file name has no NUL, `TreeAssumption`, `GrammarAssumption` and
`ListAssumption` are what clang promises of a tree.

Several properties compare the end of a loop with a recursive definition over
all of its input: the rows that a query leads to, the rows below a declaration of
the tree, the name of a path. The library's induction theorems take an operator
as a parameter, which the provers cannot instantiate; `Induction` derives from the
minimal element of a well-founded set the same facts about sets and functions:
`InductionOnNat`, and `Iteration`, by which a function defined by recursion exists
and satisfies its equation. So what a recursive *function* yields can be proved.

* **DatabaseContext_proofs.** `StackCoherent` is inductive: the three stacks
  have one height, and each prefix of `WholeName` cut at a length is the text
  that activation started with. From it: `LeaveAssertsHold`,
  `ScopeIsRestored` and `ContextImplementsNameStack` (each action is an `Enter`, a
  `Leave`, a `Clear` or a stutter of `NameStack`). It is needed because the text is
  stored once: restoring a level cuts the string at `NameSizes[Level - 2]`, which is
  right only if nothing below was touched. `TypeCorrect` includes that each
  row of `class` has an access. Of the tables:
  `WritesAreInTransaction`, since the flag is set from the constructor to the
  destructor (`Begun`); `EachRecordedOnce`, since a class or function whose row was
  tried has been visited, and none is tried again (`RowsSeen`); `TablesAreTree`,
  from `Placed`: the scope an activation started with is that of a row that was tried,
  and what it has still to visit is declared there; `MembersHaveAccess`, from
  `InForce`: the local `Access` is what the specifiers before the iterator say. They
  use one lemma on the walk, `RowActionTries`: an action that tries rows tries that of
  one declaration and its symbol. `SymbolsMatchRows` needs that no declaration is tried
  twice, or a symbol could fail whose row has one already. For classes and functions
  that is what the visited sets are for (`HandledSeen`); for all others it follows from
  the order of the walk (`OnceEach`): some set of declarations is still ahead
  (`Ahead`), in it is what the open loops will come to and what is declared in anything
  ahead or in a class not visited yet, and nothing in it has been tried. That each step
  leaves such a set needs that clang has a declaration in the list of one context
  (`ListAssumption`). All of this for all failures. `WalkFindsAll` is the other direction of `EachRecordedOnce`: at the
  end of a walk the declarations with a row, or with one tried in vain, are all of those
  that the definition `Found` reaches over the tree, and no others. `Found` is a
  recursion in rounds; it is proved to be the least set with the unit that has what its
  elements hold (`FoundShut`, `FoundLeast`). Nothing tried is outside of any such set
  (`InEvery`); in the other direction a set of declarations is closed but for what open
  activations have still to visit (`Covering`), and at the end nothing is.
  Three hypotheses are on the tree: `Unspecialised` (no record has
  template arguments in its member column) for `TablesAreTree`, `SkipsNoSpecifier` (no
  class begins with an access specifier) for `MembersHaveAccess`, and `BodiesFirst` (a
  record that has members has its injected-class-name before them) for `WalkFindsAll`;
  section 4 says what happens to others, and the run `unnamed_struct` shows what the
  last one excludes.
* **Retriever_proofs.** `RetrieverInvariant` (the comment of `StringStack`) and
  `RetrieverImplementsNameStack`, whatever fails; `DescentIsNested` if the bind of the prefix
  statement cannot fail, from the invariant `ScopesOpen`: each activation's
  scope is the stack's text at its level. The run `leak` shows the
  condition cannot be dropped, and the proof that it is the only one.
  `LinesAreAsked` (`Sound`) needs the same condition: every open scope is one to which a
  beginning of the query leads (`Linked`). `QueryIsAnswered` (`Answered`) needs none
  but that of the property, a search in which no call failed: of each path of rows that
  the query leads along, the last one has been printed, or an open activation has still
  to enter a row of it, or its first scope is still to be tried (`Covered`).
* **SqliteStore_proofs.** `StoreIsCommitted` and `StoreImplementsUnits`, for any set
  of compilers with faults: what they say is said of the units of the others. The
  inductive invariant `StoreInv` says where
  each compiler is (`Places`), that it is in a transaction while it walks
  (`InTransaction`), that only rows already tried are lost (`LostWasTried`), what a
  transaction holds (`Holds`), and that losses come before the first success of
  a unit (`LostFirst`), because RESERVED once taken is kept until COMMIT.
  `StoreTyped` and `NothingElseIsEverLost` hold for the units of all, whatever fails. For the
  latter `Kept` says of each row already tried that it is in the file, in the transaction
  still open, lost by its own insertion, or followed by a failure (`FailedAfter`), and what
  has failed stays so (`FailuresStay`): a refused COMMIT concerns all that is held, which is
  of its unit or of earlier ones.
* **Storage_proofs.** `PathInBuffer`: what `NormalizePathName` copies and the `/` behind it
  fit, for every path. The history variable `used` adds up the ranges that are
  kept; it stays at most `ResultLength` (`Measured`), which still counts those that
  `..` has dropped, and `dest` is at most `used` and one `/` for each (`Fits`).
  `IteratorsKeepPromise`: each step of either database is a step of `IteratorBase` or a
  stutter, from `Served`: what an iterator owes still matches its query, is in the
  base of its scan while the first one is open, and `Index` is at most the number of rows.
  `NameIsResolved` (`Resolved`): the first pass pops on `..` what it kept last, while
  `Survivors` counts, for each component, the `..` and the components behind it. The
  invariant between the two is `Remain`: in front of position `at`, the ranges kept are the
  components that survive so far (`Standing`), in order, and behind the j-th of them
  there are as many more components than `..` as ranges kept behind it. The second pass has in the
  buffer, up to `dest`, the name joined up to the component it is at, and no NUL (`Naming`).
* **BuildAction_proofs.** `EachHasOneOwner`: the bit is set exactly when the database
  behind the address is the action's to delete (`Owners`), also when the address is
  left there after the database was deleted. `UnitsArrive`: at each input, what is in the
  database of the consumer and what is held in its transaction are, one after the
  other, units of inputs before it, each once and in order (`UpTo`), all of them if nothing
  has failed (`Numbers`), and nothing is anywhere else (`Handled`). `InputsAreAsWritten`: at each argument, the inputs so far are those of the
  arguments read, each with the language in force at its place (`ParsedTo`, `LanguageTo`);
  which arguments are consumed by the option before them is a recursion over all of
  them (`Alternation` of `Induction`).
* **Builder_proofs.** `StacksArePaths`, `TreeComesFromTables` and `TreeIsWhole`, for all
  faults.
  `StackIsPath` says the two stacks are functions of the innermost declaration;
  it becomes inductive with `Open`, which says that what each open statement has
  still to return belongs to the declaration at its level. `TreeIsWhole` is the
  other direction: what the tables have below a declaration of the tree is there, or
  an open statement owes it (`Covered`). What the joined
  name of a stack is plays no part in these. `RecordsAreFound` (`ResolveFinds`): in a tree
  every declaration around another one is there and is a context (`Descends`), so that
  each token leads from one declaration of the path to the next one and, as no other
  context has its name, to no other.
* **TypeCodec_proofs**, of the parser. `ParserTyped`, `CacheStaysHonest`, `PartsStayOlder` and
  `OnlyBuiltinIsShared`, for
  every text, malformed ones included, and any content of the cache that
  `CachedAssumption` allows (no key twice). The inductive invariant `IInv` adds
  that what calls have got are existing objects (`CallsOK`), that a builtin type has
  one name, and that the outermost call is one of `yield_decl`'s (`Rooted`), so
  that no other returns without a caller. For sharing, `Owned`: a type that is not
  builtin has one place among objects, calls and results. Each `Yield` moves it
  (`Handed`), from the call that got it to a part of a new object or, qualified, to the
  call before; only builtin types are taken from the cache.
* **TypeCodec_proofs**, of the tokenizer. `SplittingFindsThePieces` (`SplitIsPieces`), for
  all types and declarations, not those of an instance: `QualType` and `Argument` are any
  sets of types and arguments with what they are made of. The writer comes first. By
  induction on the depth of types, what is mangled is a list of pieces in which brackets
  balance, each piece is of a kind that may stand where it does (`Move`, a little automaton:
  in a value there is a type and then a number, behind `A` a length or the underscore), and
  no length 0 is followed by a digit (`Meets`; `MangledFine`). The reader then goes
  along: `SplitInv` says it is between two pieces, with a stack and tokens that are those
  of the pieces before it (`AtPiece`), and `PieceStep` that the branch it takes at a piece is
  the one that takes it whole, since the classes of letters are disjoint, `std::to_string`
  and `int` go together (`NumberOfDecimal`), and a name does not begin with a digit. A
  nested type is a word that is read in its turn (`NestedTokens`). Where something without a
  name is followed by a digit the statement is false (section 4), and
  `DeclarationAssumption` excludes just these (`NamesApart`, `ParmApart`).

What remains with TLC. Liveness (`Terminates`, `Answers`, `ReadingEnds`, the two
`BuildEnds`): fairness and ENABLED are beyond the prover. `RoundTrip`
and `NeverRaises` say what the parser makes of the tokens: their first half, the
tokens, is proved, and that splitting does not raise; that the calls of the parser build
the tree `Meaning` of the type is not. `RowsNested` with specialisations, whose members are entered under
the name without the arguments (section 4), is not so: the hypothesis `Unspecialised`
cannot be dropped. Every other
property of a passing run is a theorem.

## 6. What is not modelled

* Of the writer, its own ends: a class local to a function (`src/typing.cc:229-231`) and an
  operator that has no letters (`src/typing.cc:390-393`) end the plugin (the one at an assertion, the other in `abort`) before anything of
  them is written. Types and names like these are not among those of `Mangling`.
* Of types: formatting (`fmt`, `_fmt_lh`, `_fmt_rh`), the replacement of unresolved
  types in place (`fix_unresolved`), base class lists, template aliases. In the
  walk, the lookup and the builder, tokens stand for types.
* Of the databases: how long the keys of a query live, which are string views in
  memory and bound without a copy in SQLite (`SQLITE_STATIC`); the callers in the
  repository keep them.
* Of `dbgen`: the options that clang gets unread (`-D`, `-I`, `-include`), and of the
  language options all but `CPlusPlus`. Of clang: everything between the calls.
* Of `sqlite_cxx.hh`, the ownership of statements and handles, and the Python
  binding, which is one conversion around one call each. What could go wrong
  there is the life of bound Python values, which goes through `cppbind`, a library
  that is not in the repository: a model would be of a guess. `pyptr` likewise.
* Scripts, build files, tests and GoogleTest.

## 7. Plan

1. *Done:* walk, lookup, store, builder and the text of types, with `NameStack` and
   `UnitStore`; paths, iterators with `IteratorBase`, plugin and `dbgen`.
2. *Done:* the proofs of section 5.
3. `FixUnresolved`: the walk over the type objects of a tree that replaces the
   unresolved ones, over the `heap` of `TypeParser`, and base class lists.
4. Proofs: that the parser builds `Meaning` of the tokens (`RoundTrip`), by the calls that
   are open for each part of a type.
