----------------------------- MODULE SqliteStore -----------------------------
(***************************************************************************)
(* The database file and the processes that share it: compilers that run   *)
(* the plugin, each over one or more translation units, and readers        *)
(* (bin/retrieve, or a Python program, which keeps a statement open for as *)
(* long as it likes).  One action is one call into SQLite.                 *)
(*                                                                         *)
(* SQLite is external: a rollback journal and the locks of its file,       *)
(* NONE < SHARED < RESERVED < PENDING < EXCLUSIVE.  No busy handler is set *)
(* anywhere in clang-db, so a lock that cannot be had at once is an error, *)
(* BUSY.  BEGIN takes no lock; the first INSERT takes RESERVED, or gives   *)
(* up without keeping any; COMMIT needs EXCLUSIVE, and when readers hold   *)
(* SHARED it leaves the transaction open with PENDING, which shuts out new *)
(* readers; a full cache is written out under the same lock; closing the   *)
(* file, or dying, rolls back.  Reading for the schema holds SHARED only   *)
(* within one call.                                                        *)
(***************************************************************************)
EXTENDS Integers

CONSTANTS
  Compiler, Reader,
  NUnits,         \* translation units of a compiler
  NRows,          \* insertions of a unit
  NObjects,       \* tables and indices of the schema; six in the code
  Faulty          \* compilers that meet other failures than BUSY: of BEGIN,
                  \* of COMMIT, or a full disk

ASSUME SizeAssumption ==
  NUnits \in Nat \ {0} /\ NRows \in Nat \ {0} /\ NObjects \in Nat \ {0}
ASSUME ProcessAssumption == Compiler \cap Reader = {}
ASSUME FaultAssumption == Faulty \subseteq Compiler

Process == Compiler \cup Reader
Row     == Compiler \X (1..NUnits) \X (1..NRows)

None == 0   Shared == 1   Reserved == 2   Pending == 3   Exclusive == 4
NoFile == -1

VARIABLES
  schema,     \* how many objects of the schema there are
  stored,     \* the rows a reader sees
  lock,       \* of each process on the file
  pc,
  object,     \* the statement of CreateTableAndIndex a process is at
  unit, row,  \* the unit of a compiler, and its insertion, that come next
  tx,         \* the compilers that have a transaction open
  held,       \* their rows in it
  lost,       \* the rows whose insertion failed
  refused,    \* << compiler, unit >> of the COMMITs that failed
  done        \* the last unit of a compiler that was committed

vars == << schema, stored, lock, pc, object, unit, row, tx, held, lost,
           refused, done >>

Stopped == {"ended", "aborted", "crashed"}

TypeOK ==
  /\ schema \in NoFile..NObjects
  /\ stored \subseteq Row
  /\ lock \in [Process -> None..Exclusive]
  /\ pc \in [Process -> {"off", "schema", "creating", "begin", "walk", "close",
                         "idle", "reading"} \cup Stopped]
  /\ object \in [Process -> 1..(NObjects + 1)]
  /\ unit \in [Compiler -> 1..(NUnits + 1)]
  /\ row \in [Compiler -> 1..(NRows + 1)]
  /\ tx \subseteq Compiler
  /\ held \in [Compiler -> SUBSET Row]
  /\ lost \subseteq Row
  /\ refused \subseteq Compiler \X (1..NUnits)
  /\ done \in [Compiler -> 0..NUnits]

(* The first start on a fresh path, or on a file that is complete.         *)
Init ==
  /\ schema \in {NoFile, NObjects}
  /\ stored = {} /\ lost = {}
  /\ lock = [p \in Process |-> None]
  /\ pc = [p \in Process |-> "off"]
  /\ object = [p \in Process |-> 1]
  /\ unit = [c \in Compiler |-> 1] /\ row = [c \in Compiler |-> 1]
  /\ tx = {} /\ refused = {}
  /\ held = [c \in Compiler |-> {}]
  /\ done = [c \in Compiler |-> 0]

Others(p, level) == \E q \in Process \ {p} : lock[q] >= level

-----------------------------------------------------------------------------
(* SqliteDatabase::SqliteDatabase: the file is opened, and made unless the *)
(* flags are those of a reader; then come the statements of                *)
(* CreateTableAndIndex, each a transaction of its own.  Whatever of this   *)
(* fails, an assertion ends the process.                                   *)
(***************************************************************************)
schemaUnits == << unit, row, tx, held, lost, refused, done >>

Abort(p) ==
  /\ pc' = [pc EXCEPT ![p] = "aborted"]
  /\ lock' = [lock EXCEPT ![p] = None]
  /\ UNCHANGED << schema, stored, object, schemaUnits >>

Open(p) ==
  /\ pc[p] = "off"
  /\ p \in Compiler \/ schema # NoFile
  /\ schema' = IF schema = NoFile THEN 0 ELSE schema
  /\ pc' = [pc EXCEPT ![p] = "schema"]
  /\ UNCHANGED << stored, lock, object, schemaUnits >>

OpenFails(r) ==
  /\ pc[r] = "off" /\ schema = NoFile
  /\ Abort(r)

NextObject(p) ==
  /\ object' = [object EXCEPT ![p] = @ + 1]
  /\ pc' = [pc EXCEPT ![p] = IF object[p] < NObjects THEN "schema"
                             ELSE IF p \in Compiler THEN "begin" ELSE "idle"]

(* IF NOT EXISTS: the schema is read, nothing else.                        *)
CreateKnown(p) ==
  /\ pc[p] = "schema" /\ object[p] <= schema
  /\ ~Others(p, Pending)
  /\ NextObject(p)
  /\ UNCHANGED << schema, stored, lock, schemaUnits >>

CreateStart(c) ==
  /\ pc[c] = "schema" /\ object[c] > schema
  /\ ~Others(c, Reserved)
  /\ lock' = [lock EXCEPT ![c] = Reserved]
  /\ pc' = [pc EXCEPT ![c] = "creating"]
  /\ UNCHANGED << schema, stored, object, schemaUnits >>

CreateEnd(c) ==
  /\ pc[c] = "creating"
  /\ ~Others(c, Shared)
  /\ schema' = object[c]
  /\ lock' = [lock EXCEPT ![c] = None]
  /\ NextObject(c)
  /\ UNCHANGED << stored, schemaUnits >>

CreateFails(p) ==
  /\ \/ pc[p] = "schema" /\ object[p] <= schema /\ Others(p, Pending)
     \/ pc[p] = "schema" /\ object[p] > schema /\ (p \in Reader \/ Others(p, Reserved))
     \/ pc[p] = "creating" /\ Others(p, Shared)
  /\ Abort(p)

-----------------------------------------------------------------------------
(* One translation unit: the constructor of DatabaseContext, the           *)
(* insertions of its walk, its destructor.                                 *)
(***************************************************************************)
(* Variant: no BEGIN.                                                      *)
NoTransactionBegin(c) ==
  /\ pc[c] = "begin"
  /\ pc' = [pc EXCEPT ![c] = "walk"]
  /\ UNCHANGED << schema, stored, lock, object, unit, row, tx, held, lost, refused, done >>

(* The result of BEGIN is dropped.  It fails when the transaction of the   *)
(* unit before is still open.                                              *)
TransactionBegin(c) ==
  /\ pc[c] = "begin"
  /\ \/ tx' = tx \cup {c}
     \/ c \in Faulty /\ tx' = tx
  /\ pc' = [pc EXCEPT ![c] = "walk"]
  /\ UNCHANGED << schema, stored, lock, object, unit, row, held, lost, refused, done >>

AtInsert(c)  == pc[c] = "walk" /\ row[c] <= NRows
This(c)      == << c, unit[c], row[c] >>
NextRow(c)   == row' = [row EXCEPT ![c] = @ + 1]

(* Without a transaction every insertion is one.                           *)
CanWrite(c) ==
  IF c \in tx THEN lock[c] >= Reserved \/ ~Others(c, Reserved)
           ELSE ~Others(c, Shared)

(* The lock after an insertion: the cache may have filled, and been        *)
(* written out, or not because of the readers.                             *)
Grown(c) ==
  {IF lock[c] < Reserved THEN Reserved ELSE lock[c],
   IF Others(c, Shared) THEN Pending ELSE Exclusive}

Insert(c) ==
  /\ AtInsert(c) /\ c \in tx /\ CanWrite(c)
  /\ held' = [held EXCEPT ![c] = @ \cup {This(c)}]
  /\ \E l \in Grown(c) : lock' = [lock EXCEPT ![c] = l]
  /\ NextRow(c)
  /\ UNCHANGED << schema, stored, pc, object, unit, tx, lost, refused, done >>

InsertAlone(c) ==
  /\ AtInsert(c) /\ c \notin tx /\ CanWrite(c)
  /\ stored' = stored \cup {This(c)}
  /\ NextRow(c)
  /\ UNCHANGED << schema, lock, pc, object, unit, tx, held, lost, refused, done >>

(* BUSY: the row is lost, and the walk goes on.                            *)
InsertBusy(c) ==
  /\ AtInsert(c) /\ ~CanWrite(c)
  /\ lost' = lost \cup {This(c)}
  /\ NextRow(c)
  /\ UNCHANGED << schema, stored, lock, pc, object, unit, tx, held, refused, done >>

(* The disk is full: only the statement is rolled back, or all of the      *)
(* transaction, after which there is none.                                 *)
InsertFull(c) ==
  /\ c \in Faulty
  /\ AtInsert(c) /\ CanWrite(c)
  /\ lost' = lost \cup {This(c)}
  /\ \/ /\ c \in tx
        /\ lock' = [lock EXCEPT ![c] = IF @ < Reserved THEN Reserved ELSE @]
        /\ UNCHANGED << tx, held >>
     \/ /\ lock' = [lock EXCEPT ![c] = None]
        /\ tx' = tx \ {c}
        /\ held' = [held EXCEPT ![c] = {}]
  /\ NextRow(c)
  /\ UNCHANGED << schema, stored, pc, object, unit, refused, done >>

NextUnit(c) ==
  /\ pc' = [pc EXCEPT ![c] = IF unit[c] < NUnits THEN "begin" ELSE "close"]
  /\ unit' = [unit EXCEPT ![c] = @ + 1]
  /\ row' = [row EXCEPT ![c] = 1]
  /\ UNCHANGED << schema, object, lost >>

AtCommit(c) == pc[c] = "walk" /\ row[c] > NRows

(* Variant: the destructor leaves the transaction to the connection.       *)
NoCommit(c) ==
  /\ AtCommit(c) /\ c \in tx
  /\ NextUnit(c)
  /\ UNCHANGED << stored, lock, tx, held, refused, done >>

Commit(c) ==
  /\ AtCommit(c) /\ c \in tx
  /\ lock[c] < Reserved \/ ~Others(c, Shared)
  /\ stored' = stored \cup held[c]
  /\ held' = [held EXCEPT ![c] = {}]
  /\ lock' = [lock EXCEPT ![c] = None]
  /\ tx' = tx \ {c}
  /\ done' = [done EXCEPT ![c] = unit[c]]
  /\ NextUnit(c)
  /\ UNCHANGED refused

(* Variant: COMMIT is tried until the readers are gone.                    *)
CommitBusyAgain(c) ==
  /\ AtCommit(c) /\ c \in tx
  /\ lock[c] >= Reserved /\ Others(c, Shared)
  /\ lock' = [lock EXCEPT ![c] = Pending]
  /\ refused' = refused \cup {<< c, unit[c] >>}
  /\ UNCHANGED << schema, stored, pc, object, unit, row, tx, held, lost, done >>

(* BUSY.  This result is dropped as well; the transaction stays open.      *)
CommitBusy(c) ==
  /\ AtCommit(c) /\ c \in tx
  /\ lock[c] >= Reserved /\ Others(c, Shared)
  /\ lock' = [lock EXCEPT ![c] = Pending]
  /\ refused' = refused \cup {<< c, unit[c] >>}
  /\ NextUnit(c)
  /\ UNCHANGED << stored, tx, held, done >>

(* Any other failure, whose result is dropped too: SQLite rolls back, as   *)
(* for a full disk, or COMMIT could not even be prepared.                  *)
CommitFails(c) ==
  /\ c \in Faulty
  /\ AtCommit(c) /\ c \in tx
  /\ \/ UNCHANGED << lock, tx, held >>
     \/ /\ lock' = [lock EXCEPT ![c] = None]
        /\ tx' = tx \ {c}
        /\ held' = [held EXCEPT ![c] = {}]
  /\ refused' = refused \cup {<< c, unit[c] >>}
  /\ NextUnit(c)
  /\ UNCHANGED << stored, done >>

CommitNothing(c) ==
  /\ AtCommit(c) /\ c \notin tx
  /\ NextUnit(c)
  /\ UNCHANGED << stored, lock, tx, held, refused, done >>

(* The connection goes away, and with it what was not committed.           *)
GoneTo(c, end) ==
  /\ pc' = [pc EXCEPT ![c] = end]
  /\ lock' = [lock EXCEPT ![c] = None]
  /\ tx' = tx \ {c}
  /\ held' = [held EXCEPT ![c] = {}]
  /\ UNCHANGED << schema, stored, object, unit, row, lost, refused, done >>

Close(c) == pc[c] = "close" /\ GoneTo(c, "ended")

Crash(c) == pc[c] \notin {"off"} \cup Stopped /\ GoneTo(c, "crashed")

-----------------------------------------------------------------------------
(* A statement of a reader, from its first row to its end.  One that comes *)
(* while PENDING is held is BUSY, which looks to its reader like no rows.  *)
(***************************************************************************)
StartRead(r) ==
  /\ pc[r] = "idle" /\ ~Others(r, Pending)
  /\ lock' = [lock EXCEPT ![r] = Shared]
  /\ pc' = [pc EXCEPT ![r] = "reading"]
  /\ UNCHANGED << schema, stored, object, schemaUnits >>

EndRead(r) ==
  /\ pc[r] = "reading"
  /\ lock' = [lock EXCEPT ![r] = None]
  /\ pc' = [pc EXCEPT ![r] = "idle"]
  /\ UNCHANGED << schema, stored, object, schemaUnits >>

-----------------------------------------------------------------------------
(* What a compiler does once it has been started.                          *)
Build(c) ==
  \/ CreateKnown(c) \/ CreateStart(c) \/ CreateEnd(c) \/ CreateFails(c)
  \/ TransactionBegin(c)
  \/ Insert(c) \/ InsertAlone(c) \/ InsertBusy(c) \/ InsertFull(c)
  \/ Commit(c) \/ CommitBusy(c) \/ CommitFails(c) \/ CommitNothing(c)
  \/ Close(c)

Read(r) ==
  \/ Open(r) \/ OpenFails(r) \/ CreateKnown(r) \/ CreateFails(r)
  \/ StartRead(r) \/ EndRead(r)

Next ==
  \/ \E c \in Compiler : Open(c) \/ Build(c) \/ Crash(c)
  \/ \E r \in Reader : Read(r)

Fairness == \A c \in Compiler : WF_vars(Build(c))

Spec == Init /\ [][Next]_vars /\ Fairness

-----------------------------------------------------------------------------
(* What readers find of a compiler that meets no failure but BUSY is what   *)
(* it kept of the units it has committed: nothing of a unit still being    *)
(* walked, or given up, and of a committed one every row whose insertion   *)
(* gave no error, even beside a compiler that writes without a transaction *)
(* or loses one to a full disk.  A unit whose COMMIT was refused comes     *)
(* with the next one that is committed.  This is what the transaction of   *)
(* DatabaseContext is for (context.h:151-154).                             *)
Sound(rows) == {r \in rows : r[1] \notin Faulty}

StoreIsCommittedUnits ==
  Sound(stored) = {r \in Sound(Row) : r[2] <= done[r[1]]} \ lost

(* The file implements, for these compilers, UnitStore: units appear       *)
(* whole, in order, and of each the insertions that failed are the first   *)
(* ones, since who has once inserted keeps the write lock until COMMIT.    *)
Units == INSTANCE UnitStore WITH
  Compiler <- Compiler \ Faulty,
  stored <- Sound(stored),
  done <- [c \in Compiler \ Faulty |-> done[c]]
ImplementsUnitStore == Units!Spec

(* A row that a compiler which ends has not left in the file was lost by  *)
(* its own insertion, or by a failure that came after it: of a later       *)
(* insertion, which took the transaction with it, or of the COMMIT of its  *)
(* unit or of a later one.  What comes after a failure pays nothing for    *)
(* it.  Failed insertions are reported, but for those of a namespace       *)
(* (context.cc:32); a failed COMMIT never is (context.h:154), so that a    *)
(* whole unit can be missing with neither a message nor an exit status.    *)
Later(q, r) == q[1] = r[1] /\ (q[2] > r[2] \/ (q[2] = r[2] /\ q[3] > r[3]))
FailedAfter(r) ==
  \/ \E q \in lost : Later(q, r)
  \/ \E u \in r[2]..NUnits : << r[1], u >> \in refused

NothingElseIsLost ==
  \A r \in Row :
    pc[r[1]] = "ended" /\ r \notin stored => r \in lost \/ FailedAfter(r)

(* A compilation is not held up by the others, nor by a reader that keeps  *)
(* a statement open for ever: nothing waits for a lock (storage.cc:24, 46).*)
BuildEnds == \A c \in Compiler : pc[c] = "schema" ~> pc[c] \in Stopped

(* No compiler stops at the assertion "Failed to execute statement"        *)
(* (storage.cc:109).                                                       *)
AssertsHold == \A c \in Compiler : pc[c] # "aborted"

=============================================================================
