-------------------------------- MODULE Driver --------------------------------
(***************************************************************************)
(* main's loop over the files of the command line, the file table that     *)
(* SourceManager keeps, and the linking of imported modules                *)
(* (src/main.cc, src/frontend/SourceManager.cc, the import lines of        *)
(* Parser::parseProgram, the constructor of CodeGenVisitor).               *)
(*                                                                         *)
(* A unit is one argument of the command line, named by its place there.   *)
(* An argument is a path of which only the file name matters here; the file*)
(* m.obw holds module m.  An llvm::Module is the set of units whose code it*)
(* holds.  What the files import is found out when they are parsed.        *)
(***************************************************************************)
EXTENDS Integers, Sequences

CONSTANTS
  File,        \* names of files and modules
  MaxArg,      \* bound: arguments of the command line
  MaxImport    \* bound: import lines of a file

ASSUME DriverAssumption == MaxArg \in Nat /\ MaxImport \in Nat

VARIABLES
  args,      \* the file names of the command line
  todo,      \* in phase "add" the last argument added, later the one being compiled
  files,     \* SourceManager::files
  phase,     \* where main is
  buff,      \* SourceBuffer::id of the unit being compiled
  imports,   \* the import lines read in it
  known,     \* the modules that GlobalTypeTable::types has an entry for
  queue,     \* the files that CodeGenVisitor's constructor still has to link
  code,      \* CodeGenVisitor::module
  mains,     \* the units that declared a class Main; the type outlives them
  creators,  \* the units that define Main_Create, its constructor without arguments
  object,    \* what was written for each unit
  there      \* the arguments whose file can be opened

vars ==
  <<args, todo, files, phase, buff, imports, known, queue, code, mains, creators, object, there>>

NoModule == {}   \* a null unique_ptr: every module holds the code of some unit

FileData(f) == [name |-> f, included |-> << >>, module |-> NoModule]
NoObject == [imports |-> << >>, code |-> {}]

Provided(f) == \E k \in 1 .. Len(files) : files[k].name = f
Lookup(f) == CHOOSE k \in 1 .. Len(files) : files[k].name = f   \* there is one

\* addFile and readSource: a file is known by its name, whatever its directory.
WithFile(f) == IF Provided(f) THEN files ELSE Append(files, FileData(f))

\* files[id - (files.size() - 1)], whose includedFiles stand for the unit's, and
\* files[id], which holds its module.
Includer == buff - (Len(files) - 1) + 1
Holder == buff + 1

Init ==
  /\ args \in UNION {[1 .. n -> File] : n \in 0 .. MaxArg}
  /\ todo = 0
  /\ files = << >>
  /\ phase = "add"
  /\ buff = 0
  /\ imports = << >>
  /\ known = {}
  /\ queue = << >>
  /\ code = {}
  /\ mains = {}
  /\ creators = {}
  /\ object = [u \in 1 .. Len(args) |-> NoObject]
  /\ there = 1 .. Len(args)

\* An exception that main does not catch, or a null or past-the-end pointer.
Fail ==
  /\ phase' = "failed"
  /\ UNCHANGED <<args, todo, buff, known, queue, code, creators, object, there>>

\* Not a step of the program: a file that it has still to open goes, or never was.
LoseFile(u) ==
  /\ phase \in {"add", "read"}
  /\ u \in there
  /\ phase = "read" => u <= todo
  /\ there' = there \ {u}
  /\ UNCHANGED <<args, todo, files, phase, buff, imports, known, queue, code, mains, creators,
                 object>>

AddFile ==
  /\ phase = "add"
  /\ todo < Len(args)
  /\ todo + 1 \in there
  /\ files' = WithFile(args[todo + 1])
  /\ todo' = todo + 1
  /\ UNCHANGED <<args, phase, buff, imports, known, queue, code, mains, creators, object,
                 there>>

\* addFile throws before it looks at the table.
AddFileThrows ==
  /\ phase = "add"
  /\ todo < Len(args)
  /\ todo + 1 \notin there
  /\ Fail
  /\ UNCHANGED <<files, imports, mains>>

\* The second loop counts down from the last argument.
StartCompiling ==
  /\ phase = "add"
  /\ todo = Len(args)
  /\ phase' = "read"
  /\ UNCHANGED <<args, todo, files, buff, imports, known, queue, code, mains, creators,
                 object, there>>

\* Mutation: the id is the size of the table.
ReadSourceSize ==
  /\ phase = "read"
  /\ todo > 0
  /\ todo \in there
  /\ files' = WithFile(args[todo])
  /\ buff' = Len(files')
  /\ imports' = << >>
  /\ code' = {}
  /\ phase' = "parse"
  /\ UNCHANGED <<args, todo, known, queue, mains, creators, object, there>>

ReadSource ==
  /\ phase = "read"
  /\ todo > 0
  /\ todo \in there
  /\ files' = WithFile(args[todo])
  /\ buff' = Len(files') - 1
  /\ imports' = << >>
  /\ code' = {}
  /\ phase' = "parse"
  /\ UNCHANGED <<args, todo, known, queue, mains, creators, object, there>>

\* readSource opens the file once more; the import lines of the unit before are gone.
ReadSourceThrows ==
  /\ phase = "read"
  /\ todo > 0
  /\ todo \notin there
  /\ imports' = << >>
  /\ Fail
  /\ UNCHANGED <<files, mains>>

\* An import of a module whose types are known; its own are known from then on.
ParseImport(f) ==
  /\ phase = "parse"
  /\ Len(imports) < MaxImport
  /\ Provided(f)
  /\ f \in known
  /\ files' = [files EXCEPT ![Includer].included = Append(@, Lookup(f))]
  /\ imports' = Append(imports, f)
  /\ known' = known \cup {args[todo]}
  /\ UNCHANGED <<args, todo, phase, buff, queue, code, mains, creators, object, there>>

\* isImportProvided refuses a module that is not on the command line;
\* importTypesFromModule dereferences types.end() for one not parsed yet.
ParseBadImport(f) ==
  /\ phase = "parse"
  /\ Len(imports) < MaxImport
  /\ ~Provided(f) \/ f \notin known
  /\ imports' = Append(imports, f)
  /\ Fail
  /\ UNCHANGED <<files, mains, creators, there>>

\* Mutation: the list of the file in whose slot the module will be stored.
ParseProgramOwnList ==
  /\ phase = "parse"
  /\ known' = known \cup {args[todo]}
  /\ queue' = files[Holder].included
  /\ phase' = "link"
  /\ UNCHANGED <<args, todo, files, buff, imports, code, mains, creators, object, there>>

\* The rest of the file, and a visitor that collects what it has to link.
ParseProgram ==
  /\ phase = "parse"
  /\ known' = known \cup {args[todo]}
  /\ queue' = files[Includer].included
  /\ phase' = "link"
  /\ UNCHANGED <<args, todo, files, buff, imports, code, mains, creators, object, there>>

\* Mutation: the module is linked, not moved.
LinkModuleCopy ==
  /\ phase = "link"
  /\ queue # << >>
  /\ files[Head(queue)].module # NoModule
  /\ code' = code \cup files[Head(queue)].module
  /\ queue' = Tail(queue)
  /\ UNCHANGED <<args, todo, files, phase, buff, imports, known, mains, creators, object,
                 there>>

\* Linker::linkModules(*module, std::move(file->module))
LinkModule ==
  /\ phase = "link"
  /\ queue # << >>
  /\ files[Head(queue)].module # NoModule
  /\ code' = code \cup files[Head(queue)].module
  /\ files' = [files EXCEPT ![Head(queue)].module = NoModule]
  /\ queue' = Tail(queue)
  /\ UNCHANGED <<args, todo, phase, buff, imports, known, mains, creators, object, there>>

LinkNothing ==
  /\ phase = "link"
  /\ queue # << >>
  /\ files[Head(queue)].module = NoModule
  /\ Fail
  /\ UNCHANGED <<files, imports, mains, creators, there>>

\* visit(ModuleDecl&): the code of the unit, and main() when the context knows a
\* type Main, whose constructor has to be in this module.
VisitModule(declaresMain, definesCreate) ==
  /\ phase = "link"
  /\ queue = << >>
  /\ mains' = IF declaresMain THEN mains \cup {todo} ELSE mains
  /\ creators' = IF definesCreate THEN creators \cup {todo} ELSE creators
  /\ code' = code \cup {todo}
  /\ mains' # {} => creators' \cap code' # {}
  /\ phase' = "emit"
  /\ UNCHANGED <<args, todo, files, buff, imports, known, queue, object, there>>

\* getFunction answers null: no class Main of this module has such a constructor, or the
\* class is one of a module that is not linked to this one.
VisitModuleLost(declaresMain) ==
  /\ phase = "link"
  /\ queue = << >>
  /\ mains' = IF declaresMain THEN mains \cup {todo} ELSE mains
  /\ mains' # {}
  /\ creators \cap code = {}
  /\ Fail
  /\ UNCHANGED <<files, imports>>

\* Mutation: the module is stored with the list of imports.
CreateObjFileFirst ==
  /\ phase = "emit"
  /\ object' = [object EXCEPT ![todo] = [imports |-> imports, code |-> code]]
  /\ files' = [files EXCEPT ![Includer].module = code]
  /\ code' = {}
  /\ todo' = todo - 1
  /\ phase' = "read"
  /\ UNCHANGED <<args, buff, imports, known, queue, mains, creators, there>>

\* createObjFile and addCompiledModule
CreateObjFile ==
  /\ phase = "emit"
  /\ object' = [object EXCEPT ![todo] = [imports |-> imports, code |-> code]]
  /\ files' = [files EXCEPT ![Holder].module = code]
  /\ code' = {}
  /\ todo' = todo - 1
  /\ phase' = "read"
  /\ UNCHANGED <<args, buff, imports, known, queue, mains, creators, there>>

\* The early returns of createObjFile, for a target that is unknown or a file that cannot
\* be written: the visitor goes and its module with it.
CreateObjFileFails ==
  /\ phase = "emit"
  /\ code' = {}
  /\ todo' = todo - 1
  /\ phase' = "read"
  /\ UNCHANGED <<args, files, buff, imports, known, queue, mains, creators, object, there>>

\* exit(-1) when verifyModule refuses the module (Flow says of what).
VerifyModuleFails ==
  /\ phase = "emit"
  /\ phase' = "exited"
  /\ UNCHANGED <<args, todo, files, buff, imports, known, queue, code, mains, creators,
                 object, there>>

Finish ==
  /\ phase = "read"
  /\ todo = 0
  /\ phase' = "done"
  /\ UNCHANGED <<args, todo, files, buff, imports, known, queue, code, mains, creators,
                 object, there>>

Next ==
  \/ \E u \in 1 .. Len(args) : LoseFile(u)
  \/ AddFile \/ AddFileThrows \/ StartCompiling \/ ReadSource \/ ReadSourceThrows
  \/ \E f \in File : ParseImport(f) \/ ParseBadImport(f)
  \/ ParseProgram
  \/ LinkModule \/ LinkNothing
  \/ \E declaresMain, definesCreate \in BOOLEAN : VisitModule(declaresMain, definesCreate)
  \/ \E declaresMain \in BOOLEAN : VisitModuleLost(declaresMain)
  \/ CreateObjFile \/ CreateObjFileFails \/ VerifyModuleFails
  \/ Finish

Spec == Init /\ [][Next]_vars

-----------------------------------------------------------------------------
(***************************************************************************)
(* Properties.                                                             *)
(***************************************************************************)

Units == 1 .. Len(args)
Slots == 1 .. Len(files)
FileType == [name : File, included : Seq(Nat \ {0}), module : SUBSET Nat]
ObjectType == [imports : Seq(File), code : SUBSET Nat]

\* Types; every index into the file table is in range, those that are computed from
\* the id of a buffer among them (addIncludedModule, getIncluded, addCompiledModule).
TypeOK ==
  /\ args \in Seq(File) /\ Len(args) <= MaxArg
  /\ todo \in 0 .. Len(args)
  /\ files \in Seq(FileType)
  /\ \A k \in Slots : \A i \in 1 .. Len(files[k].included) : files[k].included[i] \in Slots
  /\ phase \in {"add", "read", "parse", "link", "emit", "done", "failed", "exited"}
  /\ phase \in {"parse", "link", "emit"} => Includer \in Slots /\ Holder \in Slots
  /\ buff \in Nat
  /\ imports \in Seq(File)
  /\ known \in SUBSET File
  /\ queue \in Seq(Slots)
  /\ code \in SUBSET Units
  /\ mains \in SUBSET Units
  /\ creators \in SUBSET Units
  /\ there \in SUBSET Units
  /\ object \in [Units -> ObjectType]

\* Whatever the order in which modules are linked, stored and overwritten, the code
\* of a unit is in at most one llvm::Module: linkModules never meets the same
\* definition twice (std::move in CodeGenVisitor's constructor and in createObjFile).
CodeInOnePlace ==
  /\ \A j, k \in Slots : j # k => files[j].module \cap files[k].module = {}
  /\ phase # "failed" => \A k \in Slots : files[k].module \cap code = {}

\* The unit that the import of f in unit u means: the last one compiled before u.
Provider(u, f) ==
  CHOOSE v \in u + 1 .. Len(args) :
    args[v] = f /\ \A w \in u + 1 .. v - 1 : args[w] # f

Lines(u) == object[u].imports
Written(u) == object[u] # NoObject

\* The units that unit u consists of: itself, and those of the modules it imports.
Parts[u \in Units] ==
  {u} \cup UNION {Parts[Provider(u, Lines(u)[i])] : i \in 1 .. Len(Lines(u))}

LinkedRight == \A u \in Units : Written(u) => object[u].code = Parts[u]

\* Of up to two files, the same perhaps, the object file of each holds the code of the
\* modules it imports, with theirs, and of no other, whether or not the object files of
\* those were written (includedFiles, addCompiledModule; of three, see below).
LinksItsImports == Len(args) <= 2 => LinkedRight

Twice == \E i, j \in 1 .. Len(imports) : i # j /\ imports[i] = imports[j]
Early == \E i \in 1 .. Len(imports) : \A v \in todo + 1 .. Len(args) : args[v] # imports[i]
Unwritten == \E i \in 1 .. Len(imports) : ~Written(Provider(todo, imports[i]))
Unopened == \E u \in {todo, todo + 1} \cap Units : u \notin there
NoMainToCall ==
  /\ mains # {}
  /\ \A i \in 1 .. Len(imports) : creators \cap Parts[Provider(todo, imports[i])] = {}

\* Of up to two files, the compiler fails only on one that cannot be opened (the one that
\* is to be added or compiled), or that imports a module twice, or one that does not stand
\* behind it on the command line, or whose object could not be written, or when one of them
\* declares a class Main and no module that the one at hand imports has its constructor.
FailureExplained ==
  phase = "failed" /\ Len(args) <= 2 =>
    Unopened \/ Early \/ Twice \/ Unwritten \/ NoMainToCall

-----------------------------------------------------------------------------
(***************************************************************************)
(* What the repository says of the program, and the code does not do.      *)
(***************************************************************************)

\* README.md: "modules get linked together as LLVM bytecode", of a command line
\* that names every file once.
DistinctFilesAreLinked ==
  (\A i, j \in Units : args[i] = args[j] => i = j) => LinkedRight
=============================================================================
