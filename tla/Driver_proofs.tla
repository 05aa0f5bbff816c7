---------------------------- MODULE Driver_proofs ----------------------------
(***************************************************************************)
(* Driver: for any command line, of any length, the types are right and the*)
(* code of a unit is in one llvm::Module only; of up to two files, which   *)
(* import anything in any order, objects hold what they should, and the    *)
(* reasons for which the compiler fails are known.                         *)
(***************************************************************************)
EXTENDS Driver, TLAPS

\* From readSource to addCompiledModule the buffer's id is the index of the last file.
LastBuffer == phase \in {"parse", "link", "emit"} => buff = Len(files) - 1 /\ todo >= 1

\* What is stored comes from the units behind the one at hand, as does what has been
\* linked to it, before its own code is added.
Behind ==
  /\ phase = "add" => \A k \in Slots : files[k].module = {}
  /\ phase \in {"read", "parse", "link", "emit"} =>
       \A k \in Slots : files[k].module \subseteq todo + 1 .. Len(args)
  /\ phase \in {"add", "read", "parse"} => code = {}
  /\ phase = "link" => code \subseteq todo + 1 .. Len(args)
  /\ phase = "emit" => code \subseteq todo .. Len(args)

DInv == TypeOK /\ LastBuffer /\ Behind /\ CodeInOnePlace

\* The first state of main: no file, no module, nothing written.
LEMMA InitInv == Init => DInv
<1> SUFFICES ASSUME Init PROVE DInv
  OBVIOUS
<1> USE DriverAssumption DEF Init
<1>1. args \in Seq(File) /\ Len(args) <= MaxArg /\ Len(args) \in Nat
  OBVIOUS
<1>2. object \in [Units -> ObjectType]
  BY DEF Units, NoObject, ObjectType
<1>3. Slots = {}
  BY DEF Slots
<1>4. TypeOK
  BY <1>1, <1>2, <1>3 DEF TypeOK, Units
<1>5. QED
  BY <1>3, <1>4 DEF DInv, LastBuffer, Behind, CodeInOnePlace

\* addFile and readSource append at most one file, with no module and no import, and
\* the table that they leave is not empty.
LEMMA WithFileKeeps ==
  ASSUME TypeOK, NEW f \in File
  PROVE  LET new == WithFile(f)
         IN  /\ new \in Seq(FileType)
             /\ Len(new) >= Len(files) /\ Len(new) >= 1
             /\ \A k \in 1 .. Len(new) :
                  \/ k \in Slots /\ new[k] = files[k]
                  \/ k \notin Slots /\ new[k].module = {} /\ new[k].included = << >>
<1> DEFINE new == FileData(f)
<1>1. new \in FileType /\ new.module = {} /\ new.included = << >>
  BY DEF FileData, FileType, NoModule
<1>2. files \in Seq(FileType)
  BY DEF TypeOK
<1>3. CASE Provided(f)
  BY <1>2, <1>3 DEF WithFile, Provided, Slots
<1>4. CASE ~Provided(f)
  <2>1. WithFile(f) = Append(files, new)
    BY <1>4 DEF WithFile
  <2> HIDE DEF new
  <2>2. QED
    BY <1>1, <1>2, <2>1 DEF Slots
<1>5. QED
  BY <1>3, <1>4

\* The invariant after addFile or readSource: the new table has nothing to offer that
\* the old one had not.
LEMMA TableGrows ==
  ASSUME TypeOK, CodeInOnePlace, NEW f \in File,
         files' = WithFile(f), UNCHANGED args
  PROVE  /\ files' \in Seq(FileType) /\ Len(files') >= 1
         /\ \A k \in Slots' : \A i \in 1 .. Len(files'[k].included) :
              files'[k].included[i] \in Slots'
         /\ \A k \in Slots' : files'[k].module # {} => k \in Slots /\ files'[k] = files[k]
         /\ \A j, k \in Slots' : j # k => files'[j].module \cap files'[k].module = {}
         /\ queue \in Seq(Slots')
<1>1. /\ files' \in Seq(FileType)
      /\ Len(files') >= Len(files) /\ Len(files') >= 1
      /\ \A k \in 1 .. Len(files') :
           \/ k \in Slots /\ files'[k] = files[k]
           \/ k \notin Slots /\ files'[k].module = {} /\ files'[k].included = << >>
  BY WithFileKeeps
<1>2. files \in Seq(FileType) /\ queue \in Seq(Slots)
      /\ \A k \in Slots : \A i \in 1 .. Len(files[k].included) : files[k].included[i] \in Slots
  BY DEF TypeOK
<1>3. Slots \subseteq Slots'
  BY <1>1, <1>2 DEF Slots
<1>4. \A k \in Slots' : \A i \in 1 .. Len(files'[k].included) : files'[k].included[i] \in Slots'
  <2> SUFFICES ASSUME NEW k \in Slots', NEW i \in 1 .. Len(files'[k].included)
               PROVE  files'[k].included[i] \in Slots'
    OBVIOUS
  <2>1. k \in 1 .. Len(files')
    BY DEF Slots
  <2>2. CASE k \in Slots /\ files'[k] = files[k]
    BY <1>2, <1>3, <2>2
  <2>3. CASE files'[k].included = << >>
    BY <2>3
  <2>4. QED
    BY <1>1, <2>1, <2>2, <2>3
<1>5. \A k \in Slots' : files'[k].module # {} => k \in Slots /\ files'[k] = files[k]
  BY <1>1 DEF Slots
<1>6. \A j, k \in Slots' : j # k => files'[j].module \cap files'[k].module = {}
  BY <1>5 DEF CodeInOnePlace
<1>7. queue \in Seq(Slots')
  BY <1>2, <1>3
<1>8. QED
  BY <1>1, <1>4, <1>5, <1>6, <1>7

\* What a sequence is after one of its elements is replaced.
LEMMA PutOne ==
  ASSUME NEW S, NEW q \in Seq(S), NEW h \in 1 .. Len(q), NEW e \in S
  PROVE  LET r == [q EXCEPT ![h] = e]
         IN  /\ r \in Seq(S) /\ Len(r) = Len(q)
             /\ \A k \in 1 .. Len(q) : r[k] = IF k = h THEN e ELSE q[k]
OBVIOUS

\* Storing a module, or taking it away, keeps the type of the table and what the
\* files import.
LEMMA PutModule ==
  ASSUME TypeOK, NEW h \in Slots, NEW m \in SUBSET Nat,
         files' = [files EXCEPT ![h].module = m]
  PROVE  /\ files' \in Seq(FileType) /\ Len(files') = Len(files) /\ Slots' = Slots
         /\ files'[h].module = m
         /\ \A k \in Slots : k # h => files'[k].module = files[k].module
         /\ \A k \in Slots : \A i \in 1 .. Len(files'[k].included) :
              files'[k].included[i] \in Slots
<1>1. files \in Seq(FileType)
  BY DEF TypeOK
<1>2. \A k \in Slots : files[k] \in FileType
  BY <1>1 DEF Slots
<1>3. [files[h] EXCEPT !.module = m] \in FileType
  BY <1>2 DEF FileType
<1>4. files' \in Seq(FileType) /\ Len(files') = Len(files) /\ Slots' = Slots
  BY <1>1, <1>3 DEF Slots
<1>5. \A k \in Slots : files'[k] = IF k = h THEN [files[h] EXCEPT !.module = m] ELSE files[k]
  BY <1>1 DEF Slots
<1>6. files'[h].module = m /\ files'[h].included = files[h].included
  BY <1>2, <1>5 DEF FileType
<1>7. \A k \in Slots : k # h => files'[k] = files[k]
  BY <1>5
<1>8. \A k \in Slots : \A i \in 1 .. Len(files[k].included) : files[k].included[i] \in Slots
  BY DEF TypeOK
<1>9. \A k \in Slots : files'[k].included = files[k].included
  BY <1>6, <1>7
<1>10. QED
  BY <1>4, <1>6, <1>7, <1>8, <1>9

\* The argument that main is at is a file name.
LEMMA ArgIsFile == ASSUME TypeOK, NEW u \in 1 .. Len(args) PROVE args[u] \in File
BY DEF TypeOK

\* addFile adds no module.
LEMMA AddFileInv == DInv /\ AddFile => DInv'
<1> SUFFICES ASSUME DInv, AddFile PROVE DInv'
  OBVIOUS
<1> USE DEF DInv, AddFile
<1>1. args \in Seq(File) /\ todo \in 0 .. Len(args) /\ todo + 1 \in 1 .. Len(args)
  BY DEF TypeOK
<1>2. args[todo + 1] \in File
  BY <1>1
<1>3. /\ files' \in Seq(FileType)
      /\ \A k \in Slots' : \A i \in 1 .. Len(files'[k].included) :
           files'[k].included[i] \in Slots'
      /\ \A k \in Slots' : files'[k].module # {} => k \in Slots /\ files'[k] = files[k]
      /\ \A j, k \in Slots' : j # k => files'[j].module \cap files'[k].module = {}
      /\ queue \in Seq(Slots')
  BY <1>2, TableGrows
<1>4. TypeOK'
  BY <1>1, <1>3 DEF TypeOK, Units
<1>5. code = {} /\ \A k \in Slots' : files'[k].module = {}
  BY <1>3 DEF Behind
<1>6. QED
  BY <1>4, <1>5 DEF LastBuffer, Behind, CodeInOnePlace

\* The step from the first loop to the second.
LEMMA StartCompilingInv == DInv /\ StartCompiling => DInv'
<1> SUFFICES ASSUME DInv, StartCompiling PROVE DInv'
  OBVIOUS
<1> USE DEF DInv, StartCompiling
<1>1. TypeOK'
  BY DEF TypeOK, Units, Slots
<1>2. Behind'
  BY DEF Behind, Slots
<1>3. QED
  BY <1>1, <1>2 DEF LastBuffer, CodeInOnePlace, Slots

\* A file goes that is still to be opened.
LEMMA LoseFileInv == ASSUME NEW u \in Units PROVE DInv /\ LoseFile(u) => DInv'
<1> SUFFICES ASSUME DInv, LoseFile(u) PROVE DInv'
  OBVIOUS
<1> USE DEF DInv, LoseFile
<1>1. TypeOK'
  BY DEF TypeOK, Units, Slots, Includer, Holder
<1>2. QED
  BY <1>1 DEF LastBuffer, Behind, CodeInOnePlace, Slots

\* addFile or readSource throws.
LEMMA ThrowsInv == DInv /\ (AddFileThrows \/ ReadSourceThrows) => DInv'
<1> SUFFICES ASSUME DInv, AddFileThrows \/ ReadSourceThrows PROVE DInv'
  OBVIOUS
<1> USE DEF DInv, AddFileThrows, ReadSourceThrows, Fail
<1>1. TypeOK'
  <2>1. imports' = imports \/ imports' = << >>
    OBVIOUS
  <2>2. imports \in Seq(File) /\ << >> \in Seq(File)
    BY DEF TypeOK
  <2>3. imports' \in Seq(File)
    BY ONLY <2>1, <2>2
  <2>4. QED
    BY <2>3 DEF TypeOK, Units, Slots
<1>2. QED
  BY <1>1 DEF LastBuffer, Behind, CodeInOnePlace, Slots

\* readSource: the new buffer has the index of the last file.
LEMMA ReadSourceInv == DInv /\ ReadSource => DInv'
<1> SUFFICES ASSUME DInv, ReadSource PROVE DInv'
  OBVIOUS
<1> USE DEF DInv, ReadSource
<1>1. args \in Seq(File) /\ todo \in 1 .. Len(args)
  BY DEF TypeOK
<1>2. args[todo] \in File
  BY <1>1
<1>3. /\ files' \in Seq(FileType) /\ Len(files') >= 1
      /\ \A k \in Slots' : \A i \in 1 .. Len(files'[k].included) :
           files'[k].included[i] \in Slots'
      /\ \A k \in Slots' : files'[k].module # {} => k \in Slots /\ files'[k] = files[k]
      /\ \A j, k \in Slots' : j # k => files'[j].module \cap files'[k].module = {}
      /\ queue \in Seq(Slots')
  BY <1>2, TableGrows
<1>4. Len(files') \in Nat /\ buff' = Len(files') - 1 /\ buff' \in Nat
  BY <1>3
<1>5. Includer' \in Slots' /\ Holder' \in Slots'
  BY <1>3, <1>4 DEF Includer, Holder, Slots
<1>6. TypeOK'
  BY <1>1, <1>3, <1>4, <1>5 DEF TypeOK, Units
<1>7. \A k \in Slots' : files'[k].module \subseteq todo + 1 .. Len(args)
  BY <1>3 DEF Behind
<1>8. Behind'
  BY <1>7 DEF Behind
<1>9. QED
  BY <1>1, <1>3, <1>4, <1>6, <1>8 DEF LastBuffer, CodeInOnePlace

\* addIncludedModule: the index of the imported file is one of the table.
LEMMA ParseImportInv == ASSUME NEW f \in File PROVE DInv /\ ParseImport(f) => DInv'
<1> SUFFICES ASSUME DInv, ParseImport(f) PROVE DInv'
  OBVIOUS
<1> USE DEF DInv, ParseImport
<1>1. files \in Seq(FileType) /\ Includer \in Slots /\ Slots \subseteq Nat \ {0}
  BY DEF TypeOK, Slots
<1>2. Lookup(f) \in Slots
  BY DEF Provided, Lookup, Slots
<1>3. files[Includer] \in FileType
  BY <1>1 DEF Slots
<1> DEFINE old == files[Includer].included
<1>4. old \in Seq(Nat \ {0}) /\ \A i \in 1 .. Len(old) : old[i] \in Slots
  BY <1>1, <1>3 DEF FileType, TypeOK
<1> DEFINE new == [files[Includer] EXCEPT !.included = Append(old, Lookup(f))]
<1>5. new.module = files[Includer].module /\ new.included = Append(old, Lookup(f))
  BY <1>3 DEF FileType
<1>6. Append(old, Lookup(f)) \in Seq(Nat \ {0})
  BY <1>1, <1>2, <1>4
<1>7. new \in FileType
  BY <1>3, <1>6 DEF FileType
<1>8. files' = [files EXCEPT ![Includer] = new]
  OBVIOUS
<1>9. \A i \in 1 .. Len(new.included) : new.included[i] \in Slots
  <2> DEFINE longer == Append(old, Lookup(f))
  <2>1. Len(longer) = Len(old) + 1 /\ longer[Len(old) + 1] = Lookup(f)
    BY ONLY <1>4
  <2>2. \A i \in 1 .. Len(old) : longer[i] = old[i]
    BY ONLY <1>4
  <2>3. Len(old) \in Nat BY ONLY <1>4
  <2>4. new.included = longer BY <1>5
  <2> HIDE DEF new, old, longer
  <2>5. \A i \in 1 .. Len(longer) : longer[i] \in Slots
    BY ONLY <1>2, <1>4, <2>1, <2>2, <2>3
  <2> QED BY ONLY <2>4, <2>5
<1> HIDE DEF new, old
<1>10. files' \in Seq(FileType) /\ Len(files') = Len(files) /\ Slots' = Slots
  BY ONLY <1>1, <1>7, <1>8, PutOne DEF Slots
<1>11. \A k \in Slots : files'[k] = IF k = Includer THEN new ELSE files[k]
  BY ONLY <1>1, <1>7, <1>8, PutOne DEF Slots
<1>12. \A k \in Slots : \A i \in 1 .. Len(files'[k].included) : files'[k].included[i] \in Slots
  BY <1>9, <1>11 DEF TypeOK
<1>13. \A k \in Slots : files'[k].module = files[k].module
  BY <1>5, <1>11
<1>14. imports' \in Seq(File) /\ known' \in SUBSET File
  <2>1. todo \in 1 .. Len(args) /\ args \in Seq(File)
    BY DEF TypeOK, LastBuffer
  <2>2. args[todo] \in File
    BY <2>1
  <2>3. QED
    BY <2>2 DEF TypeOK
<1>15. TypeOK'
  BY <1>10, <1>12, <1>14 DEF TypeOK, Units, Includer, Holder
<1>16. QED
  BY <1>10, <1>13, <1>15 DEF LastBuffer, Behind, CodeInOnePlace

\* A failed import changes nothing but the lines read.
LEMMA ParseBadImportInv == ASSUME NEW f \in File PROVE DInv /\ ParseBadImport(f) => DInv'
<1> SUFFICES ASSUME DInv, ParseBadImport(f) PROVE DInv'
  OBVIOUS
<1> USE DEF DInv, ParseBadImport, Fail
<1>1. imports' \in Seq(File)
  BY DEF TypeOK
<1>2. TypeOK'
  BY <1>1 DEF TypeOK, Units, Slots
<1>3. QED
  BY <1>2 DEF LastBuffer, Behind, CodeInOnePlace, Slots

\* The constructor of CodeGenVisitor takes a list of indices over.
LEMMA ParseProgramInv == DInv /\ ParseProgram => DInv'
<1> SUFFICES ASSUME DInv, ParseProgram PROVE DInv'
  OBVIOUS
<1> USE DEF DInv, ParseProgram
<1>1. todo \in 1 .. Len(args) /\ args \in Seq(File) /\ Includer \in Slots
  BY DEF TypeOK, LastBuffer
<1>2. args[todo] \in File
  BY <1>1
<1>3. files[Includer].included \in Seq(Nat \ {0})
  <2>1. files \in Seq(FileType)
    BY DEF TypeOK
  <2>2. files[Includer] \in FileType
    BY ONLY <1>1, <2>1 DEF Slots
  <2>3. QED
    BY ONLY <2>2 DEF FileType
<1>4. queue' \in Seq(Slots)
  <2> DEFINE q == files[Includer].included
  <2>1. q \in Seq(Nat \ {0}) /\ \A i \in 1 .. Len(q) : q[i] \in Slots
    BY <1>1, <1>3 DEF TypeOK
  <2> HIDE DEF q
  <2>2. q \in Seq(Slots)
    BY <2>1
  <2>3. QED
    BY <2>2 DEF q
<1>5. TypeOK'
  BY <1>2, <1>4 DEF TypeOK, Units, Slots, Includer, Holder
<1>6. QED
  BY <1>5 DEF LastBuffer, Behind, CodeInOnePlace, Slots

\* linkModules: what is moved is gone from where it was.
LEMMA LinkModuleInv == DInv /\ LinkModule => DInv'
<1> SUFFICES ASSUME DInv, LinkModule PROVE DInv'
  OBVIOUS
<1>1. queue \in Seq(Slots) /\ queue # << >> /\ code \in SUBSET Units /\ phase = "link"
  BY DEF DInv, TypeOK, LinkModule
<1>2. Head(queue) \in Slots /\ Tail(queue) \in Seq(Slots)
  BY ONLY <1>1
<1> DEFINE h == Head(queue)
           moved == files[h].module
<1>3. files' = [files EXCEPT ![h].module = {}]
  BY DEF LinkModule, NoModule
<1>4. code' = code \cup moved /\ queue' = Tail(queue)
      /\ UNCHANGED <<args, todo, phase, buff, imports, known, mains, creators, object, there>>
  BY DEF LinkModule
<1>5. h \in Slots /\ {} \in SUBSET Nat /\ TypeOK
  BY <1>2 DEF DInv
<1> HIDE DEF h
<1>6. /\ files' \in Seq(FileType) /\ Len(files') = Len(files) /\ Slots' = Slots
      /\ files'[h].module = {}
      /\ \A k \in Slots : k # h => files'[k].module = files[k].module
      /\ \A k \in Slots : \A i \in 1 .. Len(files'[k].included) :
           files'[k].included[i] \in Slots
  BY <1>3, <1>5, PutModule
<1>7. \A k \in Slots : files[k].module \subseteq todo + 1 .. Len(args)
  BY <1>1 DEF DInv, Behind
<1>8. code \subseteq todo + 1 .. Len(args)
  BY <1>1 DEF DInv, Behind
<1>9. code' \subseteq todo + 1 .. Len(args)
  BY <1>4, <1>5, <1>7, <1>8
<1>10. TypeOK'
  <2>1. todo \in 0 .. Len(args) /\ Len(args) \in Nat
    BY <1>5 DEF TypeOK
  <2>2. code' \in SUBSET Units'
    BY <2>1, <1>4, <1>9 DEF Units
  <2>3. queue' \in Seq(Slots')
    BY <1>2, <1>4, <1>6
  <2>4. QED
    BY <1>4, <1>5, <1>6, <2>2, <2>3 DEF TypeOK, Units, Includer, Holder
<1>11. Behind'
  BY <1>1, <1>4, <1>6, <1>7, <1>9 DEF Behind
<1>12. CodeInOnePlace'
  <2>1. /\ \A j, k \in Slots : j # k => files[j].module \cap files[k].module = {}
        /\ \A k \in Slots : files[k].module \cap code = {}
    BY <1>1 DEF DInv, CodeInOnePlace
  <2>2. \A j, k \in Slots : j # k => files'[j].module \cap files'[k].module = {}
    BY <1>5, <1>6, <2>1
  <2>3. ASSUME NEW k \in Slots PROVE files'[k].module \cap (code \cup moved) = {}
    <3>1. CASE k = h
      BY <3>1, <1>6
    <3>2. CASE k # h
      BY <3>2, <1>5, <1>6, <2>1
    <3>3. QED
      BY <3>1, <3>2
  <2>4. QED
    BY <1>4, <1>6, <2>2, <2>3 DEF CodeInOnePlace
<1>13. QED
  BY <1>1, <1>4, <1>6, <1>10, <1>11, <1>12 DEF DInv, LastBuffer

\* Linking a null module fails.
LEMMA LinkNothingInv == DInv /\ LinkNothing => DInv'
<1> SUFFICES ASSUME DInv, LinkNothing PROVE DInv'
  OBVIOUS
<1> USE DEF DInv, LinkNothing, Fail
<1>1. TypeOK'
  BY DEF TypeOK, Units, Slots
<1>2. QED
  BY <1>1 DEF LastBuffer, Behind, CodeInOnePlace, Slots

\* The unit's own code is nowhere yet.
LEMMA VisitModuleInv ==
  ASSUME NEW declaresMain \in BOOLEAN, NEW definesCreate \in BOOLEAN
  PROVE  DInv /\ VisitModule(declaresMain, definesCreate) => DInv'
<1> SUFFICES ASSUME DInv, VisitModule(declaresMain, definesCreate) PROVE DInv'
  OBVIOUS
<1> USE DEF DInv, VisitModule
<1>1. todo \in Units /\ todo \in 0 .. Len(args) /\ Len(args) \in Nat
  BY DEF TypeOK, LastBuffer, Units
<1>2. code' = code \cup {todo} /\ phase' = "emit" /\ phase = "link"
      /\ UNCHANGED <<args, todo, files, buff>>
  OBVIOUS
<1>3. mains' \in SUBSET Units /\ creators' \in SUBSET Units
  BY <1>1 DEF TypeOK
<1>4. TypeOK'
  BY <1>1, <1>2, <1>3 DEF TypeOK, Units, Slots, Includer, Holder
<1>5. Behind' /\ LastBuffer'
  BY <1>1, <1>2 DEF Behind, LastBuffer, Slots, Units
<1>6. \A k \in Slots : todo \notin files[k].module
  BY <1>1, <1>2 DEF Behind
<1>7. CodeInOnePlace'
  BY <1>2, <1>6 DEF CodeInOnePlace, Slots
<1>8. QED
  BY <1>4, <1>5, <1>7

\* main() without a constructor to call fails.
LEMMA VisitModuleLostInv ==
  ASSUME NEW declaresMain \in BOOLEAN PROVE DInv /\ VisitModuleLost(declaresMain) => DInv'
<1> SUFFICES ASSUME DInv, VisitModuleLost(declaresMain) PROVE DInv'
  OBVIOUS
<1> USE DEF DInv, VisitModuleLost, Fail
<1>1. TypeOK'
  <2>1. todo \in Units
    BY DEF TypeOK, LastBuffer, Units
  <2>2. mains' \in SUBSET Units
    BY <2>1 DEF TypeOK
  <2>3. QED
    BY <2>2 DEF TypeOK, Units, Slots
<1>2. QED
  BY <1>1 DEF LastBuffer, Behind, CodeInOnePlace, Slots

\* addCompiledModule: the module moves to the last file, over what was there.
LEMMA CreateObjFileInv == DInv /\ CreateObjFile => DInv'
<1> SUFFICES ASSUME DInv, CreateObjFile PROVE DInv'
  OBVIOUS
<1>1. /\ phase = "emit" /\ code \in SUBSET Units /\ Holder \in Slots
      /\ todo \in Units /\ Len(args) \in Nat /\ imports \in Seq(File) /\ TypeOK
  BY DEF DInv, TypeOK, LastBuffer, Units, CreateObjFile
<1>2. code \in SUBSET Nat
  BY <1>1 DEF Units
<1>3. /\ files' = [files EXCEPT ![Holder].module = code]
      /\ object' = [object EXCEPT ![todo] = [imports |-> imports, code |-> code]]
      /\ code' = {} /\ todo' = todo - 1 /\ phase' = "read"
      /\ UNCHANGED <<args, buff, imports, known, queue, mains, creators, there>>
  BY DEF CreateObjFile
<1>4. /\ files' \in Seq(FileType) /\ Len(files') = Len(files) /\ Slots' = Slots
      /\ files'[Holder].module = code
      /\ \A k \in Slots : k # Holder => files'[k].module = files[k].module
      /\ \A k \in Slots : \A i \in 1 .. Len(files'[k].included) :
           files'[k].included[i] \in Slots
  BY <1>1, <1>2, <1>3, PutModule
<1>5. object' \in [Units -> ObjectType]
  <2>1. object \in [Units -> ObjectType]
    BY <1>1 DEF TypeOK
  <2>2. [imports |-> imports, code |-> code] \in ObjectType
    BY ONLY <1>1, <1>2 DEF ObjectType
  <2>3. QED
    BY ONLY <1>1, <1>3, <2>1, <2>2
<1>6. TypeOK'
  BY <1>1, <1>3, <1>4, <1>5 DEF TypeOK, Units
<1>7. \A k \in Slots : files'[k].module \subseteq todo .. Len(args)
  <2>1. \A k \in Slots : files[k].module \subseteq todo + 1 .. Len(args)
    BY <1>1 DEF DInv, Behind
  <2>2. code \subseteq todo .. Len(args)
    BY <1>1 DEF DInv, Behind
  <2>3. todo + 1 .. Len(args) \subseteq todo .. Len(args)
    BY <1>1 DEF Units
  <2>4. QED
    BY <1>4, <2>1, <2>2, <2>3
<1>8. Behind'
  <2>1. todo' + 1 = todo
    BY <1>1, <1>3 DEF Units
  <2>2. QED
    BY <1>3, <1>4, <1>7, <2>1 DEF Behind
<1>9. CodeInOnePlace'
  <2>1. /\ \A j, k \in Slots : j # k => files[j].module \cap files[k].module = {}
        /\ \A k \in Slots : files[k].module \cap code = {}
    BY <1>1 DEF DInv, CodeInOnePlace
  <2>2. ASSUME NEW j \in Slots, NEW k \in Slots, j # k
        PROVE  files'[j].module \cap files'[k].module = {}
    <3>1. CASE j = Holder
      BY <1>4, <2>1, <2>2, <3>1
    <3>2. CASE k = Holder
      BY <1>4, <2>1, <2>2, <3>2
    <3>3. CASE j # Holder /\ k # Holder
      BY <1>4, <2>1, <2>2, <3>3
    <3>4. QED
      BY <3>1, <3>2, <3>3
  <2>3. QED
    BY <1>3, <1>4, <2>2 DEF CodeInOnePlace
<1>10. QED
  BY <1>3, <1>6, <1>8, <1>9 DEF DInv, LastBuffer

\* An object that is not written: the module is gone.
LEMMA CreateObjFileFailsInv == DInv /\ CreateObjFileFails => DInv'
<1> SUFFICES ASSUME DInv, CreateObjFileFails PROVE DInv'
  OBVIOUS
<1>1. /\ phase = "emit" /\ todo \in Units /\ Len(args) \in Nat
      /\ \A k \in Slots : files[k].module \subseteq todo + 1 .. Len(args)
  BY DEF DInv, TypeOK, LastBuffer, Behind, Units, CreateObjFileFails
<1>2. /\ code' = {} /\ todo' = todo - 1 /\ phase' = "read"
      /\ UNCHANGED <<args, files, buff, imports, known, queue, mains, creators, object, there>>
  BY DEF CreateObjFileFails
<1>3. TypeOK'
  BY <1>1, <1>2 DEF DInv, TypeOK, Units, Slots
<1>4. Behind' /\ LastBuffer'
  BY <1>1, <1>2 DEF Behind, LastBuffer, Slots, Units
<1>5. CodeInOnePlace'
  BY <1>2 DEF DInv, CodeInOnePlace, Slots
<1>6. QED
  BY <1>3, <1>4, <1>5 DEF DInv

\* The verifier refuses: main exits.
LEMMA VerifyModuleFailsInv == DInv /\ VerifyModuleFails => DInv'
<1> SUFFICES ASSUME DInv, VerifyModuleFails PROVE DInv'
  OBVIOUS
<1> USE DEF DInv, VerifyModuleFails
<1>1. TypeOK'
  BY DEF TypeOK, Units, Slots
<1>2. QED
  BY <1>1 DEF LastBuffer, Behind, CodeInOnePlace, Slots

\* main returns.
LEMMA FinishInv == DInv /\ Finish => DInv'
<1> SUFFICES ASSUME DInv, Finish PROVE DInv'
  OBVIOUS
<1> USE DEF DInv, Finish
<1>1. TypeOK'
  BY DEF TypeOK, Units, Slots
<1>2. QED
  BY <1>1 DEF LastBuffer, Behind, CodeInOnePlace, Slots

\* A step that changes nothing.
LEMMA StutterInv == DInv /\ UNCHANGED vars => DInv'
<1> SUFFICES ASSUME DInv, UNCHANGED vars PROVE DInv'
  OBVIOUS
<1> USE DEF DInv, vars
<1>1. TypeOK'
  BY DEF TypeOK, Units, Slots, Includer, Holder
<1>2. QED
  BY <1>1 DEF LastBuffer, Behind, CodeInOnePlace, Slots

\* Every step of main keeps the invariant.
LEMMA NextInv == DInv /\ [Next]_vars => DInv'
<1> SUFFICES ASSUME DInv, [Next]_vars PROVE DInv'
  OBVIOUS
<1>1. CASE UNCHANGED vars
  BY <1>1, StutterInv
<1>2. CASE Next
  BY <1>2, LoseFileInv, ThrowsInv, AddFileInv, StartCompilingInv, ReadSourceInv, ParseImportInv, ParseBadImportInv,
     ParseProgramInv, LinkModuleInv, LinkNothingInv, VisitModuleInv, VisitModuleLostInv,
     CreateObjFileInv, CreateObjFileFailsInv, VerifyModuleFailsInv, FinishInv DEF Next, Units
<1>3. QED
  BY <1>1, <1>2

\* For every command line the invariant holds throughout.
THEOREM Invariant == Spec => []DInv
BY InitInv, NextInv, PTL DEF Spec

\* Every index into the file table is in range: the ones of SourceManager's methods,
\* which are computed from the id of a buffer, and the ones queued for the linker.
THEOREM TypeCorrect == Spec => []TypeOK
<1>1. DInv => TypeOK
  BY DEF DInv
<1>2. QED
  BY Invariant, <1>1, PTL

\* The code of a unit is never in two modules (std::move in CodeGenVisitor's
\* constructor and in addCompiledModule), even though modules are stored in the wrong
\* slot and overwritten.
THEOREM NeverLinkedTwice == Spec => []CodeInOnePlace
<1>1. DInv => CodeInOnePlace
  BY DEF DInv
<1>2. QED
  BY Invariant, <1>1, PTL

-----------------------------------------------------------------------------
(***************************************************************************)
(* Command lines of up to two files.  The last file is compiled with       *)
(* nothing known, so that it imports nothing; the list that the other one  *)
(* fills is that of the first slot, the module it takes is in the last one,*)
(* and these are the right ones.                                           *)
(***************************************************************************)

Compiling == phase \in {"read", "parse", "link", "emit"}
Added == IF phase = "add" THEN todo ELSE Len(args)

\* The table has the names of the files added, each once, in their order.
Table ==
  phase # "failed" =>
    /\ Added = 0 => files = << >>
    /\ Added >= 1 => Len(files) >= 1 /\ files[1].name = args[1]
    /\ Added = 1 => Len(files) = 1
    /\ Added = 2 => /\ Len(files) = IF args[1] = args[2] THEN 1 ELSE 2
                    /\ files[Len(files)].name = args[2]

Fresh ==
  phase = "add" =>
    /\ imports = << >> /\ queue = << >> /\ known = {} /\ code = {}
    /\ \A k \in Slots : files[k].included = << >>

Later(u) == {args[v] : v \in u + 1 .. Len(args)}

\* The types of the modules behind the one at hand are known, and its own when it has
\* imported one, or has been parsed.
KnownBehind ==
  /\ phase = "read" => known = Later(todo)
  /\ phase = "parse" =>
       /\ Later(todo) \subseteq known
       /\ known \subseteq Later(todo) \cup (IF imports = << >> THEN {} ELSE {args[todo]})
  /\ phase \in {"link", "emit"} => known = Later(todo) \cup {args[todo]}

Alone(u) == [imports |-> << >>, code |-> {u}]
Both == [imports |-> <<args[2]>>, code |-> {1, 2}]

\* What has been written.
Objects ==
  /\ \A u \in Units : \/ object[u] = NoObject
                      \/ object[u] = Alone(u)
                      \/ u = 1 /\ Len(args) = 2 /\ object[u] = Both
  /\ \A u \in Units : (phase = "add" \/ (Compiling /\ u <= todo)) => object[u] = NoObject

\* The last file of the command line.
LastUnit ==
  Compiling /\ todo = Len(args) /\ todo >= 1 =>
    /\ imports = << >> /\ queue = << >> /\ files[1].included = << >>
    /\ code = IF phase = "emit" THEN {todo} ELSE {}

\* The other one: the module of the last is in the last slot, if it was written, ...
Stored ==
  \A k \in Slots : files[k].module = IF k = Len(files) /\ Written(2) THEN {2} ELSE {}

\* ... the list has a slot for each import, ...
Listed ==
  /\ Len(files[1].included) = Len(imports)
  /\ \A i \in 1 .. Len(imports) :
       /\ imports[i] \in {args[1], args[2]}
       /\ files[1].included[i] = IF imports[i] = args[2] THEN Len(files) ELSE 1

\* ... and the first may have been linked.
Taken ==
  /\ Written(2) /\ imports # << >> /\ imports[1] = args[2]
  /\ queue = Tail(files[1].included) /\ code = {2}
  /\ \A k \in Slots : files[k].module = {}

Queued == queue = files[1].included /\ code = {} /\ Stored

FirstUnit ==
  Compiling /\ todo = 1 /\ Len(args) = 2 =>
    /\ phase = "read" => files[1].included = << >> /\ Stored
    /\ phase = "parse" => Listed /\ Stored
    /\ phase = "link" => Listed /\ (Queued \/ Taken)
    /\ phase = "emit" => \/ imports = << >> /\ code = {1}
                         \/ imports = <<args[2]>> /\ code = {1, 2}

\* Why the compiler has failed.
BothUnmade == Len(args) = 2 /\ todo = 1 /\ imports = <<args[2]>> /\ 2 \notin creators

Reason ==
  \/ \E i \in 1 .. Len(imports) : imports[i] \notin Later(todo)
  \/ Twice
  \/ Len(args) = 2 /\ todo = 1 /\ ~Written(2) /\ imports # << >>
  \/ mains # {} /\ (imports = << >> \/ BothUnmade)
  \/ Unopened

Explained == phase = "failed" => Reason

Few ==
  /\ Table /\ Fresh /\ KnownBehind /\ Objects /\ LastUnit /\ FirstUnit
  /\ Explained

FewInv == Len(args) <= 2 => Few

LEMMA FewTypes ==
  ASSUME TypeOK, Len(args) <= 2
  PROVE  /\ args \in Seq(File) /\ Len(args) \in 0 .. 2
         /\ todo \in 0 .. Len(args) /\ files \in Seq(FileType) /\ Len(files) \in Nat
         /\ imports \in Seq(File) /\ queue \in Seq(Slots) /\ object \in [Units -> ObjectType]
         /\ \A k \in Slots : files[k] \in FileType
<1>1. /\ args \in Seq(File) /\ todo \in 0 .. Len(args) /\ files \in Seq(FileType)
      /\ imports \in Seq(File) /\ queue \in Seq(Slots) /\ object \in [Units -> ObjectType]
  BY DEF TypeOK
<1>2. Len(args) \in Nat /\ Len(files) \in Nat BY <1>1
<1>3. Len(args) \in 0 .. 2
  <2>1. PICK n : n = Len(args) OBVIOUS
  <2>2. n \in Nat /\ n <= 2 BY <1>2, <2>1
  <2>3. n \in 0 .. 2 BY ONLY <2>2
  <2> QED BY <2>1, <2>3
<1>4. \A k \in Slots : files[k] \in FileType BY <1>1 DEF Slots
<1> QED BY <1>1, <1>2, <1>3, <1>4

LEMMA FewInit == Init => FewInv
<1> SUFFICES ASSUME Init PROVE Few BY DEF FewInv
<1>1. Slots = {} /\ todo = 0 /\ phase = "add" /\ Added = 0 BY DEF Init, Slots, Added
<1>2. Table /\ Fresh BY <1>1 DEF Init, Table, Fresh
<1>3. KnownBehind /\ LastUnit /\ FirstUnit /\ Explained
  BY <1>1 DEF KnownBehind, LastUnit, FirstUnit, Explained, Compiling
<1>4. Objects BY <1>1 DEF Init, Objects, Units, Compiling
<1> QED BY <1>2, <1>3, <1>4 DEF Few

\* addFile: a name is added once.
LEMMA FewAdded ==
  ASSUME DInv, Few, Len(args) <= 2, AddFile
  PROVE  Few'
<1>1. /\ args \in Seq(File) /\ Len(args) \in 0 .. 2 /\ todo \in 0 .. Len(args)
      /\ files \in Seq(FileType) /\ todo < Len(args)
  BY FewTypes DEF DInv, AddFile
<1>2. /\ phase = "add" /\ files' = WithFile(args[todo + 1]) /\ todo' = todo + 1
      /\ UNCHANGED <<args, phase, buff, imports, known, queue, code, mains, creators, object, there>>
  BY DEF AddFile
<1>3. Added = todo /\ Added' = todo + 1 BY <1>2 DEF Added
<1>4. PICK e : e = FileData(args[todo + 1]) OBVIOUS
<1>5. e.name = args[todo + 1] /\ e.included = << >> /\ e \in FileType
  BY <1>1, <1>4 DEF FileData, FileType, NoModule
<1>6. files' = IF Provided(args[todo + 1]) THEN files ELSE Append(files, e)
  BY <1>2, <1>4 DEF WithFile
<1>7. Table' /\ \A k \in Slots' : files'[k].included = << >>
  <2>1. CASE todo = 0
    <3>1. files = << >> BY <1>2, <1>3, <2>1 DEF Few, Table
    <3>2. ~Provided(args[todo + 1]) BY <3>1 DEF Provided
    <3>3. files' = Append(<< >>, e) BY <1>6, <3>1, <3>2
    <3>4. Len(files') = 1 /\ files'[1] = e BY <3>3
    <3> QED BY <1>1, <1>2, <1>3, <1>5, <2>1, <3>4 DEF Table, Slots
  <2>2. CASE todo = 1
    <3>1. Len(files) = 1 /\ files[1].name = args[1] BY <1>2, <1>3, <2>2 DEF Few, Table
    <3>2. files[1].included = << >> BY <1>2, <3>1 DEF Few, Fresh, Slots
    <3>3. Provided(args[2]) <=> args[1] = args[2] BY <3>1 DEF Provided
    <3>4. CASE args[1] = args[2]
      <4>1. files' = files BY <1>6, <2>2, <3>3, <3>4
      <4> QED BY <1>1, <1>2, <1>3, <2>2, <3>1, <3>2, <3>4, <4>1 DEF Table, Slots
    <3>5. CASE args[1] # args[2]
      <4>1. files' = Append(files, e) BY <1>6, <2>2, <3>3, <3>5
      <4>2. Len(files') = 2 /\ files'[1] = files[1] /\ files'[2] = e
        <5>1. PICK r : r = Append(files, e) OBVIOUS
        <5>2. Len(r) = Len(files) + 1 /\ r[Len(files) + 1] = e
              /\ \A k \in 1 .. Len(files) : r[k] = files[k]
          BY <1>1, <1>5, <5>1
        <5> QED BY <3>1, <4>1, <5>1, <5>2
      <4> QED BY <1>1, <1>2, <1>3, <1>5, <2>2, <3>1, <3>2, <3>5, <4>2 DEF Table, Slots
    <3> QED BY <3>4, <3>5
  <2> QED BY <1>1, <2>1, <2>2
<1>8. Fresh' BY <1>2, <1>7 DEF Few, Fresh
<1>9. KnownBehind' /\ LastUnit' /\ FirstUnit' /\ Explained'
  BY <1>2 DEF KnownBehind, LastUnit, FirstUnit, Explained, Compiling
<1>10. Objects' BY <1>2 DEF Few, Objects, Units, Compiling, Alone, Both
<1> QED BY <1>7, <1>8, <1>9, <1>10 DEF Few

LEMMA FewStarted ==
  ASSUME DInv, Few, Len(args) <= 2, StartCompiling
  PROVE  Few'
<1>1. /\ args \in Seq(File) /\ Len(args) \in 0 .. 2 /\ todo = Len(args)
      /\ files \in Seq(FileType) /\ Len(files) \in Nat
  BY FewTypes DEF DInv, StartCompiling
<1>2. /\ phase = "add" /\ phase' = "read"
      /\ UNCHANGED <<args, todo, files, buff, imports, known, queue, code, mains, creators, object, there>>
  BY DEF StartCompiling
<1>3. Table' BY <1>1, <1>2 DEF Few, Table, Added
<1>4. Fresh' /\ Explained' BY <1>2 DEF Fresh, Explained
<1>5. KnownBehind' BY <1>1, <1>2 DEF Few, Fresh, KnownBehind, Later
<1>6. Objects' BY <1>2 DEF Few, Objects, Units, Compiling, Alone, Both
<1>7. LastUnit'
  <2> SUFFICES ASSUME todo >= 1 PROVE LastUnit' BY <1>2 DEF LastUnit
  <2>1. 1 \in Slots BY <1>1, <1>2 DEF Few, Table, Added, Slots
  <2> QED BY <1>2, <2>1 DEF Few, Fresh, LastUnit
<1>8. ~(todo' = 1 /\ Len(args') = 2) BY <1>1, <1>2
<1>9. FirstUnit' BY <1>8 DEF FirstUnit
<1> QED BY <1>3, <1>4, <1>5, <1>6, <1>7, <1>9 DEF Few

\* readSource finds the file in the table.
LEMMA FewRead ==
  ASSUME DInv, Few, Len(args) <= 2, ReadSource
  PROVE  Few'
<1>1. /\ args \in Seq(File) /\ Len(args) \in 0 .. 2 /\ todo \in 1 .. Len(args)
      /\ files \in Seq(FileType) /\ Len(files) \in Nat
  BY FewTypes DEF DInv, ReadSource
<1>2. /\ phase = "read" /\ phase' = "parse" /\ files' = WithFile(args[todo])
      /\ imports' = << >> /\ code' = {}
      /\ UNCHANGED <<args, todo, known, queue, mains, creators, object, there>>
  BY DEF ReadSource
<1>3. Added = Len(args) /\ Added' = Len(args) BY <1>2 DEF Added
<1>4. Provided(args[todo])
  <2>1. CASE todo = 1 BY <1>1, <1>2, <1>3, <2>1 DEF Few, Table, Provided
  <2>2. CASE todo = 2
    <3>1. Len(args) = 2
      <4>1. PICK n : n = Len(args) OBVIOUS
      <4>2. n \in 0 .. 2 /\ 2 \in 1 .. n BY <1>1, <2>2, <4>1
      <4> QED BY <4>1, <4>2
    <3> QED BY <1>1, <1>2, <1>3, <2>2, <3>1 DEF Few, Table, Provided
  <2> QED BY <1>1, <2>1, <2>2
<1>5. files' = files BY <1>2, <1>4 DEF WithFile
<1>6. Table' BY <1>2, <1>3, <1>5 DEF Few, Table
<1>7. Fresh' /\ Explained' BY <1>2 DEF Fresh, Explained
<1>8. KnownBehind' BY <1>2 DEF Few, KnownBehind, Later
<1>10. Objects' BY <1>2 DEF Few, Objects, Units, Compiling, Alone, Both
<1>11. LastUnit' BY <1>1, <1>2, <1>5 DEF Few, LastUnit, Compiling
<1>12. FirstUnit'
  <2> SUFFICES ASSUME todo = 1, Len(args) = 2 PROVE FirstUnit' BY <1>2 DEF FirstUnit
  <2>1. files[1].included = << >> /\ Stored BY <1>2 DEF Few, FirstUnit, Compiling
  <2>2. Stored' BY <1>2, <1>5, <2>1 DEF Stored, Slots, Written, NoObject
  <2>3. Listed' BY <1>2, <1>5, <2>1 DEF Listed
  <2> QED BY <1>2, <2>2, <2>3 DEF FirstUnit
<1> QED BY <1>6, <1>7, <1>8, <1>10, <1>11, <1>12 DEF Few

\* While a file is compiled the includer is the first slot and the holder the last.
LEMMA FewSlots ==
  ASSUME DInv, Few, Len(args) <= 2, phase \in {"parse", "link", "emit"}
  PROVE  /\ Includer = 1 /\ Holder = Len(files) /\ 1 \in Slots /\ Len(files) \in Slots
         /\ todo \in 1 .. Len(args)
         /\ todo = Len(args) \/ (todo = 1 /\ Len(args) = 2)
<1>1. buff = Len(files) - 1 /\ todo >= 1 BY DEF DInv, LastBuffer
<1>2. PICK n, m : n = Len(args) /\ m = Len(files) OBVIOUS
<1>3. n \in 0 .. 2 /\ m \in Nat /\ todo \in 0 .. n BY <1>2, FewTypes DEF DInv
<1>4. todo \in 1 .. n /\ (todo = n \/ (todo = 1 /\ n = 2)) BY <1>1, <1>3
<1>5. Includer = 1 /\ Holder = m BY <1>1, <1>2, <1>3 DEF Includer, Holder
<1>6. Len(files) >= 1 BY <1>2, <1>4 DEF Few, Table, Added
<1> QED BY <1>2, <1>3, <1>4, <1>5, <1>6 DEF Slots

\* Of two files each has its slot.
LEMMA FewFound ==
  ASSUME DInv, Few, Len(args) = 2, phase \notin {"add", "failed"}
  PROVE  /\ \A f \in {args[1], args[2]} :
              Provided(f) /\ Lookup(f) = IF f = args[2] THEN Len(files) ELSE 1
         /\ \A f : Provided(f) => f \in {args[1], args[2]}
<1>1. /\ Len(files) = IF args[1] = args[2] THEN 1 ELSE 2
      /\ files[Len(files)].name = args[2] /\ files[1].name = args[1]
  BY DEF Few, Table, Added
<1>2. \A f : Provided(f) => f \in {args[1], args[2]}
  <2>1. CASE args[1] = args[2] BY <1>1, <2>1 DEF Provided
  <2>2. CASE args[1] # args[2]
    <3>1. Len(files) = 2 BY <1>1, <2>2
    <3>2. \A k \in 1 .. 2 : k = 1 \/ k = 2 OBVIOUS
    <3> QED BY <1>1, <3>1, <3>2 DEF Provided
  <2> QED BY <2>1, <2>2
<1>3. ASSUME NEW f \in {args[1], args[2]}
      PROVE  Provided(f) /\ Lookup(f) = IF f = args[2] THEN Len(files) ELSE 1
  <2>1. CASE args[1] = args[2] BY <1>1, <2>1 DEF Provided, Lookup
  <2>2. CASE args[1] # args[2]
    <3>1. Len(files) = 2 BY <1>1, <2>2
    <3>2. \A k \in 1 .. 2 : k = 1 \/ k = 2 OBVIOUS
    <3>3. \E k \in 1 .. Len(files) : files[k].name = f BY <1>1, <3>1
    <3>4. Lookup(f) \in 1 .. 2 /\ files[Lookup(f)].name = f BY <3>1, <3>3 DEF Lookup
    <3> QED BY <1>1, <2>2, <3>1, <3>2, <3>3, <3>4 DEF Provided
  <2> QED BY <2>1, <2>2
<1> QED BY <1>2, <1>3

LEMMA Longer ==
  ASSUME NEW S, NEW q \in Seq(S), NEW e \in S
  PROVE  /\ Append(q, e) \in Seq(S) /\ Len(Append(q, e)) = Len(q) + 1 /\ Len(q) \in Nat
         /\ Append(q, e)[Len(q) + 1] = e /\ Append(q, e) # << >>
         /\ \A i \in 1 .. Len(q) : Append(q, e)[i] = q[i]
OBVIOUS

\* An import is put on the list of the first slot.
LEMMA FewImported ==
  ASSUME DInv, Few, Len(args) <= 2, NEW f \in File, ParseImport(f)
  PROVE  Few'
<1>1. /\ phase = "parse" /\ Provided(f) /\ f \in known
      /\ files' = [files EXCEPT ![Includer].included = Append(@, Lookup(f))]
      /\ imports' = Append(imports, f) /\ known' = known \cup {args[todo]}
      /\ UNCHANGED <<args, todo, phase, buff, queue, code, mains, creators, object, there>>
  BY DEF ParseImport
<1>2. /\ Includer = 1 /\ 1 \in Slots /\ todo \in 1 .. Len(args)
      /\ todo = Len(args) \/ (todo = 1 /\ Len(args) = 2)
  BY <1>1, FewSlots
<1>3. /\ Later(todo) \subseteq known
      /\ known \subseteq Later(todo) \cup (IF imports = << >> THEN {} ELSE {args[todo]})
  BY <1>1 DEF Few, KnownBehind
<1>4. todo = 1 /\ Len(args) = 2
  <2> SUFFICES ASSUME todo = Len(args) PROVE FALSE BY <1>2
  <2>1. imports = << >> BY <1>1, <1>2 DEF Few, LastUnit, Compiling
  <2>2. Later(todo) = {}
    <3>1. Len(args) \in Nat BY FewTypes DEF DInv
    <3> QED BY <3>1 DEF Later
  <2> QED BY <1>1, <1>3, <2>1, <2>2
<1>5. Later(1) = {args[2]} BY <1>4 DEF Later
<1>6. f \in {args[1], args[2]} /\ Lookup(f) = IF f = args[2] THEN Len(files) ELSE 1
  <2>1. f \in {args[1], args[2]} BY <1>1, <1>3, <1>4, <1>5
  <2> QED BY <1>1, <1>4, <2>1, FewFound
<1>7. /\ args \in Seq(File) /\ files \in Seq(FileType) /\ Len(files) \in Nat
      /\ imports \in Seq(File) /\ \A k \in Slots : files[k] \in FileType
  BY FewTypes DEF DInv
<1>8. Lookup(f) \in Nat \ {0}
  <2>1. Lookup(f) \in 1 .. Len(files) BY <1>1 DEF Provided, Lookup
  <2> QED BY <1>7, <2>1
<1>9. PICK old : old = files[1].included OBVIOUS
<1>10. old \in Seq(Nat \ {0}) BY <1>2, <1>7, <1>9 DEF FileType
<1>11. PICK e : e = [files[1] EXCEPT !.included = Append(old, Lookup(f))] OBVIOUS
<1>12. e \in FileType /\ e.name = files[1].name /\ e.module = files[1].module
       /\ e.included = Append(old, Lookup(f))
  <2>1. Append(old, Lookup(f)) \in Seq(Nat \ {0}) BY <1>8, <1>10, Longer
  <2> QED BY <1>2, <1>7, <1>11, <2>1 DEF FileType
<1>13. files' = [files EXCEPT ![1] = e] BY <1>1, <1>2, <1>9, <1>11
<1>14. /\ Len(files') = Len(files) /\ Slots' = Slots
       /\ \A k \in Slots : files'[k] = IF k = 1 THEN e ELSE files[k]
  <2>1. 1 \in 1 .. Len(files) BY <1>2 DEF Slots
  <2> QED BY <1>7, <1>12, <1>13, <2>1, PutOne DEF Slots
<1>15. \A k \in Slots : files'[k].name = files[k].name /\ files'[k].module = files[k].module
  BY <1>12, <1>14
<1>16. Table'
  <2>1. Len(files) \in Slots BY <1>1, FewSlots
  <2> QED BY <1>1, <1>2, <1>14, <1>15, <2>1 DEF Few, Table, Added
<1>17. Fresh' /\ Explained' BY <1>1 DEF Fresh, Explained
<1>18. imports' # << >> BY <1>1, <1>7, Longer
<1>19. KnownBehind' BY <1>1, <1>3, <1>18 DEF KnownBehind, Later
<1>21. Objects' BY <1>1 DEF Few, Objects, Units, Compiling, Alone, Both
<1>22. LastUnit'
  <2>1. todo' # Len(args') BY <1>1, <1>4
  <2> QED BY <2>1 DEF LastUnit
<1>23. Listed /\ Stored BY <1>1, <1>4 DEF Few, FirstUnit, Compiling
<1>24. Stored' BY <1>1, <1>14, <1>15, <1>23 DEF Stored, Written, NoObject
<1>25. Listed'
  <2>1. PICK new : new = Append(old, Lookup(f)) OBVIOUS
  <2>2. PICK lines : lines = Append(imports, f) OBVIOUS
  <2>3. PICK n : n = Len(imports) OBVIOUS
  <2>4. /\ Len(old) = n
        /\ \A i \in 1 .. n : /\ imports[i] \in {args[1], args[2]}
                             /\ old[i] = IF imports[i] = args[2] THEN Len(files) ELSE 1
    BY <1>9, <1>23, <2>3 DEF Listed
  <2>5. n \in Nat /\ Len(new) = n + 1 /\ new[n + 1] = Lookup(f) /\ \A i \in 1 .. n : new[i] = old[i]
    BY <1>8, <1>10, <2>1, <2>4, Longer
  <2>6. Len(lines) = n + 1 /\ lines[n + 1] = f /\ \A i \in 1 .. n : lines[i] = imports[i]
    BY <1>7, <2>2, <2>3, Longer
  <2>7. \A i \in 1 .. n + 1 : i \in 1 .. n \/ i = n + 1 BY <2>5
  <2>8. \A i \in 1 .. n + 1 : /\ lines[i] \in {args[1], args[2]}
                               /\ new[i] = IF lines[i] = args[2] THEN Len(files) ELSE 1
    BY <1>6, <2>4, <2>5, <2>6, <2>7
  <2>9. files'[1].included = new /\ imports' = lines
    BY <1>1, <1>2, <1>12, <1>14, <2>1, <2>2
  <2>10. args' = args /\ Len(files') = Len(files) BY <1>1, <1>14
  <2>11. /\ Len(new) = Len(lines)
         /\ \A i \in 1 .. Len(lines) : /\ lines[i] \in {args'[1], args'[2]}
                                       /\ new[i] = IF lines[i] = args'[2] THEN Len(files') ELSE 1
    BY <2>5, <2>6, <2>8, <2>10
  <2> QED BY ONLY <2>9, <2>11 DEF Listed
<1>26. FirstUnit' BY <1>1, <1>24, <1>25 DEF FirstUnit
<1> QED BY <1>16, <1>17, <1>19, <1>21, <1>22, <1>26 DEF Few

\* What holds of main's state holds when it ends.
LEMMA FewEnd ==
  ASSUME Few, Compiling, phase' \in {"failed", "done", "exited"},
         UNCHANGED <<args, todo, files, object>>, phase' = "failed" => Reason'
  PROVE  Few'
<1>1. Table' BY DEF Few, Table, Added, Compiling
<1>2. Fresh' /\ KnownBehind' BY DEF Fresh, KnownBehind
<1>3. LastUnit' /\ FirstUnit' BY DEF LastUnit, FirstUnit, Compiling
<1>4. Objects' BY DEF Few, Objects, Units, Compiling, Alone, Both
<1>5. Explained' BY DEF Explained
<1> QED BY <1>1, <1>2, <1>3, <1>4, <1>5 DEF Few

LEMMA FewRefused ==
  ASSUME DInv, Few, Len(args) <= 2, NEW f \in File, ParseBadImport(f)
  PROVE  Few'
<1>1. /\ ~Provided(f) \/ f \notin known
      /\ imports' = Append(imports, f) /\ phase' = "failed"
      /\ UNCHANGED <<args, todo, files, buff, known, queue, code, object, mains, creators>>
      /\ phase = "parse"
  BY DEF ParseBadImport, Fail
<1>2. todo \in 1 .. Len(args) /\ (todo = Len(args) \/ (todo = 1 /\ Len(args) = 2))
  BY <1>1, FewSlots
<1>3. Later(todo) \subseteq known BY <1>1 DEF Few, KnownBehind
<1>4. f \notin Later(todo)
  <2>1. CASE f \notin known BY <1>3, <2>1
  <2>2. CASE ~Provided(f) /\ todo = Len(args)
    <3>1. Len(args) \in Nat BY FewTypes DEF DInv
    <3> QED BY <2>2, <3>1 DEF Later
  <2>3. CASE ~Provided(f) /\ todo = 1 /\ Len(args) = 2
    <3>1. f # args[2] BY <1>1, <2>3, FewFound
    <3> QED BY <2>3, <3>1 DEF Later
  <2> QED BY <1>1, <1>2, <2>1, <2>2, <2>3
<1>5. Reason'
  <2>1. imports \in Seq(File) BY FewTypes DEF DInv
  <2>2. PICK r : r = Append(imports, f) OBVIOUS
  <2>3. Len(r) = Len(imports) + 1 /\ Len(imports) \in Nat /\ r[Len(imports) + 1] = f
    BY <2>1, <2>2, Longer
  <2>4. \E i \in 1 .. Len(r) : r[i] = f BY <2>3
  <2> QED BY <1>1, <1>4, <2>2, <2>4 DEF Reason, Later
<1> QED BY <1>1, <1>5, FewEnd DEF Compiling

LEMMA FewParsed ==
  ASSUME DInv, Few, Len(args) <= 2, ParseProgram
  PROVE  Few'
<1>1. /\ phase = "parse" /\ phase' = "link" /\ known' = known \cup {args[todo]}
      /\ queue' = files[Includer].included
      /\ UNCHANGED <<args, todo, files, buff, imports, code, mains, creators, object, there>>
  BY DEF ParseProgram
<1>2. /\ Includer = 1 /\ todo \in 1 .. Len(args)
      /\ todo = Len(args) \/ (todo = 1 /\ Len(args) = 2)
  BY <1>1, FewSlots
<1>3. Table' BY <1>1 DEF Few, Table, Added
<1>4. Fresh' /\ Explained' BY <1>1 DEF Fresh, Explained
<1>5. known' = Later(todo) \cup {args[todo]}
  <2>1. /\ Later(todo) \subseteq known
        /\ known \subseteq Later(todo) \cup (IF imports = << >> THEN {} ELSE {args[todo]})
    BY <1>1 DEF Few, KnownBehind
  <2> QED BY <1>1, <2>1
<1>6. KnownBehind' BY <1>1, <1>5 DEF KnownBehind, Later
<1>8. Objects' BY <1>1 DEF Few, Objects, Units, Compiling, Alone, Both
<1>9. LastUnit' BY <1>1, <1>2 DEF Few, LastUnit, Compiling
<1>10. FirstUnit'
  <2> SUFFICES ASSUME todo = 1, Len(args) = 2 PROVE FirstUnit' BY <1>1 DEF FirstUnit
  <2>1. Listed /\ Stored BY <1>1 DEF Few, FirstUnit, Compiling
  <2>2. code = {} BY <1>1 DEF DInv, Behind
  <2>3. Listed' BY <1>1, <2>1 DEF Listed
  <2>4. Queued' BY <1>1, <1>2, <2>1, <2>2 DEF Queued, Stored, Slots, Written, NoObject
  <2> QED BY <1>1, <2>3, <2>4 DEF FirstUnit
<1> QED BY <1>3, <1>4, <1>6, <1>8, <1>9, <1>10 DEF Few

\* What is behind the first of a list.
LEMMA Shorter ==
  ASSUME NEW S, NEW q \in Seq(S), q # << >>
  PROVE  /\ Head(q) = q[1] /\ 1 \in 1 .. Len(q)
         /\ Tail(q) = << >> => Len(q) = 1
         /\ Tail(q) # << >> => Head(Tail(q)) = q[2] /\ 2 \in 1 .. Len(q)
<1>1. PICK n, t : n = Len(q) /\ t = Tail(q) OBVIOUS
<1>2. n \in Nat /\ n >= 1 /\ Head(q) = q[1] BY <1>1
<1>3. t \in Seq(S) /\ Len(t) = n - 1 /\ \A i \in 1 .. n - 1 : t[i] = q[i + 1] BY <1>1, <1>2
<1>4. t = << >> => n = 1
  <2>1. Len(<< >>) = 0 OBVIOUS
  <2> QED BY <1>2, <1>3, <2>1
<1>5. ASSUME t # << >> PROVE Head(t) = q[2] /\ 2 \in 1 .. n
  <2>1. Len(t) # 0 BY <1>3, <1>5
  <2>2. n >= 2 BY <1>2, <1>3, <2>1
  <2>3. Head(t) = t[1] BY <1>3, <1>5
  <2>4. 1 \in 1 .. n - 1 BY <1>2, <2>2
  <2> QED BY <1>2, <1>3, <2>2, <2>3, <2>4
<1> QED BY <1>1, <1>2, <1>4, <1>5

\* A visitor that has something to link is that of the first of two files, with the
\* list of its imports.
LEMMA FewLinking ==
  ASSUME DInv, Few, Len(args) <= 2, phase = "link", todo = 1, Len(args) = 2
  PROVE  /\ Listed /\ (Queued \/ Taken)
         /\ files[1].included \in Seq(Nat \ {0}) /\ imports \in Seq(File)
         /\ Len(imports) \in Nat /\ Len(imports) = Len(files[1].included)
<1>1. Listed /\ (Queued \/ Taken) BY DEF Few, FirstUnit, Compiling
<1>2. 1 \in Slots BY FewSlots
<1>3. files[1] \in FileType /\ imports \in Seq(File) BY <1>2, FewTypes DEF DInv
<1> QED BY <1>1, <1>3 DEF FileType, Listed

LEMMA FewQueue ==
  ASSUME DInv, Few, Len(args) <= 2, phase = "link", queue # << >>
  PROVE  todo = 1 /\ Len(args) = 2
<1>1. todo \in 1 .. Len(args) /\ (todo = Len(args) \/ (todo = 1 /\ Len(args) = 2)) BY FewSlots
<1>2. todo # Len(args) BY <1>1 DEF Few, LastUnit, Compiling
<1> QED BY <1>1, <1>2

\* The module of the last file is linked, for the first import.
LEMMA FewLinked ==
  ASSUME DInv, Few, Len(args) <= 2, LinkModule
  PROVE  Few'
<1>1. /\ phase = "link" /\ queue # << >> /\ files[Head(queue)].module # {}
      /\ code' = code \cup files[Head(queue)].module
      /\ files' = [files EXCEPT ![Head(queue)].module = {}] /\ queue' = Tail(queue)
      /\ UNCHANGED <<args, todo, phase, buff, imports, known, mains, creators, object, there>>
  BY DEF LinkModule, NoModule
<1>2. todo = 1 /\ Len(args) = 2 BY <1>1, FewQueue
<1>3. /\ Listed /\ (Queued \/ Taken)
      /\ files[1].included \in Seq(Nat \ {0}) /\ Len(imports) = Len(files[1].included)
  BY <1>1, <1>2, FewLinking
<1>4. /\ files \in Seq(FileType) /\ queue \in Seq(Slots)
      /\ \A k \in Slots : files[k] \in FileType
  BY FewTypes DEF DInv
<1>5. PICK h : h = Head(queue) OBVIOUS
<1>6. h \in Slots BY <1>1, <1>4, <1>5
<1>7. Queued
  <2> SUFFICES ASSUME Taken PROVE FALSE BY <1>3
  <2> QED BY <1>1, <1>5, <1>6 DEF Taken
<1>8. files[1].included # << >> /\ h = files[1].included[1]
  BY <1>1, <1>3, <1>5, <1>7, Shorter DEF Queued
<1>9. h = Len(files) /\ Written(2) /\ files[h].module = {2}
  BY <1>1, <1>5, <1>6, <1>7 DEF Queued, Stored
<1>10. 1 \in 1 .. Len(imports) /\ imports # << >>
  <2>1. 1 \in 1 .. Len(imports) BY <1>3, <1>8, Shorter
  <2>2. Len(<< >>) = 0 OBVIOUS
  <2>3. Len(imports) # 0 BY <2>1
  <2> QED BY <2>1, <2>2, <2>3
<1>11. imports[1] = args[2]
  <2>1. /\ imports[1] \in {args[1], args[2]}
        /\ h = IF imports[1] = args[2] THEN Len(files) ELSE 1
    BY <1>3, <1>8, <1>10 DEF Listed
  <2>2. Len(files) = IF args[1] = args[2] THEN 1 ELSE 2 BY <1>1, <1>2 DEF Few, Table, Added
  <2> QED BY <1>9, <2>1, <2>2
<1>12. PICK e : e = [files[h] EXCEPT !.module = {}] OBVIOUS
<1>13. e \in FileType /\ e.name = files[h].name /\ e.module = {}
       /\ e.included = files[h].included
  BY <1>4, <1>6, <1>12 DEF FileType
<1>14. files' = [files EXCEPT ![h] = e] BY <1>1, <1>5, <1>12
<1>15. /\ Len(files') = Len(files) /\ Slots' = Slots
       /\ \A k \in Slots : files'[k] = IF k = h THEN e ELSE files[k]
  <2>1. h \in 1 .. Len(files) BY <1>6 DEF Slots
  <2> QED BY <1>4, <1>13, <1>14, <2>1, PutOne DEF Slots
<1>16. \A k \in Slots : files'[k].name = files[k].name /\ files'[k].included = files[k].included
  BY <1>13, <1>15
<1>17. 1 \in Slots /\ Len(files) \in Slots BY <1>1, FewSlots
<1>18. Table' BY <1>1, <1>2, <1>15, <1>16, <1>17 DEF Few, Table, Added
<1>19. Fresh' /\ Explained' BY <1>1 DEF Fresh, Explained
<1>20. KnownBehind' BY <1>1 DEF Few, KnownBehind, Later
<1>22. Objects' BY <1>1 DEF Few, Objects, Units, Compiling, Alone, Both
<1>23. LastUnit'
  <2>1. todo' # Len(args') BY <1>1, <1>2
  <2> QED BY <2>1 DEF LastUnit
<1>24. Listed' BY <1>1, <1>3, <1>15, <1>16, <1>17 DEF Listed
<1>25. Taken'
  <2>1. Written(2)' BY <1>1, <1>9 DEF Written, NoObject
  <2>2. queue' = Tail(files'[1].included) BY <1>1, <1>7, <1>16, <1>17 DEF Queued
  <2>3. code' = {2} BY <1>1, <1>5, <1>7, <1>9 DEF Queued
  <2>4. \A k \in Slots : files'[k].module = {}
    BY <1>7, <1>9, <1>13, <1>15 DEF Queued, Stored
  <2> QED BY <1>1, <1>10, <1>11, <1>15, <2>1, <2>2, <2>3, <2>4 DEF Taken
<1>26. FirstUnit' BY <1>1, <1>24, <1>25 DEF FirstUnit
<1> QED BY <1>18, <1>19, <1>20, <1>22, <1>23, <1>26 DEF Few

\* Nothing is there to link when the last file has no object, when it has been linked, or
\* when the import is of the file at hand.
LEMMA FewNothing ==
  ASSUME DInv, Few, Len(args) <= 2, LinkNothing
  PROVE  Few'
<1>1. /\ phase = "link" /\ queue # << >> /\ files[Head(queue)].module = {}
      /\ phase' = "failed"
      /\ UNCHANGED <<args, todo, files, buff, imports, known, queue, code, mains, creators, object, there>>
  BY DEF LinkNothing, NoModule, Fail
<1>2. todo = 1 /\ Len(args) = 2 BY <1>1, FewQueue
<1>3. /\ Listed /\ (Queued \/ Taken)
      /\ files[1].included \in Seq(Nat \ {0}) /\ Len(imports) = Len(files[1].included)
  BY <1>1, <1>2, FewLinking
<1>4. Later(1) = {args[2]} BY <1>2 DEF Later
<1>5. Reason
  <2>1. CASE Queued
    <3>1. /\ files[1].included # << >> /\ Head(queue) = files[1].included[1]
          /\ 1 \in 1 .. Len(imports)
      BY <1>1, <1>3, <2>1, Shorter DEF Queued
    <3>2. CASE imports[1] # args[2] BY <1>2, <1>4, <3>1, <3>2 DEF Reason
    <3>3. CASE imports[1] = args[2]
      <4>1. Head(queue) = Len(files) BY <1>3, <3>1, <3>3 DEF Listed
      <4>2. ~Written(2)
        <5>1. Len(files) \in Slots BY <1>1, FewSlots
        <5> QED BY <1>1, <2>1, <4>1, <5>1 DEF Queued, Stored
      <4>3. imports # << >> BY <3>1
      <4> QED BY <1>2, <4>2, <4>3 DEF Reason
    <3> QED BY <3>2, <3>3
  <2>2. CASE Taken
    <3>1. files[1].included # << >>
      <4>1. Len(<< >>) = 0 OBVIOUS
      <4>2. imports \in Seq(File) /\ imports # << >>
        BY <1>1, <1>2, <2>2, FewLinking DEF Taken
      <4>3. Len(imports) # 0 BY <4>2
      <4> QED BY <1>3, <4>1, <4>3
    <3>2. 1 \in 1 .. Len(imports) /\ 2 \in 1 .. Len(imports)
      BY <1>1, <1>3, <2>2, <3>1, Shorter DEF Taken
    <3>3. CASE imports[2] # args[2] BY <1>2, <1>4, <3>2, <3>3 DEF Reason
    <3>4. CASE imports[2] = args[2] BY <2>2, <3>2, <3>4 DEF Taken, Reason, Twice
    <3> QED BY <3>3, <3>4
  <2> QED BY <1>3, <2>1, <2>2
<1>6. Reason'
  BY <1>1, <1>5 DEF Reason, Twice, Later, Written, NoObject, BothUnmade, Unopened, Units
<1> QED BY <1>1, <1>6, FewEnd DEF Compiling

\* With nothing left to link, the first of two files has imported nothing, or the last.
LEMMA FewUnlinked ==
  ASSUME DInv, Few, Len(args) <= 2, phase = "link", queue = << >>, todo = 1, Len(args) = 2
  PROVE  \/ imports = << >> /\ code = {}
         \/ imports = <<args[2]>> /\ code = {2}
<1>1. /\ Listed /\ (Queued \/ Taken)
      /\ files[1].included \in Seq(Nat \ {0}) /\ Len(imports) = Len(files[1].included)
      /\ imports \in Seq(File)
  BY FewLinking
<1>2. CASE Queued
  <2>1. Len(imports) = 0 BY <1>1, <1>2 DEF Queued
  <2> QED BY <1>1, <1>2, <2>1 DEF Queued
<1>3. CASE Taken
  <2>1. files[1].included # << >>
    <3>1. Len(<< >>) = 0 OBVIOUS
    <3>2. Len(imports) # 0 BY <1>1, <1>3 DEF Taken
    <3> QED BY <1>1, <3>1, <3>2
  <2>2. Len(imports) = 1 /\ imports[1] = args[2] BY <1>1, <1>3, <2>1, Shorter DEF Taken
  <2>3. imports = <<args[2]>> BY <1>1, <2>2
  <2> QED BY <1>3, <2>3 DEF Taken
<1> QED BY <1>1, <1>2, <1>3

LEMMA FewVisited ==
  ASSUME DInv, Few, Len(args) <= 2, NEW declaresMain \in BOOLEAN, NEW definesCreate \in BOOLEAN,
         VisitModule(declaresMain, definesCreate)
  PROVE  Few'
<1>1. /\ phase = "link" /\ queue = << >> /\ phase' = "emit" /\ code' = code \cup {todo}
      /\ UNCHANGED <<args, todo, files, buff, imports, known, queue, object, there>>
  BY DEF VisitModule
<1>2. todo \in 1 .. Len(args) /\ (todo = Len(args) \/ (todo = 1 /\ Len(args) = 2))
  BY <1>1, FewSlots
<1>3. Table' BY <1>1 DEF Few, Table, Added
<1>4. Fresh' /\ Explained' BY <1>1 DEF Fresh, Explained
<1>5. KnownBehind' BY <1>1 DEF Few, KnownBehind, Later
<1>7. Objects' BY <1>1 DEF Few, Objects, Units, Compiling, Alone, Both
<1>8. LastUnit' BY <1>1, <1>2 DEF Few, LastUnit, Compiling
<1>9. FirstUnit'
  <2> SUFFICES ASSUME todo = 1, Len(args) = 2 PROVE FirstUnit' BY <1>1 DEF FirstUnit
  <2>1. \/ imports = << >> /\ code = {}
        \/ imports = <<args[2]>> /\ code = {2}
    BY <1>1, FewUnlinked
  <2>2. \/ imports' = << >> /\ code' = {1}
        \/ imports' = <<args'[2]>> /\ code' = {1, 2}
    BY <1>1, <2>1
  <2> QED BY <1>1, <2>2 DEF FirstUnit
<1> QED BY <1>3, <1>4, <1>5, <1>7, <1>8, <1>9 DEF Few

\* Without a Main_Create in the module at hand there is none in what it imports.
LEMMA FewLost ==
  ASSUME DInv, Few, Len(args) <= 2, NEW declaresMain \in BOOLEAN, VisitModuleLost(declaresMain)
  PROVE  Few'
<1>1. /\ phase = "link" /\ queue = << >> /\ phase' = "failed"
      /\ mains' # {} /\ creators \cap code = {}
      /\ UNCHANGED <<args, todo, files, buff, imports, known, queue, code, creators, object>>
  BY DEF VisitModuleLost, Fail
<1>2. todo \in 1 .. Len(args) /\ (todo = Len(args) \/ (todo = 1 /\ Len(args) = 2))
  BY <1>1, FewSlots
<1>3. imports = << >> \/ BothUnmade
  <2>1. CASE todo = Len(args)
    BY <1>1, <1>2, <2>1 DEF Few, LastUnit, Compiling
  <2>2. CASE todo = 1 /\ Len(args) = 2
    BY <1>1, <2>2, FewUnlinked DEF BothUnmade
  <2> QED BY <1>2, <2>1, <2>2
<1>4. Reason' BY <1>1, <1>3 DEF Reason, BothUnmade
<1> QED BY <1>1, <1>4, FewEnd DEF Compiling

\* The file behind the one at hand is the one before it on the command line.
LEMMA LaterNext ==
  ASSUME NEW u \in 1 .. Len(args), Len(args) \in Nat
  PROVE  Later(u - 1) = Later(u) \cup {args[u]}
<1>1. \A v : v \in (u - 1) + 1 .. Len(args) <=> v = u \/ v \in u + 1 .. Len(args) OBVIOUS
<1> QED BY <1>1 DEF Later

\* What was compiled is put aside, or is gone.
LEMMA FewCompiled ==
  ASSUME DInv, Few, Len(args) <= 2, phase = "emit", phase' = "read", todo' = todo - 1,
         UNCHANGED <<args, imports, known, queue, mains, creators, there>>,
         Len(files') = Len(files), Slots' = Slots,
         \A k \in Slots : files'[k].name = files[k].name
                          /\ files'[k].included = files[k].included,
         \/ /\ object' = [object EXCEPT ![todo] = [imports |-> imports, code |-> code]]
            /\ \A k \in Slots : files'[k].module = IF k = Len(files) THEN code ELSE files[k].module
         \/ object' = object /\ \A k \in Slots : files'[k].module = files[k].module
  PROVE  Few'
<1>1. /\ todo \in 1 .. Len(args) /\ (todo = Len(args) \/ (todo = 1 /\ Len(args) = 2))
      /\ 1 \in Slots /\ Len(files) \in Slots
  BY FewSlots
<1>2. Len(args) \in Nat /\ Len(args) \in 0 .. 2 /\ object \in [Units -> ObjectType]
      /\ files \in Seq(FileType)
  BY FewTypes DEF DInv
<1>3. Table'
  <2>1. Added = Len(args) /\ Added' = Len(args) BY DEF Added
  <2>2. files # << >> /\ Len(files) >= 1 /\ Len(args) # 0 BY <1>1, <1>2 DEF Slots
  <2> QED BY <1>1, <2>1, <2>2 DEF Few, Table
<1>4. Fresh' /\ Explained' BY DEF Fresh, Explained
<1>5. KnownBehind'
  <2>1. known = Later(todo) \cup {args[todo]} BY DEF Few, KnownBehind
  <2>2. known' = Later(todo - 1) BY <1>1, <1>2, <2>1, LaterNext
  <2> QED BY <2>2 DEF KnownBehind, Later
<1>7. /\ todo = Len(args) => imports = << >> /\ code = {todo} /\ files[1].included = << >>
      /\ todo = 1 /\ Len(args) = 2 =>
           \/ imports = << >> /\ code = {1}
           \/ imports = <<args[2]>> /\ code = {1, 2}
  BY <1>1 DEF Few, LastUnit, FirstUnit, Compiling
<1>8. Objects'
  <2>1. /\ \A u \in Units : \/ object[u] = NoObject
                            \/ object[u] = Alone(u)
                            \/ u = 1 /\ Len(args) = 2 /\ object[u] = Both
        /\ \A u \in Units : u <= todo => object[u] = NoObject
    BY DEF Few, Objects, Compiling
  <2>2. \A u \in Units : u # todo => object'[u] = object[u]
    BY <1>2
  <2>3. \/ object'[todo] = object[todo]
        \/ object'[todo] = Alone(todo)
        \/ todo = 1 /\ Len(args) = 2 /\ object'[todo] = Both
    <3>1. CASE object' = object BY <3>1
    <3>2. CASE object' = [object EXCEPT ![todo] = [imports |-> imports, code |-> code]]
      <4>1. object'[todo] = [imports |-> imports, code |-> code] BY <1>1, <1>2, <3>2 DEF Units
      <4> QED BY <1>1, <1>7, <4>1 DEF Alone, Both
    <3> QED BY <3>1, <3>2
  <2>4. todo \in Units BY <1>1 DEF Units
  <2>5. ASSUME NEW u \in Units
        PROVE  \/ object'[u] = NoObject
               \/ object'[u] = Alone(u)
               \/ u = 1 /\ Len(args) = 2 /\ object'[u] = Both
    <3>1. CASE u = todo BY <2>1, <2>3, <2>4, <3>1
    <3>2. CASE u # todo BY <2>1, <2>2, <3>2
    <3> QED BY <3>1, <3>2
  <2>6. \A u \in Units : u <= todo - 1 => u # todo /\ u <= todo BY <1>1, <1>2 DEF Units
  <2>7. \A u \in Units : u <= todo - 1 => object'[u] = NoObject BY <2>1, <2>2, <2>6
  <2>8. NoObject' = NoObject /\ (\A u \in Units : Alone(u)' = Alone(u)) /\ Both' = Both
        /\ Units' = Units /\ Len(args') = Len(args)
    BY DEF NoObject, Alone, Both, Units
  <2> QED BY <2>5, <2>7, <2>8 DEF Objects
<1>9. LastUnit'
  <2>1. todo' # Len(args') \/ todo' < 1 BY <1>1, <1>2
  <2> QED BY <1>1, <1>2, <2>1 DEF LastUnit
<1>10. FirstUnit'
  <2> SUFFICES ASSUME todo' = 1, Len(args') = 2 PROVE FirstUnit' BY DEF FirstUnit
  <2>1. todo = 2 /\ Len(args) = 2 BY <1>1
  <2>2. files'[1].included = << >> BY <1>1, <1>7, <2>1
  <2>3. \A k \in Slots : files[k].module = {}
    <3>1. \A k \in Slots : files[k].module \subseteq todo + 1 .. Len(args)
      BY DEF DInv, Behind
    <3> QED BY <2>1, <3>1
  <2>4. object[2] = NoObject BY <2>1 DEF Few, Objects, Units, Compiling
  <2>5. Stored'
    <3>1. CASE /\ object' = [object EXCEPT ![todo] = [imports |-> imports, code |-> code]]
               /\ \A k \in Slots :
                    files'[k].module = IF k = Len(files) THEN code ELSE files[k].module
      <4>1. code = {2} /\ object'[2] = [imports |-> imports, code |-> code]
        BY <1>2, <1>7, <2>1, <3>1 DEF Units
      <4>2. object'[2] # NoObject
        <5>1. object'[2].code = {2} BY <4>1
        <5>2. NoObject.code = {} BY DEF NoObject
        <5>3. {2} # {} OBVIOUS
        <5> QED BY <5>1, <5>2, <5>3
      <4> QED BY <2>3, <3>1, <4>1, <4>2 DEF Stored, Written, NoObject
    <3>2. CASE object' = object /\ \A k \in Slots : files'[k].module = files[k].module
      BY <2>3, <2>4, <3>2 DEF Stored, Written, NoObject
    <3> QED BY <3>1, <3>2
  <2> QED BY <2>2, <2>5 DEF FirstUnit
<1> QED BY <1>3, <1>4, <1>5, <1>8, <1>9, <1>10 DEF Few

LEMMA FewWritten ==
  ASSUME DInv, Few, Len(args) <= 2, CreateObjFile
  PROVE  Few'
<1>1. /\ phase = "emit" /\ phase' = "read" /\ todo' = todo - 1
      /\ object' = [object EXCEPT ![todo] = [imports |-> imports, code |-> code]]
      /\ files' = [files EXCEPT ![Holder].module = code]
      /\ UNCHANGED <<args, buff, imports, known, queue, mains, creators, there>>
  BY DEF CreateObjFile
<1>2. Holder = Len(files) /\ Len(files) \in Slots BY <1>1, FewSlots
<1>3. files \in Seq(FileType) /\ \A k \in Slots : files[k] \in FileType BY FewTypes DEF DInv
<1>4. PICK h : h = Holder OBVIOUS
<1>5. PICK e : e = [files[h] EXCEPT !.module = code] OBVIOUS
<1>6. code \in SUBSET Nat BY DEF DInv, TypeOK, Units
<1>7. e \in FileType /\ e.name = files[h].name /\ e.module = code
      /\ e.included = files[h].included
  BY <1>2, <1>3, <1>4, <1>5, <1>6 DEF FileType
<1>8. files' = [files EXCEPT ![h] = e] BY <1>1, <1>4, <1>5
<1>9. /\ Len(files') = Len(files) /\ Slots' = Slots
      /\ \A k \in Slots : files'[k] = IF k = h THEN e ELSE files[k]
  <2>1. h \in 1 .. Len(files) BY <1>2, <1>4 DEF Slots
  <2> QED BY <1>3, <1>7, <1>8, <2>1, PutOne DEF Slots
<1>10. \A k \in Slots : files'[k].name = files[k].name
                        /\ files'[k].included = files[k].included
  BY <1>7, <1>9
<1>11. \A k \in Slots : files'[k].module = IF k = Len(files) THEN code ELSE files[k].module
  BY <1>2, <1>4, <1>7, <1>9
<1> QED BY <1>1, <1>9, <1>10, <1>11, FewCompiled

LEMMA FewUnwritten ==
  ASSUME DInv, Few, Len(args) <= 2, CreateObjFileFails
  PROVE  Few'
<1>1. /\ phase = "emit" /\ phase' = "read" /\ todo' = todo - 1
      /\ UNCHANGED <<args, files, buff, imports, known, queue, mains, creators, object, there>>
  BY DEF CreateObjFileFails
<1>2. Len(files') = Len(files) /\ Slots' = Slots BY <1>1 DEF Slots
<1> QED BY <1>1, <1>2, FewCompiled

\* A file that is still to be opened goes: nothing that was found out changes.
LEMMA FewLose ==
  ASSUME DInv, Few, Len(args) <= 2, NEW u \in Units, LoseFile(u)
  PROVE  Few'
<1>1. /\ phase \in {"add", "read"}
      /\ UNCHANGED <<args, todo, files, phase, buff, imports, known, queue, code, mains, creators,
                     object>>
  BY DEF LoseFile
<1>2. Table' BY <1>1 DEF Few, Table, Added
<1>3. Fresh' BY <1>1 DEF Few, Fresh, Slots
<1>4. KnownBehind' BY <1>1 DEF Few, KnownBehind, Later
<1>5. Objects' BY <1>1 DEF Few, Objects, Units, Compiling, Alone, Both
<1>6. LastUnit' BY <1>1 DEF Few, LastUnit, Compiling
<1>7. FirstUnit' BY <1>1 DEF Few, FirstUnit, Compiling, Stored, Slots, Written, NoObject
<1>8. Explained' BY <1>1 DEF Explained
<1> QED BY <1>2, <1>3, <1>4, <1>5, <1>6, <1>7, <1>8 DEF Few

\* A file that cannot be opened is a reason.
LEMMA FewThrown ==
  ASSUME DInv, Few, Len(args) <= 2, AddFileThrows \/ ReadSourceThrows
  PROVE  Few'
<1>1. /\ phase \in {"add", "read"} /\ phase' = "failed"
      /\ UNCHANGED <<args, todo, files, object, there>>
      /\ \/ phase = "add" /\ todo < Len(args) /\ todo + 1 \notin there
         \/ phase = "read" /\ todo > 0 /\ todo \notin there
  BY DEF AddFileThrows, ReadSourceThrows, Fail
<1>2. todo \in 0 .. Len(args) /\ Len(args) \in Nat
  BY FewTypes DEF DInv
<1>3. \E u \in {todo, todo + 1} \cap Units : u \notin there
  <2>1. CASE phase = "add"
    <3>1. todo + 1 \in Units BY <1>1, <1>2, <2>1 DEF Units
    <3> QED BY <1>1, <2>1, <3>1
  <2>2. CASE phase = "read"
    <3>1. todo \in Units BY <1>1, <1>2, <2>2 DEF Units
    <3> QED BY <1>1, <2>2, <3>1
  <2> QED BY <1>1, <2>1, <2>2
<1>4. Reason' BY <1>1, <1>3 DEF Reason, Unopened, Units
<1>5. Table' /\ Fresh' /\ KnownBehind' /\ LastUnit' /\ FirstUnit'
  BY <1>1 DEF Table, Fresh, KnownBehind, LastUnit, FirstUnit, Compiling
<1>6. Objects' BY <1>1 DEF Few, Objects, Units, Compiling, Alone, Both
<1>7. Explained' BY <1>4 DEF Explained
<1> QED BY <1>5, <1>6, <1>7 DEF Few

LEMMA FewNext == DInv /\ FewInv /\ [Next]_vars => FewInv'
<1> SUFFICES ASSUME DInv, FewInv, [Next]_vars, Len(args') <= 2 PROVE Few'
  BY DEF FewInv
<1>1. args' = args
  BY DEF Next, vars, LoseFile, AddFile, AddFileThrows, ReadSourceThrows, StartCompiling, ReadSource, ParseImport, ParseBadImport, Fail,
         ParseProgram, LinkModule, LinkNothing, VisitModule, VisitModuleLost, CreateObjFile,
         CreateObjFileFails, VerifyModuleFails, Finish
<1>2. Len(args) <= 2 /\ Few BY <1>1 DEF FewInv
<1>3. CASE UNCHANGED vars
  <2>1. Table' BY <1>2, <1>3 DEF vars, Few, Table, Added
  <2>2. Fresh' BY <1>2, <1>3 DEF vars, Few, Fresh, Slots
  <2>3. KnownBehind' BY <1>2, <1>3 DEF vars, Few, KnownBehind, Later
  <2>5. Objects' BY <1>2, <1>3 DEF vars, Few, Objects, Units, Compiling, Alone, Both
  <2>6. LastUnit' BY <1>2, <1>3 DEF vars, Few, LastUnit, Compiling
  <2>7. FirstUnit'
    BY <1>2, <1>3 DEF vars, Few, FirstUnit, Compiling, Listed, Stored, Queued, Taken, Slots,
                      Written, NoObject
  <2>8. Explained'
    BY <1>2, <1>3 DEF vars, Few, Explained, Reason, Twice, Later, Written, NoObject,
                      BothUnmade, Unopened, Units
  <2> QED BY <2>1, <2>2, <2>3, <2>5, <2>6, <2>7, <2>8 DEF Few
<1>4. CASE VerifyModuleFails
  BY <1>2, <1>4, FewEnd DEF VerifyModuleFails, Compiling
<1>5. CASE Finish
  BY <1>2, <1>5, FewEnd DEF Finish, Compiling
<1> QED
  BY <1>2, <1>3, <1>4, <1>5, FewLose, FewThrown, FewAdded, FewStarted, FewRead, FewImported, FewRefused, FewParsed,
     FewLinked, FewNothing, FewVisited, FewLost, FewWritten, FewUnwritten DEF Next, Units

LEMMA FewAlways == Spec => [](DInv /\ FewInv)
<1>1. Init => DInv /\ FewInv BY InitInv, FewInit
<1>2. DInv /\ FewInv /\ [Next]_vars => DInv' /\ FewInv' BY NextInv, FewNext
<1> QED BY <1>1, <1>2, PTL DEF Spec

\* What the reference says of up to two files.
LEMMA PartsAre ==
  ASSUME DInv, Few, Len(args) <= 2
  PROVE  \A u \in Units : Parts[u] = {u} \cup (IF Lines(u) = << >> THEN {} ELSE {2})
<1>1. \A u \in Units : \/ Lines(u) = << >>
                       \/ u = 1 /\ Len(args) = 2 /\ Lines(u) = <<args[2]>>
  <2> SUFFICES ASSUME NEW u \in Units
               PROVE  \/ Lines(u) = << >>
                      \/ u = 1 /\ Len(args) = 2 /\ Lines(u) = <<args[2]>>
    OBVIOUS
  <2>1. CASE object[u] = NoObject BY <2>1 DEF NoObject, Lines
  <2>2. CASE object[u] = Alone(u) BY <2>2 DEF Alone, Lines
  <2>3. CASE u = 1 /\ Len(args) = 2 /\ object[u] = Both BY <2>3 DEF Both, Lines
  <2> QED BY <2>1, <2>2, <2>3 DEF Few, Objects
<1>2. Len(args) = 2 => Provider(1, args[2]) = 2
  <2> SUFFICES ASSUME Len(args) = 2 PROVE Provider(1, args[2]) = 2 OBVIOUS
  <2>1. \A v : v \in 1 + 1 .. Len(args) <=> v = 2 OBVIOUS
  <2>2. \A w \in 1 + 1 .. 2 - 1 : args[w] # args[2] OBVIOUS
  <2> QED BY <2>1, <2>2 DEF Provider
<1>3. Len(args) = 2 => 2 \in Units /\ Lines(2) = << >>
  <2> SUFFICES ASSUME Len(args) = 2 PROVE 2 \in Units /\ Lines(2) = << >> OBVIOUS
  <2>1. 2 \in Units BY DEF Units
  <2> QED BY <1>1, <2>1
<1> DEFINE R(P) == [u \in Units |->
                      {u} \cup UNION {P[Provider(u, Lines(u)[i])] : i \in 1 .. Len(Lines(u))}]
<1>4. ASSUME NEW P, NEW u \in Units, Lines(u) = << >> PROVE R(P)[u] = {u}
  <2>1. Len(Lines(u)) = 0 BY <1>4
  <2>2. {P[Provider(u, Lines(u)[i])] : i \in 1 .. Len(Lines(u))} = {} BY <2>1
  <2> QED BY <2>2
<1>5. ASSUME NEW P, NEW u \in Units, Lines(u) # << >>
      PROVE  R(P)[u] = {u} \cup P[2]
  <2>1. u = 1 /\ Len(args) = 2 /\ Lines(u) = <<args[2]>> BY <1>1, <1>5
  <2>2. Len(Lines(u)) = 1 /\ Lines(u)[1] = args[2] BY <2>1
  <2>3. \A i \in 1 .. Len(Lines(u)) : Provider(u, Lines(u)[i]) = 2 BY <1>2, <2>1, <2>2
  <2>4. {P[Provider(u, Lines(u)[i])] : i \in 1 .. Len(Lines(u))} = {P[2]} BY <2>2, <2>3
  <2> QED BY <2>4
<1>6. PICK Q : Q = [u \in Units |-> {u} \cup (IF Lines(u) = << >> THEN {} ELSE {2})] OBVIOUS
<1>7. \A u \in Units : Q[u] = R(Q)[u]
  <2> SUFFICES ASSUME NEW u \in Units PROVE Q[u] = R(Q)[u] OBVIOUS
  <2>1. CASE Lines(u) = << >> BY <1>4, <1>6, <2>1
  <2>2. CASE Lines(u) # << >>
    <3>1. Q[2] = {2} BY <1>1, <1>3, <1>6, <2>2
    <3>2. Q[u] = {u} \cup {2} BY <1>6, <2>2
    <3> HIDE DEF R
    <3> QED BY <1>5, <2>2, <3>1, <3>2
  <2> QED BY <2>1, <2>2
<1>8. Q = R(Q) BY <1>6, <1>7
<1>9. Parts = R(Parts)
  <2>1. Parts = CHOOSE P : P = R(P) BY DEF Parts
  <2> HIDE DEF R
  <2> QED BY <1>8, <2>1
<1> HIDE DEF R
<1>10. ASSUME NEW u \in Units
       PROVE  Parts[u] = {u} \cup (IF Lines(u) = << >> THEN {} ELSE {2})
  <2>1. CASE Lines(u) = << >> BY <1>4, <1>9, <2>1
  <2>2. CASE Lines(u) # << >>
    <3>1. 2 \in Units /\ Lines(2) = << >> BY <1>1, <1>3, <2>2
    <3>2. Parts[2] = {2} BY <1>4, <1>9, <3>1
    <3>3. Parts[u] = {u} \cup Parts[2] BY <1>5, <1>9, <2>2
    <3> QED BY <2>2, <3>2, <3>3
  <2> QED BY <2>1, <2>2
<1> QED BY <1>10

\* LinksItsImports: of up to two files the object of each holds its own code and that of the
\* module it imports (CodeGenVisitor's constructor, addIncludedModule, addCompiledModule),
\* whatever they import, and whether or not objects fail.
THEOREM TwoFilesLinked == Spec => []LinksItsImports
<1>1. ASSUME DInv, FewInv PROVE LinksItsImports
  <2> SUFFICES ASSUME Len(args) <= 2, NEW u \in Units, Written(u)
               PROVE  object[u].code = Parts[u]
    BY DEF LinksItsImports, LinkedRight
  <2>1. Few BY <1>1 DEF FewInv
  <2>2. Parts[u] = {u} \cup (IF Lines(u) = << >> THEN {} ELSE {2}) BY <1>1, <2>1, PartsAre
  <2>3. object[u] = Alone(u) \/ (u = 1 /\ object[u] = Both)
    BY <2>1 DEF Few, Objects, Written
  <2>4. CASE object[u] = Alone(u) BY <2>2, <2>4 DEF Alone, Lines
  <2>5. CASE u = 1 /\ object[u] = Both
    <3>1. Lines(u) = <<args[2]>> /\ object[u].code = {1, 2} BY <2>5 DEF Both, Lines
    <3>2. Lines(u) # << >> BY <3>1
    <3> QED BY <2>2, <2>5, <3>1, <3>2
  <2> QED BY <2>3, <2>4, <2>5
<1> QED BY <1>1, FewAlways, PTL

\* FailureExplained: of up to two files, the compiler fails only on a file that cannot be
\* opened, on an import that comes twice, or is not of the file behind, or of one without an
\* object, or on a class Main whose constructor is neither here nor in what is imported.
THEOREM FailuresExplained == Spec => []FailureExplained
<1>1. ASSUME DInv, FewInv PROVE FailureExplained
  <2> SUFFICES ASSUME Len(args) <= 2, phase = "failed"
               PROVE  Unopened \/ Early \/ Twice \/ Unwritten \/ NoMainToCall
    BY DEF FailureExplained
  <2>1. Reason BY <1>1 DEF FewInv, Few, Explained
  <2>2. CASE \E i \in 1 .. Len(imports) : imports[i] \notin Later(todo)
    BY <2>2 DEF Later, Early
  <2>3. CASE mains # {} /\ imports = << >>
    <3>1. \A i \in 1 .. Len(imports) : FALSE BY <2>3
    <3> QED BY <2>3, <3>1 DEF NoMainToCall
  <2>5. CASE mains # {} /\ BothUnmade
    <3>1. Len(args) = 2 /\ todo = 1 /\ imports = <<args[2]>> /\ 2 \notin creators
      BY <2>5 DEF BothUnmade
    <3>2. Provider(1, args[2]) = 2
      <4>1. \A v : v \in 1 + 1 .. Len(args) <=> v = 2 BY <3>1
      <4>2. \A w \in 1 + 1 .. 2 - 1 : args[w] # args[2] OBVIOUS
      <4> QED BY <4>1, <4>2 DEF Provider
    <3>3. 2 \in Units BY <3>1 DEF Units
    <3>4. Parts[2] = {2}
      <4>1. Parts[2] = {2} \cup (IF Lines(2) = << >> THEN {} ELSE {2})
        BY <1>1, <3>3, PartsAre DEF FewInv
      <4> QED BY <4>1
    <3>5. \A i \in 1 .. Len(imports) : imports[i] = args[2] BY <3>1
    <3> QED BY <2>5, <3>1, <3>2, <3>4, <3>5 DEF NoMainToCall
  <2>4. CASE Len(args) = 2 /\ todo = 1 /\ ~Written(2) /\ imports # << >>
    <3>1. 1 \in 1 .. Len(imports)
      <4>1. imports \in Seq(File) BY <1>1, FewTypes DEF DInv
      <4> QED BY <2>4, <4>1
    <3>2. CASE imports[1] = args[2]
      <4>1. \A v : v \in 1 + 1 .. Len(args) <=> v = 2 BY <2>4
      <4>2. \A w \in 1 + 1 .. 2 - 1 : args[w] # args[2] OBVIOUS
      <4>3. Provider(1, args[2]) = 2 BY <4>1, <4>2 DEF Provider
      <4> QED BY <2>4, <3>1, <3>2, <4>3 DEF Unwritten
    <3>3. CASE imports[1] # args[2]
      <4>1. \A v : v \in 1 + 1 .. Len(args) => v = 2 BY <2>4
      <4> QED BY <2>4, <3>1, <3>3, <4>1 DEF Early
    <3> QED BY <3>2, <3>3
  <2> QED BY <2>1, <2>2, <2>3, <2>4, <2>5 DEF Reason
<1> QED BY <1>1, FewAlways, PTL
=============================================================================
