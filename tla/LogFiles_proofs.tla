-------------------------- MODULE LogFiles_proofs --------------------------
(***************************************************************************)
(* What holds of the log files for any number of loggers and threads, any  *)
(* limits and any number of days: a message is lost only with a file that  *)
(* could not be made, a file that is made is new, and what workerThread    *)
(* writes keeps to the size, the day and the sharing that were configured. *)
(***************************************************************************)
EXTENDS LogFiles, FiniteSetTheorems, TLAPS

(* Types, as far as the argument needs them. *)
FilesTypeOK ==
  /\ split \in BOOLEAN /\ sync \in BOOLEAN /\ torn \in BOOLEAN /\ today \in Nat
  /\ IsFiniteSet(DOMAIN disk)
  /\ DOMAIN name = Logger
  /\ pc \in [Writer -> {"idle", "get", "share", "make", "check", "split", "put"}]
  /\ on \in [Writer -> Logger \cup {Shared}] /\ DOMAIN dest = Writer
  /\ lost \in Nat /\ failed \in Nat

(* Who writes: every thread for a logger, without isSynchronousOp only one. *)
Writing == \A w \in Writer : pc[w] # "idle" => on[w] \in Logger /\ (sync \/ w = First)

(* Nobody comes to have no file: a name that was chosen stays, the map of open
   files has no null pointer and so no thread gets one from it. *)
FileThere ==
  /\ NoName \notin open
  /\ \A w \in Writer : pc[w] = "get" => name[on[w]] # NoName
  /\ \A w \in Writer : pc[w] = "check" => dest[w] # NoName

(* What holds until a configuration is given to a logger that is writing or,
   where several threads write, a file cannot be made. *)
FilesInv ==
  /\ FilesTypeOK /\ Writing
  /\ ~torn => /\ ~sync \/ failed = 0 => FileThere /\ lost = failed
              /\ lost > 0 => failed > 0

(* A new file has a name. *)
LEMMA NewFileNamed ==
  ASSUME FilesTypeOK, NEW l \in Logger PROVE NewFile(l) # NoName
<1>1. IsFiniteSet({f \in DOMAIN disk : f.of = Owner(l) /\ f.day = today})
  BY FS_Subset DEF FilesTypeOK
<1>2. Cardinality({f \in DOMAIN disk : f.of = Owner(l) /\ f.day = today}) \in Nat
  BY <1>1, FS_CardinalityType
<1>3. NewFile(l) \in [of : Logger \cup {Shared}, day : Nat, idx : Nat]
  BY <1>2 DEF NewFile, Owner, FilesTypeOK
<1>4. QED BY <1>3, LogFilesAssumption

(* The directory stays finite. *)
LEMMA DiskFinite ==
  ASSUME FilesTypeOK, NEW D, NEW f
  PROVE  IsFiniteSet(DOMAIN disk \ D) /\ IsFiniteSet((DOMAIN disk \ D) \cup {f})
<1>1. IsFiniteSet(DOMAIN disk \ D)
  BY FS_Subset DEF FilesTypeOK
<1>2. QED BY <1>1, FS_AddElement

(* InitLogger has no file yet. *)
LEMMA FilesInit == Init => FilesInv
<1> SUFFICES ASSUME Init PROVE FilesInv
  OBVIOUS
<1>1. DOMAIN disk = {}
  BY DEF Init
<1>2. IsFiniteSet(DOMAIN disk)
  BY <1>1, FS_EmptySet
<1>3. QED BY <1>2 DEF Init, FilesInv, FilesTypeOK, Writing, FileThere

(* Every step of WriteData keeps the invariant. *)
LEMMA FilesWrite ==
  ASSUME FilesInv, NEW w \in Writer, WriteData(w)
  PROVE  FilesInv'
<1> USE DEF FilesInv, FilesTypeOK, Writing, FileThere, conf, hist, Goto, Return
<1>1. ASSUME NEW l \in Logger, ChooseFile(w, l) PROVE FilesInv'
  BY <1>1 DEF ChooseFile
<1>2. CASE ShareFile(w)
  <2>1. PICK f \in open : /\ name' = [name EXCEPT ![on[w]] = f]
                          /\ dest' = [dest EXCEPT ![w] = f]
    BY <1>2 DEF ShareFile
  <2>2. /\ pc[w] = "share" /\ pc' = [pc EXCEPT ![w] = "check"]
        /\ UNCHANGED <<split, sync, torn, today, disk, open, on, lost, failed>>
    BY <1>2 DEF ShareFile
  <2>3. on[w] \in Logger
    BY <2>2
  <2>4. FileThere => FileThere'
    BY <2>1, <2>2, <2>3
  <2>5. QED BY <2>1, <2>2, <2>3, <2>4
<1>3. CASE GetFile(w)
  BY <1>3 DEF GetFile
<1>4. CASE CheckFile(w)
  BY <1>4 DEF CheckFile
<1>5. CASE Drop(w)
  <2>1. /\ pc[w] = "check" /\ dest[w] = NoName /\ lost' = lost + 1
        /\ pc' = [pc EXCEPT ![w] = "idle"] /\ on' = [on EXCEPT ![w] = Shared]
        /\ dest' = [dest EXCEPT ![w] = NoName]
        /\ UNCHANGED <<split, sync, torn, today, disk, open, name, failed>>
    BY <1>5 DEF Drop
  <2>2. ~torn => sync /\ failed > 0
    BY <2>1
  <2>3. QED BY <2>1, <2>2
<1>6. CASE MakeFails(w)
  <2>1. /\ pc[w] \in {"make", "split"} /\ lost' = lost + 1 /\ failed' = failed + 1
        /\ pc' = [pc EXCEPT ![w] = "idle"] /\ on' = [on EXCEPT ![w] = Shared]
        /\ dest' = [dest EXCEPT ![w] = NoName]
        /\ UNCHANGED <<split, sync, torn, today, open>>
    BY <1>6 DEF MakeFails
  <2>2. IsFiniteSet(DOMAIN disk') /\ DOMAIN name' = Logger
    <3>1. CASE UNCHANGED <<disk, name>>
      BY <3>1
    <3>2. CASE ~UNCHANGED <<disk, name>>
      <4>1. PICK D \in SUBSET DOMAIN disk : disk' = Restrict(disk, DOMAIN disk \ D)
        BY <1>6, <3>2 DEF MakeFails
      <4>2. DOMAIN disk' = DOMAIN disk \ D
        BY <4>1 DEF Restrict
      <4>3. DOMAIN name' = Logger
        BY <1>6, <3>2 DEF MakeFails
      <4>4. QED BY <4>2, <4>3, DiskFinite
    <3>3. QED BY <3>1, <3>2
  <2>3. sync \/ \A v \in Writer : pc'[v] = "idle"
    BY <2>1
  <2>4. QED BY <2>1, <2>2, <2>3
<1>7. CASE MakeFile(w)
  <2> DEFINE f == NewFile(on[w])
  <2>1. /\ pc[w] \in {"make", "split"} /\ on[w] \in Logger
        /\ name' = [name EXCEPT ![on[w]] = f] /\ dest' = [dest EXCEPT ![w] = f]
        /\ open' = open \cup {f}
        /\ UNCHANGED <<split, sync, torn, today, on, lost, failed>>
    BY <1>7 DEF MakeFile
  <2>2. PICK l \in {"put", "check"} : pc' = [pc EXCEPT ![w] = l]
    BY <1>7 DEF MakeFile
  <2>3. PICK D \in SUBSET DOMAIN disk :
          disk' = [g \in (DOMAIN disk \ D) \cup {f} |->
                     IF g = f THEN [size |-> 0, wrote |-> today] ELSE disk[g]]
    BY <1>7, Zenon DEF MakeFile
  <2>4. IsFiniteSet(DOMAIN disk')
    <3>1. DOMAIN disk' = (DOMAIN disk \ D) \cup {f}
      BY <2>3, Zenon
    <3>2. FilesTypeOK
      OBVIOUS
    <3>3. IsFiniteSet((DOMAIN disk \ D) \cup {f})
      <4> HIDE DEF f, FilesTypeOK
      <4>1. QED BY <3>2, DiskFinite, Zenon
    <3>4. QED BY <3>1, <3>3
  <2>5. f # NoName
    BY <2>1, NewFileNamed
  <2> HIDE DEF f
  <2>6. FileThere => FileThere'
    BY <2>1, <2>2, <2>5
  <2>7. QED BY <2>1, <2>2, <2>4, <2>6
<1>8. CASE Put(w)
  BY <1>8 DEF Put
<1>9. QED
  BY <1>1, <1>2, <1>3, <1>4, <1>5, <1>6, <1>7, <1>8 DEF WriteData

(* So does every other step. *)
LEMMA FilesStep == FilesInv /\ [Next]_vars => FilesInv'
<1> SUFFICES ASSUME FilesInv, [Next]_vars PROVE FilesInv'
  OBVIOUS
<1> USE DEF FilesInv, FilesTypeOK, Writing, FileThere, conf, hist
<1>a. CASE UNCHANGED vars
  BY <1>a DEF vars
<1>b. ASSUME NEW l \in Logger, NEW k \in Logger, GiveConfiguration(l, k) PROVE FilesInv'
  <2>1. /\ name' = [name EXCEPT ![l] = name[k]] /\ torn' \in BOOLEAN
        /\ ~torn' => ~torn /\ \A w \in Writer : pc[w] = "idle"
        /\ UNCHANGED <<split, sync, today, disk, open, pc, on, dest, lost, failed>>
    BY <1>b DEF GiveConfiguration
  <2>2. QED BY <2>1
<1>c. CASE Restart \/ NextDay
  BY <1>c DEF Restart, NextDay
<1>d. ASSUME NEW w \in Writer, WriteData(w) PROVE FilesInv'
  BY <1>d, FilesWrite
<1>e. QED BY <1>a, <1>b, <1>c, <1>d DEF Next

(* A message is lost only with a file that could not be made: without
   isSynchronousOp exactly one with each, and with it none before the first;
   until a configuration is given to a logger that is writing. *)
THEOREM LossNeedsFailure == Spec => []LostOnlyOnFailure
<1>1. FilesInv => LostOnlyOnFailure
  BY DEF FilesInv, FilesTypeOK, LostOnlyOnFailure
<1>2. QED BY <1>1, FilesInit, FilesStep, PTL DEF Spec

-----------------------------------------------------------------------------
(* The files of today that bear the name of o. *)
Today(o) == {f \in DOMAIN disk : f.of = o /\ f.day = today}

FileName == [of : Logger \cup {Shared}, day : Nat, idx : Nat]

(* The directory: no file is of a later day or was written before its own, and
   today's are numbered below their number, so the next number is free. *)
Numbered ==
  /\ DOMAIN disk \subseteq FileName
  /\ \A f \in DOMAIN disk : /\ disk[f] \in [size : Nat, wrote : Nat]
                            /\ f.day <= disk[f].wrote /\ disk[f].wrote <= today
  /\ \A f \in DOMAIN disk : f.day = today => f.idx < Cardinality(Today(f.of))

(* What is open is in the directory, and only what is open is named by a logger
   or held by a thread. *)
Held ==
  /\ open \subseteq DOMAIN disk \cup {NoName}
  /\ \A l \in Logger : name[l] \in open \cup {NoName}
  /\ \A w \in Writer : /\ dest[w] \in open \cup {NoName}
                       /\ pc[w] = "idle" => dest[w] = NoName
                       /\ pc[w] = "put" => dest[w] # NoName

DirInv == FilesInv /\ Numbered /\ Held

(* CheckOldFileExist deletes no file that is open, and none of today. *)
LEMMA Deleted ==
  ASSUME DirInv, NEW D \in SUBSET DOMAIN disk, MayDelete(D)
  PROVE  \A f \in D : f \notin open /\ f.day < today
<1> SUFFICES ASSUME NEW f \in D PROVE f \notin open /\ f.day < today
  OBVIOUS
<1>1. f \in DOMAIN disk \ open /\ KeepDays > 0 /\ Age(f) >= KeepDays
  BY DEF MayDelete
<1>2. f.day \in Nat /\ disk[f].wrote \in Nat /\ f.day <= disk[f].wrote /\ today \in Nat
  BY <1>1 DEF DirInv, Numbered, FileName, FilesInv, FilesTypeOK
<1>3. QED BY <1>1, <1>2, LogFilesAssumption DEF Age

(* Deleting leaves the numbers of today as they are. *)
LEMMA DeletedNumbers ==
  ASSUME DirInv, NEW D \in SUBSET DOMAIN disk, MayDelete(D)
  PROVE  \A o : {f \in DOMAIN disk \ D : f.of = o /\ f.day = today} = Today(o)
<1>1. today \in Nat /\ \A f \in D : f.day \in Nat /\ f.day < today
  BY Deleted DEF DirInv, Numbered, FileName, FilesInv, FilesTypeOK
<1>2. \A f \in D : f.day # today
  BY <1>1
<1>3. QED BY <1>2 DEF Today

(* The number of today's files. *)
LEMMA TodayCount ==
  ASSUME DirInv, NEW o
  PROVE  IsFiniteSet(Today(o)) /\ Cardinality(Today(o)) \in Nat
<1>1. IsFiniteSet(Today(o))
  BY FS_Subset DEF DirInv, FilesInv, FilesTypeOK, Today
<1>2. QED BY <1>1, FS_CardinalityType

(* The name of a new file is not in the directory. *)
LEMMA NewFileIsNew ==
  ASSUME DirInv, NEW l \in Logger
  PROVE  /\ NewFile(l) \in FileName /\ NewFile(l) \notin DOMAIN disk
         /\ NewFile(l).of = Owner(l) /\ NewFile(l).day = today
         /\ NewFile(l).idx = Cardinality(Today(Owner(l)))
<1>1. /\ NewFile(l).of = Owner(l) /\ NewFile(l).day = today
      /\ NewFile(l).idx = Cardinality(Today(Owner(l)))
  BY DEF NewFile, Today
<1>2. NewFile(l) \in FileName
  BY TodayCount DEF NewFile, Today, Owner, FileName, DirInv, FilesInv, FilesTypeOK
<1>3. Cardinality(Today(Owner(l))) \in Nat
  BY TodayCount
<1>4. QED BY <1>1, <1>2, <1>3 DEF DirInv, Numbered

(* A directory of which MakeLOGFile has deleted some files is numbered as before. *)
LEMMA DirDeleted ==
  ASSUME DirInv, NEW D \in SUBSET DOMAIN disk, MayDelete(D),
         disk' = Restrict(disk, DOMAIN disk \ D), today' = today
  PROVE  Numbered' /\ DOMAIN disk' = DOMAIN disk \ D
<1>1. DOMAIN disk' = DOMAIN disk \ D /\ \A f \in DOMAIN disk \ D : disk'[f] = disk[f]
  BY DEF Restrict
<1>2. \A o : Today(o)' = Today(o)
  BY <1>1, DeletedNumbers DEF Today
<1>3. QED BY <1>1, <1>2 DEF DirInv, Numbered

(* The file that MakeLOGFile adds takes the next number. *)
LEMMA DirMade ==
  ASSUME DirInv, NEW l \in Logger, NEW D \in SUBSET DOMAIN disk, MayDelete(D),
         NEW f, f = NewFile(l), today' = today,
         disk' = [g \in (DOMAIN disk \ D) \cup {f} |->
                    IF g = f THEN [size |-> 0, wrote |-> today] ELSE disk[g]]
  PROVE  Numbered' /\ DOMAIN disk' = (DOMAIN disk \ D) \cup {f}
<1>1. /\ f \in FileName /\ f \notin DOMAIN disk /\ f.day = today
      /\ f.idx = Cardinality(Today(f.of))
  BY NewFileIsNew
<1>2. /\ DOMAIN disk' = (DOMAIN disk \ D) \cup {f}
      /\ \A g \in DOMAIN disk \ D : disk'[g] = disk[g]
      /\ disk'[f] = [size |-> 0, wrote |-> today]
  BY <1>1
<1>3. \A o : Today(o)' = IF o = f.of THEN Today(o) \cup {f} ELSE Today(o)
  BY <1>1, <1>2, DeletedNumbers DEF Today
<1>4. f \notin Today(f.of)
  BY <1>1 DEF Today
<1>5. IsFiniteSet(Today(f.of)) /\ Cardinality(Today(f.of)) \in Nat
  BY TodayCount
<1>6. Cardinality(Today(f.of) \cup {f}) = Cardinality(Today(f.of)) + 1
  BY <1>4, <1>5, FS_AddElement
<1>7. \A o : Cardinality(Today(o)) \in Nat
  BY TodayCount
<1>8. /\ Cardinality(Today(f.of)') = Cardinality(Today(f.of)) + 1
      /\ \A o : Cardinality(Today(o)') >= Cardinality(Today(o))
  <2>1. Today(f.of)' = Today(f.of) \cup {f}
    BY <1>3
  <2>2. ASSUME NEW o PROVE Cardinality(Today(o)') >= Cardinality(Today(o))
    <3>1. CASE o = f.of
      BY <2>1, <3>1, <1>5, <1>6
    <3>2. CASE o # f.of
      <4>1. Today(o)' = Today(o)
        BY <1>3, <3>2
      <4>2. QED BY <4>1, <1>7
    <3>3. QED BY <3>1, <3>2
  <2>3. QED BY <2>1, <2>2, <1>6
<1>9. today \in Nat
  BY DEF DirInv, FilesInv, FilesTypeOK
<1>10. DOMAIN disk' \subseteq FileName
  BY <1>1, <1>2 DEF DirInv, Numbered
<1>11. \A g \in DOMAIN disk' : /\ disk'[g] \in [size : Nat, wrote : Nat]
                               /\ g.day <= disk'[g].wrote /\ disk'[g].wrote <= today'
  BY <1>1, <1>2, <1>9 DEF DirInv, Numbered
<1>12. ASSUME NEW g \in DOMAIN disk', g.day = today PROVE g.idx < Cardinality(Today(g.of)')
  <2>1. CASE g = f
    BY <2>1, <1>1, <1>5, <1>8
  <2>2. CASE g \in DOMAIN disk \ D
    <3>1. g.idx < Cardinality(Today(g.of)) /\ g.idx \in Nat
      BY <2>2, <1>12 DEF DirInv, Numbered, FileName
    <3>2. Cardinality(Today(g.of)) \in Nat /\ Cardinality(Today(g.of)') >= Cardinality(Today(g.of))
      BY <1>7, <1>8
    <3>3. Cardinality(Today(g.of)') \in Nat
      <4>1. CASE g.of = f.of
        BY <4>1, <1>5, <1>8
      <4>2. CASE g.of # f.of
        BY <4>2, <1>3, <1>7
      <4>3. QED BY <4>1, <4>2
    <3>4. QED BY <3>1, <3>2, <3>3
  <2>3. QED BY <2>1, <2>2, <1>2
<1>13. Numbered'
  BY <1>10, <1>11, <1>12 DEF Numbered
<1>14. QED BY <1>2, <1>13

(* InitLogger finds an empty directory. *)
LEMMA DirInit == Init => DirInv
BY FilesInit DEF Init, DirInv, Numbered, Held

(* Every step keeps the directory numbered and what is open in it. *)
LEMMA DirStep == DirInv /\ [Next]_vars => DirInv'
<1> SUFFICES ASSUME DirInv, [Next]_vars PROVE Numbered' /\ Held'
  BY FilesStep DEF DirInv
<1> USE DEF conf, hist, Goto, Return
<1>a. /\ DOMAIN name = Logger /\ DOMAIN dest = Writer /\ today \in Nat
      /\ pc \in [Writer -> {"idle", "get", "share", "make", "check", "split", "put"}]
      /\ \A w \in Writer : pc[w] # "idle" => on[w] \in Logger
      /\ Held /\ Numbered
  BY DEF DirInv, FilesInv, FilesTypeOK, Writing
<1>b. UNCHANGED <<disk, today>> => Numbered'
  BY <1>a DEF Numbered, Today
<1>c. CASE UNCHANGED vars
  BY <1>a, <1>b, <1>c DEF vars, Held
<1>d. ASSUME NEW l \in Logger, NEW k \in Logger, GiveConfiguration(l, k) PROVE Numbered' /\ Held'
  BY <1>a, <1>b, <1>d DEF GiveConfiguration, Held
<1>e. CASE Restart
  BY <1>a, <1>b, <1>e DEF Restart, Held
<1>f. CASE NextDay
  <2>1. today' = today + 1 /\ UNCHANGED <<disk, open, name, dest, pc>>
    BY <1>f DEF NextDay
  <2>2. \A f \in DOMAIN disk : f.day < today'
    BY <1>a, <2>1 DEF Numbered, FileName
  <2>3. \A f \in DOMAIN disk : f.day # today'
    BY <1>a, <2>1, <2>2 DEF Numbered, FileName
  <2>4. QED BY <1>a, <2>1, <2>3 DEF Numbered, Held, FileName
<1>g. ASSUME NEW w \in Writer, WriteData(w) PROVE Numbered' /\ Held'
  <2>1. ASSUME NEW l \in Logger, ChooseFile(w, l) PROVE Numbered' /\ Held'
    BY <1>a, <1>b, <2>1 DEF ChooseFile, Held
  <2>2. CASE ShareFile(w)
    <3>1. PICK f \in open : /\ name' = [name EXCEPT ![on[w]] = f]
                            /\ dest' = [dest EXCEPT ![w] = f]
      BY <2>2 DEF ShareFile
    <3>2. QED BY <1>a, <1>b, <2>2, <3>1 DEF ShareFile, Held
  <2>3. CASE GetFile(w) \/ CheckFile(w) \/ Drop(w)
    BY <1>a, <1>b, <2>3 DEF GetFile, CheckFile, Drop, Held
  <2>4. CASE MakeFails(w)
    <3>1. /\ pc[w] \in {"make", "split"}
          /\ pc' = [pc EXCEPT ![w] = "idle"] /\ dest' = [dest EXCEPT ![w] = NoName]
          /\ UNCHANGED <<today, open>>
      BY <2>4 DEF MakeFails
    <3>2. CASE UNCHANGED <<disk, name, date>>
      BY <1>a, <1>b, <3>1, <3>2 DEF Held
    <3>3. ASSUME NEW D \in SUBSET DOMAIN disk, MayDelete(D),
                 disk' = Restrict(disk, DOMAIN disk \ D), name' = [name EXCEPT ![on[w]] = NoName]
          PROVE  Numbered' /\ Held'
      <4>1. Numbered' /\ DOMAIN disk' = DOMAIN disk \ D
        BY <3>1, <3>3, DirDeleted
      <4>2. \A f \in D : f \notin open
        BY <3>3, Deleted
      <4>3. QED BY <1>a, <3>1, <3>3, <4>1, <4>2 DEF Held
    <3>4. QED BY <2>4, <3>2, <3>3 DEF MakeFails
  <2>5. CASE MakeFile(w)
    <3>1. PICK f : f = NewFile(on[w])
      OBVIOUS
    <3>2. /\ pc[w] \in {"make", "split"} /\ on[w] \in Logger
          /\ name' = [name EXCEPT ![on[w]] = f] /\ dest' = [dest EXCEPT ![w] = f]
          /\ open' = open \cup {f} /\ today' = today
      BY <1>a, <2>5, <3>1 DEF MakeFile
    <3>3. PICK D \in SUBSET DOMAIN disk :
            /\ MayDelete(D)
            /\ disk' = [g \in (DOMAIN disk \ D) \cup {f} |->
                          IF g = f THEN [size |-> 0, wrote |-> today] ELSE disk[g]]
      BY <2>5, <3>1, Zenon DEF MakeFile
    <3>4. Numbered' /\ DOMAIN disk' = (DOMAIN disk \ D) \cup {f}
      BY <3>1, <3>2, <3>3, DirMade
    <3>5. (\A g \in D : g \notin open) /\ f # NoName
      BY <3>1, <3>2, <3>3, Deleted, NewFileIsNew, LogFilesAssumption DEF FileName
    <3>6. PICK p \in {"put", "check"} : pc' = [pc EXCEPT ![w] = p]
      BY <2>5 DEF MakeFile
    <3>7. QED BY <1>a, <3>2, <3>4, <3>5, <3>6 DEF Held
  <2>6. CASE Put(w)
    <3>1. /\ pc[w] = "put" /\ pc' = [pc EXCEPT ![w] = "idle"]
          /\ dest' = [dest EXCEPT ![w] = NoName] /\ UNCHANGED <<today, open, name>>
      BY <2>6 DEF Put
    <3>a. PICK n \in 1 .. MsgMax :
            disk' = [disk EXCEPT ![dest[w]] = [size |-> @.size + n, wrote |-> today]]
      BY <2>6 DEF Put
    <3>2. dest[w] \in DOMAIN disk
      BY <1>a, <3>1 DEF Held
    <3>3. DOMAIN disk' = DOMAIN disk
      BY <3>a
    <3>4. \A o : Today(o)' = Today(o)
      BY <3>1, <3>3 DEF Today
    <3>5. Numbered'
      <4>1. /\ disk'[dest[w]] = [size |-> disk[dest[w]].size + n, wrote |-> today]
            /\ n \in Nat
        BY <3>a, <3>2, LogFilesAssumption
      <4>2. \A f \in DOMAIN disk : f # dest[w] => disk'[f] = disk[f]
        BY <3>a
      <4>3. \A f \in DOMAIN disk : f.day \in Nat /\ disk[f].size \in Nat /\ f.day <= today
        BY <1>a DEF Numbered, FileName
      <4>4. \A f \in DOMAIN disk : /\ disk'[f] \in [size : Nat, wrote : Nat]
                                   /\ f.day <= disk'[f].wrote /\ disk'[f].wrote <= today
        BY <1>a, <3>2, <4>1, <4>2, <4>3 DEF Numbered
      <4>5. QED BY <1>a, <3>1, <3>3, <3>4, <4>4 DEF Numbered
    <3>6. Held'
      BY <1>a, <3>1, <3>3 DEF Held
    <3>7. QED BY <3>5, <3>6
  <2>7. QED BY <1>g, <2>1, <2>2, <2>3, <2>4, <2>5, <2>6 DEF WriteData
<1>h. QED BY <1>c, <1>d, <1>e, <1>f, <1>g DEF Next

(* MakeLOGFile never opens a file that is there already, whether another logger,
   another thread or an earlier process has written it, whatever was deleted. *)
THEOREM MakesFreshFiles == Spec => FreshFile
<1>1. DirInv /\ [Next]_vars => [\A f \in open' \ open : f # NoName => f \notin DOMAIN disk]_vars
  <2> SUFFICES ASSUME DirInv, Next, NEW f \in open' \ open, f # NoName
               PROVE  f \notin DOMAIN disk
    OBVIOUS
  <2>1. \/ \E w \in Writer : WriteData(w)
        \/ open' \subseteq open
    BY DEF Next, GiveConfiguration, Restart, NextDay
  <2>2. PICK w \in Writer : GetFile(w) \/ MakeFile(w)
    BY <2>1 DEF WriteData, ChooseFile, ShareFile, CheckFile, Drop, MakeFails, Put
  <2>3. on[w] \in Logger
    BY <2>2 DEF GetFile, MakeFile, DirInv, FilesInv, Writing
  <2>4. CASE GetFile(w)
    BY <2>3, <2>4 DEF GetFile, DirInv, Held
  <2>5. CASE MakeFile(w)
    BY <2>3, <2>5, NewFileIsNew DEF MakeFile
  <2>6. QED BY <2>2, <2>4, <2>5
<1>2. QED BY <1>1, DirInit, DirStep, PTL DEF Spec, FreshFile

-----------------------------------------------------------------------------
(* workerThread alone: the file it tests is the file it holds, and the file it
   puts the message into is below its limit. *)
Room ==
  ~sync /\ ~torn =>
    /\ pc[First] = "check" => dest[First] = name[on[First]]
    /\ SizeLimit > 0 =>
         /\ \A f \in DOMAIN disk : disk[f].size < SizeLimit + MsgMax
         /\ pc[First] = "put" => disk[dest[First]].size < SizeLimit

(* A logger with a file of its own has the date of that file. *)
Dated ==
  split /\ ~sync /\ ~torn =>
    /\ pc[First] # "share"
    /\ \A l \in Logger : name[l] # NoName => date[l] = YDay(name[l].day)

(* Loggers that share a log: a file is made only where none is open. *)
Unified ==
  ~split /\ ~sync =>
    /\ pc[First] = "make" => open = {}
    /\ ~moved => \A f, g \in open \ {NoName} : f = g

WorkerInv == DOMAIN date = Logger /\ moved \in BOOLEAN /\ Room /\ Dated /\ Unified

(* Without isSynchronousOp only workerThread writes. *)
LEMMA WorkerWrites ==
  ASSUME DirInv, ~sync, NEW w \in Writer, WriteData(w)
  PROVE  w = First /\ (pc[First] # "idle" => on[First] \in Logger)
BY DEF DirInv, FilesInv, Writing, WriteData, ChooseFile, ShareFile, GetFile, CheckFile, Drop,
       MakeFails, MakeFile, Put

(* What MakeLOGFile does to the directory. *)
LEMMA MadeFile ==
  ASSUME DirInv, NEW w \in Writer, MakeFile(w)
  PROVE  \E f : /\ f = NewFile(on[w]) /\ f # NoName /\ f.day = today
                /\ name' = [name EXCEPT ![on[w]] = f] /\ dest' = [dest EXCEPT ![w] = f]
                /\ open' = open \cup {f}
                /\ DOMAIN disk' \subseteq DOMAIN disk \cup {f}
                /\ disk'[f] = [size |-> 0, wrote |-> today]
                /\ \A g \in DOMAIN disk' : g # f => disk'[g] = disk[g]
<1>1. PICK f : f = NewFile(on[w])
  OBVIOUS
<1>2. PICK D \in SUBSET DOMAIN disk :
        disk' = [g \in (DOMAIN disk \ D) \cup {f} |->
                   IF g = f THEN [size |-> 0, wrote |-> today] ELSE disk[g]]
  BY <1>1, Zenon DEF MakeFile
<1>3. /\ name' = [name EXCEPT ![on[w]] = f] /\ dest' = [dest EXCEPT ![w] = f]
      /\ open' = open \cup {f} /\ on[w] \in Logger
  BY <1>1 DEF MakeFile, DirInv, FilesInv, Writing
<1>4. f # NoName /\ f.day = today
  BY <1>1, <1>3, NewFileIsNew, LogFilesAssumption DEF FileName
<1>5. QED BY <1>1, <1>2, <1>3, <1>4

(* A MakeLOGFile that fails writes to no file. *)
LEMMA NotMadeFile ==
  ASSUME NEW w \in Writer, MakeFails(w)
  PROVE  DOMAIN disk' \subseteq DOMAIN disk /\ \A f \in DOMAIN disk' : disk'[f] = disk[f]
<1>1. CASE UNCHANGED disk
  BY <1>1
<1>2. CASE ~UNCHANGED disk
  <2>1. PICK D \in SUBSET DOMAIN disk : disk' = Restrict(disk, DOMAIN disk \ D)
    BY <1>2 DEF MakeFails
  <2>2. QED BY <2>1 DEF Restrict
<1>3. QED BY <1>1, <1>2

(* The configuration is fixed, and a configuration that is given to a logger
   that is writing is not forgotten. *)
LEMMA ConfFixed ==
  ASSUME DirInv, [Next]_vars
  PROVE  UNCHANGED <<split, sync>> /\ (~torn' => ~torn)
<1> USE DEF conf, hist
<1>1. ASSUME NEW w \in Writer, WriteData(w) PROVE UNCHANGED <<split, sync, torn>>
  BY <1>1 DEF WriteData, ChooseFile, ShareFile, GetFile, CheckFile, Drop, MakeFails, MakeFile, Put
<1>2. ASSUME NEW l \in Logger, NEW k \in Logger, GiveConfiguration(l, k)
      PROVE  UNCHANGED <<split, sync>> /\ (~torn' => ~torn)
  BY <1>2 DEF GiveConfiguration, DirInv, FilesInv, FilesTypeOK
<1>3. CASE Restart \/ NextDay \/ UNCHANGED vars
  BY <1>3 DEF Restart, NextDay, vars
<1>4. QED BY <1>1, <1>2, <1>3 DEF Next

(* The types that the three parts share. *)
LEMMA WorkerTypes ==
  ASSUME DirInv, WorkerInv, [Next]_vars
  PROVE  DOMAIN date' = Logger /\ moved' \in BOOLEAN
<1> USE DEF WorkerInv, conf, hist
<1>1. ASSUME NEW w \in Writer, WriteData(w) PROVE DOMAIN date' = Logger /\ moved' \in BOOLEAN
  BY <1>1 DEF WriteData, ChooseFile, ShareFile, GetFile, CheckFile, Drop, MakeFails, MakeFile, Put
<1>2. ASSUME NEW l \in Logger, NEW k \in Logger, GiveConfiguration(l, k)
      PROVE  DOMAIN date' = Logger /\ moved' \in BOOLEAN
  BY <1>2 DEF GiveConfiguration
<1>3. CASE Restart \/ NextDay \/ UNCHANGED vars
  BY <1>3 DEF Restart, NextDay, vars
<1>4. QED BY <1>1, <1>2, <1>3 DEF Next

(* The size test of workerThread is about the file it goes on to write. *)
LEMMA RoomStep ==
  ASSUME DirInv, WorkerInv, [Next]_vars
  PROVE  Room'
<1> SUFFICES ASSUME ~sync, ~torn, ~torn' PROVE Room'
  BY ConfFixed DEF Room
<1> USE DEF conf, hist, Goto, Return
<1>a. /\ Room /\ First \in Writer /\ sync' = sync /\ DOMAIN dest = Writer /\ DOMAIN name = Logger
      /\ pc \in [Writer -> {"idle", "get", "share", "make", "check", "split", "put"}]
      /\ on \in [Writer -> Logger \cup {Shared}] /\ FileThere
      /\ SizeLimit \in Nat /\ MsgMax \in Nat \ {0}
  BY ConfFixed, LogFilesAssumption DEF WorkerInv, DirInv, FilesInv, FilesTypeOK
<1>b. CASE ~\E w \in Writer : WriteData(w)
  <2>1. CASE UNCHANGED vars \/ NextDay
    BY <1>a, <2>1 DEF NextDay, vars, Room
  <2>2. ASSUME NEW l \in Logger, NEW k \in Logger, GiveConfiguration(l, k) PROVE Room'
    <3>1. pc'[First] = "idle" /\ disk' = disk
      BY <1>a, <2>2 DEF GiveConfiguration
    <3>2. QED BY <1>a, <3>1 DEF Room
  <2>3. CASE Restart
    BY <1>a, <2>3 DEF Restart, Room
  <2>4. QED BY <1>b, <2>1, <2>2, <2>3 DEF Next
<1>c. ASSUME WriteData(First) PROVE Room'
  <2>a. pc[First] # "idle" => on[First] \in Logger
    BY <1>a, <1>c, WorkerWrites
  <2>1. ASSUME NEW l \in Logger, ChooseFile(First, l) PROVE Room'
    BY <1>a, <2>1 DEF ChooseFile, Room
  <2>2. CASE ShareFile(First)
    BY <1>a, <2>a, <2>2 DEF ShareFile, Room
  <2>3. CASE GetFile(First)
    BY <1>a, <2>a, <2>3 DEF GetFile, Room
  <2>4. CASE CheckFile(First)
    <3>1. /\ pc[First] = "check" /\ dest[First] = name[on[First]] /\ dest[First] # NoName
          /\ pc' = [pc EXCEPT ![First] = IF NeedsSplit(on[First]) THEN "split" ELSE "put"]
          /\ UNCHANGED <<disk, name, on, dest>>
      BY <1>a, <2>4 DEF CheckFile, Room
    <3>2. dest[First] \in DOMAIN disk
      BY <1>a, <3>1 DEF DirInv, Held
    <3>3. disk[dest[First]].size \in Nat
      BY <3>2 DEF DirInv, Numbered
    <3>4. SizeLimit > 0 /\ pc'[First] = "put" => disk[dest[First]].size < SizeLimit
      BY <1>a, <3>1, <3>3 DEF NeedsSplit
    <3>5. QED BY <1>a, <3>1, <3>4 DEF Room
  <2>5. CASE Drop(First)
    BY <1>a, <2>5 DEF Drop, Room
  <2>6. CASE MakeFails(First)
    <3>1. pc'[First] = "idle"
      BY <1>a, <2>6 DEF MakeFails
    <3>2. DOMAIN disk' \subseteq DOMAIN disk /\ \A f \in DOMAIN disk' : disk'[f] = disk[f]
      BY <1>a, <2>6, NotMadeFile
    <3>3. QED BY <1>a, <3>1, <3>2 DEF Room
  <2>7. CASE MakeFile(First)
    <3>1. PICK f : /\ name' = [name EXCEPT ![on[First]] = f]
                   /\ dest' = [dest EXCEPT ![First] = f]
                   /\ DOMAIN disk' \subseteq DOMAIN disk \cup {f}
                   /\ disk'[f] = [size |-> 0, wrote |-> today]
                   /\ \A g \in DOMAIN disk' : g # f => disk'[g] = disk[g]
      BY <1>a, <2>7, MadeFile
    <3>2. on' = on /\ on[First] \in Logger
      BY <2>a, <2>7 DEF MakeFile
    <3>3. dest'[First] = f /\ name'[on'[First]] = f /\ disk'[f].size = 0
      BY <1>a, <3>1, <3>2
    <3>4. QED BY <1>a, <3>1, <3>3 DEF Room
  <2>8. CASE Put(First)
    <3>1. pc[First] = "put" /\ pc'[First] = "idle"
      BY <1>a, <2>8 DEF Put
    <3>a. PICK n \in 1 .. MsgMax :
            disk' = [disk EXCEPT ![dest[First]] = [size |-> @.size + n, wrote |-> today]]
      BY <2>8 DEF Put
    <3>2. dest[First] \in DOMAIN disk
      BY <1>a, <3>1 DEF DirInv, Held
    <3>3. disk[dest[First]].size \in Nat
      BY <3>2 DEF DirInv, Numbered
    <3>4. /\ disk'[dest[First]].size = disk[dest[First]].size + n /\ DOMAIN disk' = DOMAIN disk
          /\ \A g \in DOMAIN disk : g # dest[First] => disk'[g] = disk[g]
      BY <3>a, <3>2
    <3>5. SizeLimit > 0 => disk[dest[First]].size + n < SizeLimit + MsgMax
      BY <1>a, <3>1, <3>3 DEF Room
    <3>6. QED BY <1>a, <3>1, <3>4, <3>5 DEF Room
  <2>9. QED BY <1>c, <2>1, <2>2, <2>3, <2>4, <2>5, <2>6, <2>7, <2>8 DEF WriteData
<1>d. QED BY <1>b, <1>c, WorkerWrites

(* Neither MakeLOGFile nor SetLoggerConfiguration parts a logger's date from
   its file. *)
LEMMA DatedStep ==
  ASSUME DirInv, WorkerInv, [Next]_vars
  PROVE  Dated'
<1> SUFFICES ASSUME split, ~sync, ~torn, ~torn' PROVE Dated'
  BY ConfFixed DEF Dated
<1> USE DEF conf, hist, Goto, Return
<1>a. /\ Dated /\ First \in Writer /\ DOMAIN date = Logger /\ DOMAIN name = Logger
      /\ pc \in [Writer -> {"idle", "get", "share", "make", "check", "split", "put"}]
  BY LogFilesAssumption DEF WorkerInv, DirInv, FilesInv, FilesTypeOK
<1>b. CASE Restart \/ NextDay \/ UNCHANGED vars
  BY <1>a, <1>b DEF Restart, NextDay, vars, Dated
<1>c. ASSUME NEW l \in Logger, NEW k \in Logger, GiveConfiguration(l, k) PROVE Dated'
  <2>1. /\ name' = [name EXCEPT ![l] = name[k]] /\ date' = [date EXCEPT ![l] = date[k]]
        /\ pc' = pc
    BY <1>c DEF GiveConfiguration
  <2>2. \A j \in Logger : name'[j] # NoName => date'[j] = YDay(name'[j].day)
    BY <1>a, <2>1 DEF Dated
  <2>3. QED BY <1>a, <2>1, <2>2 DEF Dated
<1>d. ASSUME WriteData(First) PROVE Dated'
  <2>a. pc[First] # "idle" => on[First] \in Logger
    BY <1>a, <1>d, WorkerWrites
  <2>1. CASE UNCHANGED <<name, date>> /\ pc'[First] # "share"
    BY <1>a, <2>1 DEF Dated
  <2>2. CASE MakeFails(First)
    <3>1. /\ pc'[First] = "idle"
          /\ \/ UNCHANGED <<name, date>>
             \/ /\ name' = [name EXCEPT ![on[First]] = NoName]
                /\ date' = [date EXCEPT ![on[First]] = YDay(today)]
      BY <1>a, <2>2 DEF MakeFails
    <3>2. \A j \in Logger : name'[j] # NoName => name'[j] = name[j] /\ date'[j] = date[j]
      BY <1>a, <2>a, <3>1
    <3>3. QED BY <1>a, <3>1, <3>2 DEF Dated
  <2>3. CASE MakeFile(First)
    <3>1. PICK f : f.day = today /\ name' = [name EXCEPT ![on[First]] = f]
      BY <1>a, <2>3, MadeFile
    <3>2. date' = [date EXCEPT ![on[First]] = YDay(today)] /\ pc'[First] # "share"
      BY <1>a, <2>3 DEF MakeFile
    <3>3. \A j \in Logger : name'[j] # NoName => date'[j] = YDay(name'[j].day)
      BY <1>a, <3>1, <3>2 DEF Dated
    <3>4. QED BY <3>2, <3>3 DEF Dated
  <2>4. QED BY <1>a, <1>d, <2>1, <2>2, <2>3
            DEF WriteData, ChooseFile, ShareFile, GetFile, CheckFile, Drop, Put, Dated
<1>e. QED BY <1>b, <1>c, <1>d, WorkerWrites DEF Next

(* workerThread makes a second file only where it splits one. *)
LEMMA UnifiedStep ==
  ASSUME DirInv, WorkerInv, [Next]_vars
  PROVE  Unified'
<1> SUFFICES ASSUME ~split, ~sync PROVE Unified'
  BY ConfFixed DEF Unified
<1> USE DEF conf, hist, Goto, Return
<1>a. /\ Unified /\ First \in Writer
      /\ pc \in [Writer -> {"idle", "get", "share", "make", "check", "split", "put"}]
  BY LogFilesAssumption DEF WorkerInv, DirInv, FilesInv, FilesTypeOK
<1>b. CASE ~\E w \in Writer : WriteData(w)
  BY <1>a, <1>b DEF Next, GiveConfiguration, Restart, NextDay, vars, Unified
<1>c. ASSUME WriteData(First) PROVE Unified'
  <2>a. pc[First] # "idle" => on[First] \in Logger
    BY <1>a, <1>c, WorkerWrites
  <2>1. ASSUME NEW l \in Logger, ChooseFile(First, l) PROVE Unified'
    BY <1>a, <2>1 DEF ChooseFile, Unified
  <2>2. CASE ShareFile(First) \/ CheckFile(First) \/ Drop(First) \/ MakeFails(First) \/ Put(First)
    BY <1>a, <2>2 DEF ShareFile, CheckFile, Drop, MakeFails, Put, Unified
  <2>3. CASE GetFile(First)
    <3>1. name[on[First]] \in open \cup {NoName}
      BY <2>a, <2>3 DEF GetFile, DirInv, Held
    <3>2. QED BY <1>a, <2>3, <3>1 DEF GetFile, Unified
  <2>4. CASE MakeFile(First)
    BY <1>a, <2>4 DEF MakeFile, Unified
  <2>5. QED BY <1>c, <2>1, <2>2, <2>3, <2>4 DEF WriteData
<1>d. QED BY <1>b, <1>c, WorkerWrites

(* The three parts together. *)
LEMMA WorkerAlways == Spec => [](DirInv /\ WorkerInv)
<1>1. Init => WorkerInv
  <2> SUFFICES ASSUME Init PROVE WorkerInv
    OBVIOUS
  <2>1. /\ DOMAIN date = Logger /\ moved = FALSE /\ pc[First] = "idle" /\ DOMAIN disk = {}
        /\ open = {} /\ \A l \in Logger : name[l] = NoName
    BY LogFilesAssumption DEF Init
  <2>2. QED BY <2>1 DEF WorkerInv, Room, Dated, Unified
<1>2. DirInv /\ WorkerInv /\ [Next]_vars => WorkerInv'
  BY WorkerTypes, RoomStep, DatedStep, UnifiedStep DEF WorkerInv
<1>3. QED BY <1>1, <1>2, DirInit, DirStep, PTL DEF Spec

(* The size test before each write of workerThread keeps every file less than a
   message above fileSizeLimit, however many loggers share it and however long
   the messages are. *)
THEOREM FilesWithinLimit == Spec => []SizeBounded
<1>1. WorkerInv => SizeBounded
  BY DEF WorkerInv, Room, SizeBounded
<1>2. QED BY <1>1, WorkerAlways, PTL

(* The threads that have found no open file and are about to make one. *)
Makers == {w \in Writer : pc[w] = "make"}

(* Each of them has its share in the files to come. *)
SharesLeft ==
  ~split /\ ~moved =>
    Cardinality(open \ {NoName}) + Cardinality(Makers) <= Cardinality(Writer)

(* The sets that are counted are finite. *)
LEMMA Counted ==
  ASSUME DirInv
  PROVE  /\ IsFiniteSet(open \ {NoName}) /\ Cardinality(open \ {NoName}) \in Nat
         /\ IsFiniteSet(Makers) /\ Cardinality(Makers) \in Nat
         /\ Cardinality(Makers) <= Cardinality(Writer) /\ Cardinality(Writer) \in Nat
<1>1. open \ {NoName} \subseteq DOMAIN disk /\ IsFiniteSet(DOMAIN disk)
  BY DEF DirInv, Held, FilesInv, FilesTypeOK
<1>2. IsFiniteSet(open \ {NoName})
  BY <1>1, FS_Subset
<1>3. Makers \subseteq Writer /\ IsFiniteSet(Writer)
  BY LogFilesAssumption DEF Makers
<1>4. IsFiniteSet(Makers) /\ Cardinality(Makers) <= Cardinality(Writer)
  BY <1>3, FS_Subset
<1>5. QED BY <1>2, <1>3, <1>4, FS_CardinalityType

(* Fewer makers and no more files take no more than before. *)
LEMMA FewerCounted ==
  ASSUME DirInv, SharesLeft, NEW O, NEW M, O \subseteq open \ {NoName}, M \subseteq Makers,
         ~split, ~moved
  PROVE  Cardinality(O) + Cardinality(M) <= Cardinality(Writer)
<1>1. PICK P : P = open \ {NoName}
  OBVIOUS
<1>2. /\ IsFiniteSet(P) /\ Cardinality(P) \in Nat /\ IsFiniteSet(Makers)
      /\ Cardinality(Makers) \in Nat /\ Cardinality(Writer) \in Nat
      /\ Cardinality(P) + Cardinality(Makers) <= Cardinality(Writer)
  BY <1>1, Counted DEF SharesLeft
<1>3. IsFiniteSet(O) /\ Cardinality(O) <= Cardinality(P)
  BY <1>1, <1>2, FS_Subset
<1>4. IsFiniteSet(M) /\ Cardinality(M) <= Cardinality(Makers)
  BY <1>2, FS_Subset
<1>5. Cardinality(O) \in Nat /\ Cardinality(M) \in Nat
  BY <1>3, <1>4, FS_CardinalityType
<1>6. QED BY <1>2, <1>3, <1>4, <1>5

(* A maker that has made its file has used its share. *)
LEMMA MakerCounted ==
  ASSUME DirInv, SharesLeft, NEW w \in Makers, NEW f, ~split, ~moved
  PROVE  Cardinality((open \ {NoName}) \cup {f}) + Cardinality(Makers \ {w}) <= Cardinality(Writer)
<1>1. PICK P : P = open \ {NoName}
  OBVIOUS
<1>2. /\ IsFiniteSet(P) /\ Cardinality(P) \in Nat /\ IsFiniteSet(Makers)
      /\ Cardinality(Makers) \in Nat /\ Cardinality(Writer) \in Nat
      /\ Cardinality(P) + Cardinality(Makers) <= Cardinality(Writer)
  BY <1>1, Counted DEF SharesLeft
<1>3. Cardinality(P \cup {f}) = Cardinality(P) \/ Cardinality(P \cup {f}) = Cardinality(P) + 1
  BY <1>2, FS_AddElement
<1>4. Cardinality(Makers \ {w}) = Cardinality(Makers) - 1
  BY <1>2, FS_RemoveElement
<1>5. QED BY <1>1, <1>2, <1>3, <1>4

(* Whoever makes a file found none open. *)
LEMMA SharesStep ==
  ASSUME DirInv, WorkerInv, SharesLeft, [Next]_vars
  PROVE  SharesLeft'
<1>0. UNCHANGED <<split, sync>>
  BY ConfFixed
<1> SUFFICES ASSUME ~split, ~moved'
             PROVE  Cardinality(open' \ {NoName}) + Cardinality(Makers') <= Cardinality(Writer)
  BY <1>0 DEF SharesLeft
<1> USE DEF conf, hist, Goto, Return
<1>a. /\ pc \in [Writer -> {"idle", "get", "share", "make", "check", "split", "put"}]
      /\ \A w \in Writer : pc[w] # "idle" => on[w] \in Logger
      /\ moved \in BOOLEAN
  BY DEF WorkerInv, DirInv, FilesInv, FilesTypeOK, Writing
<1>b. CASE open' \ {NoName} = {}
  <2>1. Cardinality(open' \ {NoName}) = 0
    BY <1>b, FS_EmptySet
  <2>2. Makers' \subseteq Writer /\ IsFiniteSet(Writer)
    BY LogFilesAssumption DEF Makers
  <2>3. IsFiniteSet(Makers') /\ Cardinality(Makers') <= Cardinality(Writer)
    BY <2>2, FS_Subset
  <2>4. Cardinality(Makers') \in Nat
    BY <2>3, FS_CardinalityType
  <2>5. QED BY <2>1, <2>3, <2>4
<1>c. CASE open' \ {NoName} \subseteq open \ {NoName} /\ Makers' \subseteq Makers /\ moved' = moved
  <2>1. PICK O, M : O = open' \ {NoName} /\ M = Makers'
    OBVIOUS
  <2>2. QED BY <1>c, <2>1, FewerCounted
<1>d. ASSUME NEW w \in Writer, MakeFile(w), pc[w] = "make"
      PROVE  Cardinality(open' \ {NoName}) + Cardinality(Makers') <= Cardinality(Writer)
  <2>1. PICK f : f # NoName /\ open' = open \cup {f}
    BY <1>d, MadeFile
  <2>2. pc' = [pc EXCEPT ![w] = "check"] /\ moved' = moved
    BY <1>a, <1>d DEF MakeFile
  <2>3. w \in Makers /\ Makers' = Makers \ {w}
    BY <1>a, <1>d, <2>2 DEF Makers
  <2>4. open' \ {NoName} = (open \ {NoName}) \cup {f}
    BY <2>1
  <2>5. QED BY <2>2, <2>3, <2>4, MakerCounted
<1>e. ASSUME NEW w \in Writer, WriteData(w)
      PROVE  Cardinality(open' \ {NoName}) + Cardinality(Makers') <= Cardinality(Writer)
  <2>1. ASSUME NEW l \in Logger, ChooseFile(w, l)
        PROVE  Cardinality(open' \ {NoName}) + Cardinality(Makers') <= Cardinality(Writer)
    <3>1. CASE open = {}
      BY <1>b, <2>1, <3>1 DEF ChooseFile
    <3>2. CASE open # {}
      <4>1. open' = open /\ moved' = moved /\ Makers' \subseteq Makers
        BY <1>a, <2>1, <3>2 DEF ChooseFile, Makers
      <4>2. QED BY <1>c, <4>1
    <3>3. QED BY <3>1, <3>2
  <2>2. CASE ShareFile(w) \/ CheckFile(w) \/ Drop(w) \/ MakeFails(w) \/ Put(w)
    <3>1. open' = open /\ moved' = moved /\ Makers' \subseteq Makers
      BY <1>a, <2>2 DEF ShareFile, CheckFile, Drop, MakeFails, Put, Makers
    <3>2. QED BY <1>c, <3>1
  <2>3. CASE GetFile(w)
    <3>1. name[on[w]] \in open \cup {NoName}
      BY <1>a, <2>3 DEF GetFile, DirInv, Held
    <3>2. open' \ {NoName} \subseteq open \ {NoName} /\ moved' = moved /\ Makers' \subseteq Makers
      BY <1>a, <2>3, <3>1 DEF GetFile, Makers
    <3>3. QED BY <1>c, <3>2
  <2>4. CASE MakeFile(w)
    <3>1. pc[w] = "make"
      BY <1>a, <2>4 DEF MakeFile
    <3>2. QED BY <1>d, <2>4, <3>1
  <2>5. QED BY <1>e, <2>1, <2>2, <2>3, <2>4 DEF WriteData
<1>f. CASE Restart
  BY <1>b, <1>f DEF Restart
<1>g. ASSUME NEW l \in Logger, NEW k \in Logger, GiveConfiguration(l, k)
      PROVE  Cardinality(open' \ {NoName}) + Cardinality(Makers') <= Cardinality(Writer)
  BY <1>c, <1>g DEF GiveConfiguration, Makers
<1>h. CASE NextDay \/ UNCHANGED vars
  BY <1>c, <1>h DEF NextDay, vars, Makers
<1>i. QED BY <1>e, <1>f, <1>g, <1>h DEF Next

(* Loggers without isSplitByLogger have, until one of them goes on to a new file,
   at most one open file between them where workerThread writes for all, and at
   most one for each thread where every thread writes for itself. *)
THEOREM OneFileUntilSplit == Spec => []UnifiedUntilSplit
<1>1. DirInv /\ WorkerInv /\ SharesLeft => UnifiedUntilSplit
  <2> SUFFICES ASSUME DirInv, WorkerInv, SharesLeft, ~split, ~moved
               PROVE  Cardinality(open \ {NoName}) <= IF sync THEN Cardinality(Writer) ELSE 1
    BY DEF UnifiedUntilSplit
  <2>1. CASE sync
    <3>1. Cardinality(open \ {NoName}) <= Cardinality(Writer)
      BY Counted DEF SharesLeft
    <3>2. QED BY <2>1, <3>1
  <2>2. CASE ~sync /\ open \ {NoName} = {}
    BY <2>2, FS_EmptySet
  <2>3. CASE ~sync /\ open \ {NoName} # {}
    <3>1. PICK f : open \ {NoName} = {f}
      BY <2>3 DEF WorkerInv, Unified
    <3>2. Cardinality({f}) = 1
      BY FS_Singleton
    <3>3. QED BY <2>3, <3>1, <3>2
  <2>4. QED BY <2>1, <2>2, <2>3
<1>2. Init => SharesLeft
  <2> SUFFICES ASSUME Init PROVE SharesLeft
    OBVIOUS
  <2>1. open \ {NoName} = {} /\ DirInv
    BY DirInit DEF Init
  <2>2. Cardinality(open \ {NoName}) = 0
    BY <2>1, FS_EmptySet
  <2>3. QED BY <2>1, <2>2, Counted DEF SharesLeft
<1>3. QED BY <1>1, <1>2, SharesStep, WorkerAlways, PTL DEF Spec

(* A day is its year and its place in it. *)
LEMMA YearAndDay ==
  ASSUME NEW d \in Nat
  PROVE  /\ Year(d) \in Nat /\ YDay(d) \in Nat
         /\ d = YearDays * Year(d) + YDay(d)
BY LogFilesAssumption DEF Year, YDay

(* In one year, a day that does not come after another one in the year is no
   later day. *)
LEMMA SameYear ==
  ASSUME NEW d \in Nat, NEW e \in Nat, d <= e, Year(d) = Year(e), YDay(e) <= YDay(d)
  PROVE  d = e
<1>1. /\ YDay(d) \in Nat /\ YDay(e) \in Nat
      /\ d = YearDays * Year(e) + YDay(d) /\ e = YearDays * Year(e) + YDay(e)
  BY YearAndDay
<1>2. YearDays \in Nat /\ Year(e) \in Nat
  BY YearAndDay, LogFilesAssumption
<1>. DEFINE m == YearDays * Year(e)
<1>3. m \in Nat
  BY <1>2
<1>4. d = m + YDay(d) /\ e = m + YDay(e)
  BY <1>1
<1>. HIDE DEF m
<1>5. QED BY <1>1, <1>3, <1>4

(* Where each logger has its own file, what workerThread writes goes to a file
   of the day of the test, unless the year ends in between. *)
THEOREM WritesTodaysFile == Spec => DayOfFile
<1>1. DirInv /\ WorkerInv /\ [Next]_vars =>
        [\A w \in Writer : /\ pc[w] = "check" /\ pc'[w] = "put"
                           /\ SplitWhenDate /\ split /\ ~sync /\ ~torn
                           /\ Year(dest[w].day) = Year(today)
                           => dest[w].day = today]_vars
  <2> SUFFICES ASSUME DirInv, WorkerInv, Next, NEW w \in Writer,
                      pc[w] = "check", pc'[w] = "put", SplitWhenDate, split, ~sync, ~torn,
                      Year(dest[w].day) = Year(today)
               PROVE  dest[w].day = today
    OBVIOUS
  <2> USE DEF conf, hist, Goto, Return
  <2>1. pc \in [Writer -> {"idle", "get", "share", "make", "check", "split", "put"}]
        /\ today \in Nat
    BY DEF DirInv, FilesInv, FilesTypeOK
  <2>2. PICK v \in Writer : WriteData(v)
    BY DEF Next, GiveConfiguration, Restart, NextDay
  <2>3. v = First /\ w = First /\ on[First] \in Logger
    BY <2>2, WorkerWrites DEF DirInv, FilesInv, Writing
  <2>4. CheckFile(First)
    BY <2>1, <2>2, <2>3
       DEF WriteData, ChooseFile, ShareFile, GetFile, Drop, MakeFails, MakeFile, Put
  <2>5. dest[w] # NoName /\ ~(YDay(today) > date[on[First]])
    BY <2>1, <2>3, <2>4 DEF CheckFile, NeedsSplit
  <2>6. dest[w] = name[on[First]] /\ date[on[First]] = YDay(dest[w].day)
    BY <2>3, <2>5 DEF WorkerInv, Room, Dated
  <2>7. dest[w] \in DOMAIN disk
    BY <2>5 DEF DirInv, Held
  <2>8. dest[w].day \in Nat /\ dest[w].day <= today
    BY <2>1, <2>7 DEF DirInv, Numbered, FileName
  <2>9. date[on[First]] \in Nat /\ YDay(today) \in Nat
    BY <2>1, <2>6, <2>8, YearAndDay
  <2>10. YDay(today) <= YDay(dest[w].day)
    BY <2>5, <2>6, <2>9
  <2>11. QED BY <2>1, <2>8, <2>10, SameYear
<1>2. QED BY <1>1, WorkerAlways, PTL DEF Spec, DayOfFile
=============================================================================
