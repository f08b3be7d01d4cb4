------------------------------ MODULE LogFiles ------------------------------
(***************************************************************************)
(* The files behind the loggers (CLogUtil::WriteData, MakeLOGFile and its  *)
(* helpers in cmnLogger.cpp): which file a message goes to, when a logger  *)
(* goes on to a new file, what it is called, and which files are deleted.  *)
(*                                                                         *)
(* A file's name is its logger (or Shared), its day and its index.  A day  *)
(* is the unit of time.  Without isSynchronousOp one thread, workerThread, *)
(* writes everything; with it every caller writes for itself.  _csFile is  *)
(* held over MakeLOGFile and over each look at the map, which are one step *)
(* each.  Writing in batches is LogPipeline's; here a message reaches the  *)
(* file at once, and fputws and fflush do not fail.                        *)
(***************************************************************************)
EXTENDS Integers, FiniteSets, Functions

CONSTANTS
  Logger,    \* loggers, with the same configuration to begin with
  Writer,    \* threads that run WriteData
  First,     \* the one that does without isSynchronousOp
  Shared,    \* stands for the logger in the name of a file of all loggers
  NoName,    \* the empty currentFullFileName, and the file that is a null pointer
  YearDays,  \* days of a year
  SplitWhenDate, \* isSplitWhenDate
  SizeLimit, \* fileSizeLimit; 0 is no limit
  MsgMax,    \* the longest message a log context holds, in the unit of SizeLimit
  KeepDays,  \* maxLogFileDateCount; 0 keeps all
  MaxDay,    \* bound on the days that pass
  MaxMsg     \* bound on the messages written

ASSUME LogFilesAssumption ==
  /\ Shared \notin Logger /\ First \in Writer
  /\ NoName \notin [of : Logger \cup {Shared}, day : Nat, idx : Nat]
  /\ SplitWhenDate \in BOOLEAN /\ YearDays \in Nat \ {0} /\ MsgMax \in Nat \ {0}
  /\ {SizeLimit, KeepDays, MaxDay, MaxMsg} \subseteq Nat /\ IsFiniteSet(Writer)

VARIABLES
  split,     \* isSplitByLogger
  sync,      \* isSynchronousOp
  garbage,   \* what currentFileDate holds before anything is stored in it
  today,     \* the clock
  disk,      \* the log directory: size and day of the last write of each file
  open,      \* the names in _mapFileNameToDest
  name,      \* currentFullFileName of each logger
  date,      \* currentFileDate.tm_yday of each logger
  pc, on, dest, \* where each writer is, for which logger, and the file it has
  torn,      \* history: a configuration was given while a message was being written
  moved,     \* history: a logger went on to a new file in this process
  lost, failed, msgs \* history: messages not written, files not made, messages

conf == <<split, sync, garbage>>
hist == <<torn, moved, lost, failed, msgs>>
vars == <<conf, today, disk, open, name, date, pc, on, dest, hist>>

File == [of : Logger \cup {Shared}, day : 0 .. MaxDay, idx : 0 .. MaxMsg]
YDay(d) == d % YearDays
Year(d) == d \div YearDays

(* All loggers start from one configuration, whose date nobody has set. *)
Init ==
  /\ split \in BOOLEAN /\ sync \in BOOLEAN
  /\ garbage \in {-1, YearDays}
  /\ today = 0 /\ disk = << >> /\ open = {}
  /\ name = [l \in Logger |-> NoName] /\ date = [l \in Logger |-> garbage]
  /\ pc = [w \in Writer |-> "idle"]
  /\ on = [w \in Writer |-> Shared]
  /\ dest = [w \in Writer |-> NoName]
  /\ torn = FALSE /\ moved = FALSE /\ lost = 0 /\ failed = 0 /\ msgs = 0

Goto(w, l) == pc' = [pc EXCEPT ![w] = l]
Return(w) == /\ Goto(w, "idle")
             /\ on' = [on EXCEPT ![w] = Shared]
             /\ dest' = [dest EXCEPT ![w] = NoName]

-----------------------------------------------------------------------------
(* A WriteData that makes a file for every logger that has none. *)
ChooseFile_own(w, l) ==
  /\ pc[w] = "idle" /\ msgs < MaxMsg /\ (sync \/ w = First)
  /\ msgs' = msgs + 1
  /\ on' = [on EXCEPT ![w] = l]
  /\ Goto(w, IF name[l] # NoName THEN "get" ELSE "make")
  /\ UNCHANGED <<conf, today, disk, open, name, date, dest, torn, moved, lost, failed>>

(* WriteData looks at the logger's file name: it has a file, or shares one
   that is open, or needs one made. *)
ChooseFile(w, l) ==
  /\ pc[w] = "idle" /\ msgs < MaxMsg /\ (sync \/ w = First)
  /\ msgs' = msgs + 1
  /\ on' = [on EXCEPT ![w] = l]
  /\ Goto(w, IF name[l] # NoName THEN "get"
             ELSE IF ~split /\ open # {} THEN "share" ELSE "make")
  /\ UNCHANGED <<conf, today, disk, open, name, date, dest, torn, moved, lost, failed>>

(* GetFile( lc ): any file of the map, whatever its date. *)
ShareFile(w) ==
  /\ pc[w] = "share"
  /\ \E f \in open : /\ name' = [name EXCEPT ![on[w]] = f]
                     /\ dest' = [dest EXCEPT ![w] = f]
  /\ Goto(w, "check")
  /\ UNCHANGED <<conf, today, disk, open, date, on, hist>>

(* GetFile( name ): operator[] enters a null file under a name it does not
   know, which can only be the empty one. *)
GetFile(w) ==
  /\ pc[w] = "get"
  /\ dest' = [dest EXCEPT ![w] = name[on[w]]]
  /\ open' = open \cup {name[on[w]]}
  /\ Goto(w, "check")
  /\ UNCHANGED <<conf, today, disk, name, date, on, hist>>

(* A size test that a file of exactly the limit passes. *)
NeedsSplit_late(l) ==
  \/ SizeLimit > 0 /\ name[l] # NoName /\ disk[name[l]].size > SizeLimit
  \/ SplitWhenDate /\ YDay(today) > date[l]

(* CheckFileSizeAndDate: the size of the file the logger names by now, if it
   can be found, and the logger's date. *)
NeedsSplit(l) ==
  \/ SizeLimit > 0 /\ name[l] # NoName /\ disk[name[l]].size >= SizeLimit
  \/ SplitWhenDate /\ YDay(today) > date[l]

CheckFile(w) ==
  /\ pc[w] = "check" /\ dest[w] # NoName
  /\ Goto(w, IF NeedsSplit(on[w]) THEN "split" ELSE "put")
  /\ UNCHANGED <<conf, today, disk, open, name, date, on, dest, hist>>

(* No file: the message is dropped. *)
Drop(w) ==
  /\ pc[w] = "check" /\ dest[w] = NoName
  /\ lost' = lost + 1
  /\ Return(w)
  /\ UNCHANGED <<conf, today, disk, open, name, date, torn, moved, failed, msgs>>

-----------------------------------------------------------------------------
Owner(l) == IF split THEN l ELSE Shared

(* CheckOldFileExist: what it may delete.  A file that was last written
   KeepDays ago goes or stays with the hour; one that is open cannot go. *)
Age(f) == today - disk[f].wrote
MayDelete(D) ==
  /\ KeepDays > 0 => {f \in DOMAIN disk \ open : Age(f) > KeepDays} \subseteq D
  /\ D \subseteq {f \in DOMAIN disk \ open : KeepDays > 0 /\ Age(f) >= KeepDays}

(* An index counted from the files this process has open. *)
NewFile_opened(l) ==
  [of |-> Owner(l), day |-> today,
   idx |-> Cardinality({f \in open \ {NoName} : f.of = Owner(l) /\ f.day = today})]

(* CheckFileExist: today's date, and the number of today's files as index. *)
NewFile(l) ==
  [of |-> Owner(l), day |-> today,
   idx |-> Cardinality({f \in DOMAIN disk : f.of = Owner(l) /\ f.day = today})]

(* A MakeLOGFile that notes the date before it tries anything. *)
MakeFails_dated(w) ==
  /\ pc[w] \in {"make", "split"}
  /\ \/ UNCHANGED <<disk, name>>
     \/ /\ \E D \in SUBSET DOMAIN disk :
             MayDelete(D) /\ disk' = Restrict(disk, DOMAIN disk \ D)
        /\ name' = [name EXCEPT ![on[w]] = NoName]
  /\ date' = [date EXCEPT ![on[w]] = YDay(today)]
  /\ lost' = lost + 1 /\ failed' = failed + 1
  /\ Return(w)
  /\ UNCHANGED <<conf, today, open, torn, moved, msgs>>

(* MakeLOGFile fails: without the directory nothing else is done, with it the
   name of the logger is emptied. *)
MakeFails(w) ==
  /\ pc[w] \in {"make", "split"}
  /\ \/ UNCHANGED <<disk, name, date>>
     \/ /\ \E D \in SUBSET DOMAIN disk :
             MayDelete(D) /\ disk' = Restrict(disk, DOMAIN disk \ D)
        /\ name' = [name EXCEPT ![on[w]] = NoName]
        /\ date' = [date EXCEPT ![on[w]] = YDay(today)]
  /\ lost' = lost + 1 /\ failed' = failed + 1
  /\ Return(w)
  /\ UNCHANGED <<conf, today, open, torn, moved, msgs>>

(* A split that closes the file the logger leaves, as the comment in WriteData
   asks for, although other loggers may be using it. *)
MakeFile_closing(w) ==
  LET l == on[w]
      f == NewFile(l)
  IN
  /\ pc[w] \in {"make", "split"}
  /\ \E D \in SUBSET DOMAIN disk :
       /\ MayDelete(D)
       /\ disk' = [g \in (DOMAIN disk \ D) \cup {f} |->
                     IF g = f THEN [size |-> 0, wrote |-> today] ELSE disk[g]]
  /\ name' = [name EXCEPT ![l] = f] /\ date' = [date EXCEPT ![l] = YDay(today)]
  /\ open' = (open \ {name[l]}) \cup {f} /\ dest' = [k \in Writer |->
                IF k = w THEN f ELSE IF dest[k] = name[l] THEN NoName ELSE dest[k]]
  /\ moved' = (moved \/ pc[w] = "split")
  /\ Goto(w, IF pc[w] = "split" THEN "put" ELSE "check")
  /\ UNCHANGED <<conf, today, on, torn, lost, failed, msgs>>

(* MakeLOGFile: old files go, the new one is opened and entered; the file the
   logger had stays open. *)
MakeFile(w) ==
  LET l == on[w]
      f == NewFile(l)
  IN
  /\ pc[w] \in {"make", "split"}
  /\ \E D \in SUBSET DOMAIN disk :
       /\ MayDelete(D)
       /\ disk' = [g \in (DOMAIN disk \ D) \cup {f} |->
                     IF g = f THEN [size |-> 0, wrote |-> today] ELSE disk[g]]
  /\ name' = [name EXCEPT ![l] = f] /\ date' = [date EXCEPT ![l] = YDay(today)]
  /\ open' = open \cup {f} /\ dest' = [dest EXCEPT ![w] = f]
  /\ moved' = (moved \/ pc[w] = "split")
  /\ Goto(w, IF pc[w] = "split" THEN "put" ELSE "check")
  /\ UNCHANGED <<conf, today, on, torn, lost, failed, msgs>>

(* fputws and fflush of the whole message, however little room was left. *)
Put(w) ==
  /\ pc[w] = "put"
  /\ \E n \in 1 .. MsgMax :
       disk' = [disk EXCEPT ![dest[w]] = [size |-> @.size + n, wrote |-> today]]
  /\ Return(w)
  /\ UNCHANGED <<conf, today, open, name, date, hist>>

-----------------------------------------------------------------------------
(* SetLoggerConfiguration( k's configuration ): its file goes with it. *)
GiveConfiguration(l, k) ==
  /\ l # k
  /\ name' = [name EXCEPT ![l] = name[k]] /\ date' = [date EXCEPT ![l] = date[k]]
  /\ torn' = (torn \/ \E w \in Writer : pc[w] # "idle")
  /\ UNCHANGED <<conf, today, disk, open, pc, on, dest, moved, lost, failed, msgs>>

(* StopLogger closes all files; the next process finds them on disk. *)
Restart ==
  /\ \A w \in Writer : pc[w] = "idle"
  /\ open' = {} /\ moved' = FALSE
  /\ name' = [l \in Logger |-> NoName] /\ date' = [l \in Logger |-> garbage]
  /\ UNCHANGED <<conf, today, disk, pc, on, dest, torn, lost, failed, msgs>>

NextDay ==
  /\ today < MaxDay
  /\ today' = today + 1
  /\ UNCHANGED <<conf, disk, open, name, date, pc, on, dest, hist>>

WriteData(w) ==
  \/ \E l \in Logger : ChooseFile(w, l)
  \/ ShareFile(w) \/ GetFile(w) \/ CheckFile(w) \/ Drop(w)
  \/ MakeFails(w) \/ MakeFile(w) \/ Put(w)

Next ==
  \/ \E w \in Writer : WriteData(w)
  \/ \E l, k \in Logger : GiveConfiguration(l, k)
  \/ Restart \/ NextDay

Spec == Init /\ [][Next]_vars

-----------------------------------------------------------------------------
(* A file that is made never is one that another logger, another thread or an
   earlier process has written, whatever was deleted in between: its index is
   the number of files of the day. *)
FreshFile == [][\A f \in open' \ open : f # NoName => f \notin DOMAIN disk]_vars

(* Messages get lost only where a file could not be made.  workerThread loses
   exactly one with each failure, and finds its way back to a file. *)
LostOnlyOnFailure ==
  \/ torn
  \/ IF sync THEN lost > 0 => failed > 0 ELSE lost = failed

(* However many loggers share a file, it passes its limit by less than a
   message: the size test comes before the write and lets the whole message in.
   That is for workerThread writing at once: in batches the messages queued
   since the test pass the limit too, and of the threads that write for
   themselves one may test the size of the file its logger has gone on to
   meanwhile, and so write to the old one without any bound. *)
SizeBounded ==
  SizeLimit > 0 /\ ~sync /\ ~torn =>
    \A f \in DOMAIN disk : disk[f].size < SizeLimit + MsgMax

(* With one file per logger, what workerThread writes goes to a file of the day
   of the test, as long as the year does not end. *)
DayOfFile ==
  [][\A w \in Writer :
       /\ pc[w] = "check" /\ pc'[w] = "put"
       /\ SplitWhenDate /\ split /\ ~sync /\ ~torn
       /\ Year(dest[w].day) = Year(today)
       => dest[w].day = today]_vars

(* Loggers that share a log have one file between them until the first of them
   goes on to a new file by itself.  That is workerThread's: with
   isSynchronousOp every thread whose first message finds no file makes one, for
   WriteData looks for an open file in one critical section and makes its own in
   another, but no thread makes a second. *)
UnifiedUntilSplit ==
  ~split /\ ~moved =>
    Cardinality(open \ {NoName}) <= IF sync THEN Cardinality(Writer) ELSE 1
=============================================================================
