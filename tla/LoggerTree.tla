----------------------------- MODULE LoggerTree -----------------------------
(***************************************************************************)
(* The tree of loggers (CLogFactory::GetLogger and CLogger of              *)
(* cmnLogger.cpp): which loggers exist, which are children of which, and   *)
(* how a configuration or a callback given to one spreads over others.     *)
(*                                                                         *)
(* A logger's name "a/b/c" is the sequence <<a, b, c>> of its parts; the   *)
(* part between two slashes in a row, or before the first, is Empty.       *)
(* One thread changes the tree, between InitLogger and StopLogger: only    *)
(* GetLogger is locked.  _mapNameToLogger tells names apart that differ in  *)
(* case; the comparison that skips a child does not.  The A and W forms of *)
(* a callback are two callbacks.                                           *)
(***************************************************************************)
EXTENDS Naturals, Sequences, FiniteSets, SequencesExt

CONSTANTS
  Part,      \* what names are made of
  LowerOf,   \* each part in lower case
  Name,      \* names of loggers that may be asked for, with their prefixes
  Root,      \* DEFAULT_ROOT_LOGGER
  Empty,     \* the empty part of a name
  Config,    \* configurations
  Default,   \* _defaultConfiguration
  NoConfig,  \* the configuration of a logger that does not exist
  Callback,  \* callbacks
  MaxChange  \* bound on calls that set a configuration or add or remove a callback

(* The names on the way to n. *)
Above(n) == {SubSeq(n, 1, k) : k \in 1 .. Len(n) - 1}

ASSUME TreeAssumption ==
  /\ \A n \in Name : n \in Seq(Part) /\ Len(n) > 0 /\ Above(n) \subseteq Name
  /\ Root \in Name /\ Len(Root) = 1 /\ Root # <<Empty>>
  /\ MaxChange \in Nat
  /\ Default \in Config /\ NoConfig \notin Config

ASSUME LowerAssumption == LowerOf \in [Part -> Part]

(* wcsicmp finds no difference between two names. *)
SameName(m, n) == Len(m) = Len(n) /\ \A i \in 1 .. Len(n) : LowerOf[m[i]] = LowerOf[n[i]]

VARIABLES
  loggers,   \* _mapNameToLogger
  childs,    \* _vecChilds of each logger; a logger is appended when it is made
  config,    \* _loggerConfiguration of each logger
  holders,   \* the loggers in whose map each callback is
  crashed,   \* the stack has overflowed
  asked,     \* history: loggers made because GetLogger was called for them
  added,     \* history: loggers at which a callback was added and not removed
  changes    \* how many such calls were made

vars == <<loggers, childs, config, holders, crashed, asked, added, changes>>

(* InitLogger makes the root, which GetLogger appends to the root. *)
Init ==
  /\ loggers = {Root}
  /\ childs = [n \in Name |-> IF n = Root THEN {Root} ELSE {}]
  /\ config = [n \in Name |-> IF n = Root THEN Default ELSE NoConfig]
  /\ holders = [k \in Callback |-> {}]
  /\ crashed = FALSE /\ asked = {Root} /\ added = [k \in Callback |-> {}]
  /\ changes = 0

-----------------------------------------------------------------------------
(* The logger to which GetLogger appends n: parentName is empty for the first
   part and after an empty first part. *)
ParentOf(n) ==
  IF Len(n) = 1 \/ SubSeq(n, 1, Len(n) - 1) = <<Empty>> THEN Root
  ELSE SubSeq(n, 1, Len(n) - 1)

(* A GetLogger that appends the parent to the child. *)
GetLogger_swapped(n) ==
  LET new == (Above(n) \cup {n}) \ loggers
      appended == IF Len(n) = 1 THEN {n} ELSE new \ {n}
  IN
  /\ ~crashed /\ n \notin loggers
  /\ loggers' = loggers \cup new
  /\ config' = [m \in Name |-> IF m \in new THEN Default ELSE config[m]]
  /\ childs' = [m \in Name |->
       childs[m] \cup (IF m \in appended THEN {ParentOf(m)} ELSE {})]
  /\ asked' = asked \cup {n}
  /\ UNCHANGED <<holders, crashed, added, changes>>

(* A GetLogger that appends a top-level logger only when it was made on the
   way to another. *)
GetLogger_unrooted(n) ==
  LET new == (Above(n) \cup {n}) \ loggers
      appended == new \ {n}
  IN
  /\ ~crashed /\ n \notin loggers
  /\ loggers' = loggers \cup new
  /\ config' = [m \in Name |-> IF m \in new THEN Default ELSE config[m]]
  /\ childs' = [p \in Name |->
       childs[p] \cup {m \in appended : ParentOf(m) = p}]
  /\ asked' = asked \cup {n}
  /\ UNCHANGED <<holders, crashed, added, changes>>

(* GetLogger of a logger that does not exist: it and those on the way to it are
   made with the default configuration.  The ones on the way are appended to
   their parents, and so is n itself if its name has one part. *)
GetLogger(n) ==
  LET new == (Above(n) \cup {n}) \ loggers
      appended == IF Len(n) = 1 THEN {n} ELSE new \ {n}
  IN
  /\ ~crashed /\ n \notin loggers
  /\ loggers' = loggers \cup new
  /\ config' = [m \in Name |-> IF m \in new THEN Default ELSE config[m]]
  /\ childs' = [p \in Name |->
       childs[p] \cup {m \in appended : ParentOf(m) = p}]
  /\ asked' = asked \cup {n}
  /\ UNCHANGED <<holders, crashed, added, changes>>

-----------------------------------------------------------------------------
(* The loggers that a recursion over _vecChilds comes to from l when it goes
   from a logger p to its child c exactly if Enter(p, c). *)
Visited(l, Enter(_, _)) ==
  LET closed == {S \in SUBSET loggers :
                   l \in S /\ \A p \in S : \A c \in childs[p] : Enter(p, c) => c \in S}
  IN  {n \in loggers : \A S \in closed : n \in S}

(* SetLoggerConfiguration of l with a configuration obtained from the logger
   called from (a configuration made from nothing has the name <<Empty>>); a
   child of that name, in upper or lower case, is skipped.  The root is its own
   child: unless the configuration has its name, the call never ends. *)
SetLoggerConfiguration(l, v, from) ==
  /\ ~crashed /\ l \in loggers /\ changes < MaxChange
  /\ changes' = changes + 1
  /\ IF l = Root /\ ~SameName(Root, from)
       THEN crashed' = TRUE /\ UNCHANGED config
       ELSE LET Enter(p, c) == ~SameName(c, from)
                reached == Visited(l, Enter)
            IN
            /\ config' = [n \in Name |-> IF n \in reached THEN v ELSE config[n]]
            /\ UNCHANGED crashed
  /\ UNCHANGED <<loggers, childs, holders, asked, added>>

(* AddCallback: a logger that has the callback is left, with those below it. *)
AddCallback(l, k) ==
  LET Enter(p, c) == p \notin holders[k] IN
  /\ ~crashed /\ l \in loggers /\ changes < MaxChange
  /\ changes' = changes + 1
  /\ holders' = [holders EXCEPT ![k] = @ \cup Visited(l, Enter)]
  /\ added' = [added EXCEPT ![k] = @ \cup {l}]
  /\ UNCHANGED <<loggers, childs, config, crashed, asked>>

(* A RemoveCallback that does not go to the children. *)
RemoveCallback_shallow(l, k) ==
  /\ ~crashed /\ l \in loggers /\ changes < MaxChange
  /\ changes' = changes + 1
  /\ holders' = [holders EXCEPT ![k] = @ \ {l}]
  /\ added' = [added EXCEPT ![k] = @ \ {l}]
  /\ UNCHANGED <<loggers, childs, config, crashed, asked>>

(* RemoveCallback: a logger without the callback is left, with those below. *)
RemoveCallback(l, k) ==
  LET Enter(p, c) == p \in holders[k]
      reached == Visited(l, Enter)
  IN
  /\ ~crashed /\ l \in loggers /\ changes < MaxChange
  /\ changes' = changes + 1
  /\ holders' = [holders EXCEPT ![k] = @ \ reached]
  /\ added' = [added EXCEPT ![k] = @ \ reached]
  /\ UNCHANGED <<loggers, childs, config, crashed, asked>>

Next ==
  \/ \E n \in Name : GetLogger(n)
  \/ \E l, from \in loggers, v \in Config : SetLoggerConfiguration(l, v, from)
  \/ \E l \in loggers, k \in Callback : AddCallback(l, k) \/ RemoveCallback(l, k)

Spec == Init /\ [][Next]_vars

-----------------------------------------------------------------------------
(* Types. *)
TypeOK ==
  /\ loggers \subseteq Name /\ Root \in loggers
  /\ childs \in [Name -> SUBSET Name]
  /\ config \in [Name -> Config \cup {NoConfig}]
  /\ holders \in [Callback -> SUBSET Name] /\ added \in [Callback -> SUBSET Name]
  /\ crashed \in BOOLEAN /\ asked \subseteq loggers /\ changes \in Nat

(* What calls of GetLogger in any order leave behind: the loggers on the way
   to a logger exist, and a logger is a child of its parent and of no other,
   unless it has several parts and was asked for before anything below it. *)
TreeInv ==
  /\ TypeOK
  /\ \A n \in loggers : Above(n) \subseteq loggers
  /\ \A n \in Name : config[n] = NoConfig <=> n \notin loggers
  /\ \A p, c \in Name : c \in childs[p] <=>
       c \in loggers /\ p = ParentOf(c) /\ (Len(c) = 1 \/ c \notin asked)

(* A configuration set at a logger, whichever it was obtained from, changes
   only that logger and those below it in name: a user of one part of the tree
   never sees its configuration changed from another part. *)
OnlySubtreeChanges ==
  [][config' # config /\ loggers' = loggers =>
       \A l, from \in loggers, v \in Config :
         config'[l] = v /\ SetLoggerConfiguration(l, v, from) =>
           \A n \in loggers : config'[n] # config[n] => l = Root \/ IsPrefix(l, n)]_vars

(* A configuration of the root, modified and set again, reaches every logger
   whose name has one part, except one that is called like the root in another
   case, which keeps its own. *)
TopFollowsRoot ==
  [][\A v \in Config : config'[Root] = v /\ SetLoggerConfiguration(Root, v, Root) =>
       \A n \in loggers : Len(n) = 1 =>
         config'[n] = IF n # Root /\ SameName(n, Root) THEN config[n] ELSE v]_vars

(* A callback is at a logger because it was added there or because the logger
   above it has it: RemoveCallback leaves none behind below it that nobody
   added there. *)
CallbackRooted ==
  \A k \in Callback : \A n \in holders[k] :
    n \in loggers /\ (n \in added[k] \/ (ParentOf(n) \in holders[k] /\ n \notin asked)
                      \/ (Len(n) = 1 /\ Root \in holders[k]))

(* "When there is root/a/b/c and the logger a/b is modified, the configuration
   of the logger a/b/c is modified with it" (cmnLogger.hpp:33). *)
ChildrenFollow ==
  [][\A l \in loggers, v \in Config : SetLoggerConfiguration(l, v, l) =>
       \A n \in loggers : l \in Above(n) => config'[n] = v]_vars
=============================================================================
