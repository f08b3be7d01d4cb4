-------------------------- MODULE LoggerTree_proofs --------------------------
(***************************************************************************)
(* The tree of loggers for any names, configurations and callbacks: its    *)
(* shape, what a configuration set at a logger reaches and what it does    *)
(* not, and why a callback is where it is.                                 *)
(***************************************************************************)
EXTENDS LoggerTree, SequenceTheorems, NaturalsInduction, WellFoundedInduction, TLAPS

(* The names GetLogger meets on its way along a name (cmnLogger.cpp:846). *)
LEMMA AboveFacts ==
  ASSUME NEW n \in Name
  PROVE  /\ Above(n) \subseteq Name
         /\ n \notin Above(n)
         /\ \A m \in Above(n) : Above(m) \subseteq Above(n)
         /\ Len(n) = 1 => Above(n) = {}
<1> USE TreeAssumption
<1>1. n \in Seq(Part) /\ Len(n) \in Nat \ {0} /\ Above(n) \subseteq Name
  OBVIOUS
<1>2. ASSUME NEW k \in 1 .. Len(n) - 1
      PROVE  /\ SubSeq(n, 1, k) \in Seq(Part) /\ Len(SubSeq(n, 1, k)) = k
             /\ \A i \in 1 .. k : SubSeq(n, 1, k)[i] = n[i]
  BY <1>1
<1>3. n \notin Above(n)
  BY <1>1, <1>2 DEF Above
<1>4. ASSUME NEW m \in Above(n) PROVE Above(m) \subseteq Above(n)
  <2>1. PICK k \in 1 .. Len(n) - 1 : m = SubSeq(n, 1, k)
    BY <1>4 DEF Above
  <2>2. m \in Seq(Part) /\ Len(m) = k /\ \A i \in 1 .. k : m[i] = n[i]
    BY <1>2, <2>1
  <2>3. ASSUME NEW j \in 1 .. k - 1 PROVE SubSeq(m, 1, j) = SubSeq(n, 1, j)
    <3>1. j \in 1 .. Len(n) - 1
      BY <1>1
    <3>2. /\ SubSeq(m, 1, j) \in Seq(Part) /\ Len(SubSeq(m, 1, j)) = j
          /\ \A i \in 1 .. j : SubSeq(m, 1, j)[i] = m[i]
      BY <2>2
    <3>3. /\ SubSeq(n, 1, j) \in Seq(Part) /\ Len(SubSeq(n, 1, j)) = j
          /\ \A i \in 1 .. j : SubSeq(n, 1, j)[i] = n[i]
      BY <1>2, <3>1
    <3>4. \A i \in 1 .. j : SubSeq(m, 1, j)[i] = SubSeq(n, 1, j)[i]
      BY <2>2, <3>2, <3>3
    <3>5. QED BY <3>2, <3>3, <3>4, SeqEqual
  <2>4. QED BY <1>1, <2>2, <2>3 DEF Above
<1>5. Len(n) = 1 => Above(n) = {}
  BY DEF Above
<1>6. QED BY <1>1, <1>3, <1>4, <1>5

-----------------------------------------------------------------------------
(* InitLogger leaves the root, its own child. *)
LEMMA InitTree == Init => TreeInv
<1> SUFFICES ASSUME Init PROVE TreeInv
  OBVIOUS
<1> USE TreeAssumption
<1>1. TypeOK
  BY DEF Init, TypeOK
<1>2. \A n \in loggers : Above(n) \subseteq loggers
  BY AboveFacts DEF Init
<1>3. \A n \in Name : config[n] = NoConfig <=> n \notin loggers
  BY DEF Init
<1>4. ParentOf(Root) = Root
  BY DEF ParentOf
<1>5. QED BY <1>1, <1>2, <1>3, <1>4 DEF Init, TreeInv

(* GetLogger keeps the tree a tree; the other calls do not touch it. *)
LEMMA TreeStep == TreeInv /\ [Next]_vars => TreeInv'
<1> SUFFICES ASSUME TreeInv, [Next]_vars PROVE TreeInv'
  OBVIOUS
<1> USE TreeAssumption
<1>1. ASSUME NEW n \in Name, GetLogger(n) PROVE TreeInv'
  <2> DEFINE new == (Above(n) \cup {n}) \ loggers
             appended == IF Len(n) = 1 THEN {n} ELSE new \ {n}
  <2>1. /\ n \notin loggers /\ loggers' = loggers \cup new
        /\ config' = [m \in Name |-> IF m \in new THEN Default ELSE config[m]]
        /\ childs' = [p \in Name |-> childs[p] \cup {m \in appended : ParentOf(m) = p}]
        /\ asked' = asked \cup {n}
        /\ UNCHANGED <<holders, crashed, added, changes>>
    BY <1>1 DEF GetLogger
  <2>2. new \subseteq Name /\ n \in new /\ appended \subseteq new
    BY <2>1, AboveFacts
  <2>3. TypeOK'
    BY <2>1, <2>2 DEF TreeInv, TypeOK
  <2>4. \A m \in loggers' : Above(m) \subseteq loggers'
    BY <2>1, AboveFacts DEF TreeInv
  <2>5. \A m \in Name : config'[m] = NoConfig <=> m \notin loggers'
    BY <2>1 DEF TreeInv
  <2>6. \A m \in Name : m \in appended <=> m \in new /\ (Len(m) = 1 \/ m # n)
    <3>1. CASE Len(n) = 1
      BY <3>1, <2>2, AboveFacts
    <3>2. CASE Len(n) # 1
      BY <3>2, <2>2
    <3>3. QED BY <3>1, <3>2
  <2>7. ASSUME NEW p \in Name, NEW c \in Name
        PROVE  c \in childs'[p] <=>
                 c \in loggers' /\ p = ParentOf(c) /\ (Len(c) = 1 \/ c \notin asked')
    <3>1. c \in childs'[p] <=> c \in childs[p] \/ (c \in appended /\ ParentOf(c) = p)
      BY <2>1
    <3>2. c \in childs[p] <=> c \in loggers /\ p = ParentOf(c) /\ (Len(c) = 1 \/ c \notin asked)
      BY DEF TreeInv
    <3>3. asked \subseteq loggers
      BY DEF TreeInv, TypeOK
    <3> HIDE DEF appended
    <3>4. QED BY <2>1, <2>2, <2>6, <3>1, <3>2, <3>3
  <2>8. QED BY <2>3, <2>4, <2>5, <2>7 DEF TreeInv
<1>2. ASSUME NEW l \in loggers, NEW from \in loggers, NEW v \in Config,
             SetLoggerConfiguration(l, v, from)
      PROVE  TreeInv'
  <2>1. UNCHANGED <<loggers, childs, holders, asked, added>> /\ changes' = changes + 1
    BY <1>2 DEF SetLoggerConfiguration
  <2>2. /\ crashed' \in BOOLEAN /\ config' \in [Name -> Config \cup {NoConfig}]
        /\ \A n \in Name : config'[n] = NoConfig <=> n \notin loggers
    <3>1. CASE l = Root /\ ~SameName(Root, from)
      BY <1>2, <3>1 DEF SetLoggerConfiguration, TreeInv, TypeOK
    <3>2. CASE ~(l = Root /\ ~SameName(Root, from))
      <4> DEFINE Enter(p, c) == ~SameName(c, from)
                 reached == Visited(l, Enter)
      <4>1. /\ config' = [n \in Name |-> IF n \in reached THEN v ELSE config[n]]
            /\ crashed' = crashed
        BY <1>2, <3>2 DEF SetLoggerConfiguration
      <4>2. reached \subseteq loggers
        BY DEF Visited
      <4> HIDE DEF reached
      <4>3. QED BY <4>1, <4>2 DEF TreeInv, TypeOK
    <3>3. QED BY <3>1, <3>2
  <2>3. QED BY <2>1, <2>2 DEF TreeInv, TypeOK
<1>3. ASSUME NEW l \in loggers, NEW k \in Callback, AddCallback(l, k) PROVE TreeInv'
  <2> DEFINE Enter(p, c) == p \notin holders[k]
             reached == Visited(l, Enter)
  <2>1. /\ UNCHANGED <<loggers, childs, config, crashed, asked>> /\ changes' = changes + 1
        /\ holders' = [holders EXCEPT ![k] = @ \cup reached]
        /\ added' = [added EXCEPT ![k] = @ \cup {l}]
    BY <1>3 DEF AddCallback
  <2>2. reached \subseteq loggers
    BY DEF Visited
  <2> HIDE DEF reached
  <2>3. QED BY <2>1, <2>2 DEF TreeInv, TypeOK
<1>4. ASSUME NEW l \in loggers, NEW k \in Callback, RemoveCallback(l, k) PROVE TreeInv'
  <2> DEFINE Enter(p, c) == p \in holders[k]
             reached == Visited(l, Enter)
  <2>1. /\ UNCHANGED <<loggers, childs, config, crashed, asked>> /\ changes' = changes + 1
        /\ holders' = [holders EXCEPT ![k] = @ \ reached]
        /\ added' = [added EXCEPT ![k] = @ \ reached]
    BY <1>4 DEF RemoveCallback
  <2> HIDE DEF reached
  <2>2. QED BY <2>1 DEF TreeInv, TypeOK
<1>5. ASSUME UNCHANGED vars PROVE TreeInv'
  BY <1>5 DEF vars, TreeInv, TypeOK
<1>6. QED BY <1>1, <1>2, <1>3, <1>4, <1>5 DEF Next

(* Whatever the order in which loggers are asked for, those above them exist,
   and a logger is a child of its parent unless it was itself asked for first. *)
THEOREM TreeInvariance == Spec => []TreeInv
<1>1. QED BY InitTree, TreeStep, PTL DEF Spec

-----------------------------------------------------------------------------
(* A logger and its child: the child's name begins with the logger's, unless
   the logger is the root. *)
LEMMA BelowParent ==
  ASSUME NEW l \in Name, NEW c \in Name, l # Root, IsPrefix(l, ParentOf(c))
  PROVE  IsPrefix(l, c)
<1> USE TreeAssumption
<1>1. /\ l \in Seq(Part) /\ Len(l) \in Nat \ {0}
      /\ c \in Seq(Part) /\ Len(c) \in Nat \ {0}
      /\ Root \in Seq(Part) /\ Len(Root) = 1
  OBVIOUS
<1>2. ParentOf(c) # Root
  <2>1. SUFFICES ASSUME IsPrefix(l, Root) PROVE FALSE
    OBVIOUS
  <2>2. Len(l) = 1 /\ SubSeq(l, 1, 1) = SubSeq(Root, 1, 1)
    BY <1>1, <2>1 DEF IsPrefix
  <2>3. SubSeq(l, 1, 1) = l /\ SubSeq(Root, 1, 1) = Root
    BY <1>1, <2>2, SubSeqFull
  <2>4. QED BY <2>2, <2>3
<1>3. Len(c) # 1 /\ ParentOf(c) = SubSeq(c, 1, Len(c) - 1)
  BY <1>2 DEF ParentOf
<1>4. /\ ParentOf(c) \in Seq(Part) /\ Len(ParentOf(c)) = Len(c) - 1
      /\ \A i \in 1 .. Len(c) - 1 : ParentOf(c)[i] = c[i]
  BY <1>1, <1>3
<1>5. Len(l) <= Len(c) - 1 /\ SubSeq(l, 1, Len(l)) = SubSeq(ParentOf(c), 1, Len(l))
  BY <1>4 DEF IsPrefix
<1>6. /\ SubSeq(ParentOf(c), 1, Len(l)) \in Seq(Part)
      /\ Len(SubSeq(ParentOf(c), 1, Len(l))) = Len(l)
      /\ \A i \in 1 .. Len(l) : SubSeq(ParentOf(c), 1, Len(l))[i] = ParentOf(c)[i]
  BY <1>1, <1>4, <1>5
<1>7. /\ SubSeq(c, 1, Len(l)) \in Seq(Part) /\ Len(SubSeq(c, 1, Len(l))) = Len(l)
      /\ \A i \in 1 .. Len(l) : SubSeq(c, 1, Len(l))[i] = c[i]
  BY <1>1, <1>5
<1>8. \A i \in 1 .. Len(l) : SubSeq(ParentOf(c), 1, Len(l))[i] = SubSeq(c, 1, Len(l))[i]
  BY <1>1, <1>4, <1>5, <1>6, <1>7
<1>9. SubSeq(ParentOf(c), 1, Len(l)) = SubSeq(c, 1, Len(l))
  BY <1>6, <1>7, <1>8, SeqEqual
<1>10. QED BY <1>1, <1>5, <1>9 DEF IsPrefix

(* SetLoggerConfiguration (cmnLogger.cpp:516) stays below the logger it is
   called for. *)
LEMMA SetStaysBelow ==
  ASSUME TreeInv, NEW l \in loggers, NEW from \in loggers, NEW v \in Config,
         SetLoggerConfiguration(l, v, from), NEW n \in loggers, config'[n] # config[n]
  PROVE  l = Root \/ IsPrefix(l, n)
<1> USE TreeAssumption
<1> SUFFICES ASSUME l # Root PROVE IsPrefix(l, n)
  OBVIOUS
<1> DEFINE Enter(p, c) == ~SameName(c, from)
           reached == Visited(l, Enter)
           S == {m \in loggers : IsPrefix(l, m)}
<1>1. loggers \subseteq Name
  BY DEF TreeInv, TypeOK
<1>2. n \in reached
  <2>1. config' = [m \in Name |-> IF m \in reached THEN v ELSE config[m]]
    BY DEF SetLoggerConfiguration
  <2> HIDE DEF reached
  <2>2. QED BY <1>1, <2>1
<1>3. l \in S
  BY <1>1 DEF IsPrefix
<1>4. ASSUME NEW p \in S, NEW c \in childs[p] PROVE c \in S
  <2>1. p \in Name /\ c \in Name
    BY <1>1 DEF TreeInv, TypeOK
  <2>2. c \in loggers /\ p = ParentOf(c)
    BY <2>1 DEF TreeInv
  <2>3. QED BY <1>1, <2>1, <2>2, BelowParent
<1>5. S \in SUBSET loggers
  OBVIOUS
<1>6. n \in S
  <2> HIDE DEF S
  <2>1. QED BY <1>2, <1>3, <1>4, <1>5 DEF Visited
<1>7. QED BY <1>6

(* A user of one part of the tree never sees its configuration changed by a
   call for another part. *)
THEOREM ConfigurationsApart == Spec => OnlySubtreeChanges
<1>1. TreeInv /\ [Next]_vars =>
        [config' # config /\ loggers' = loggers =>
           \A l, from \in loggers, v \in Config :
             config'[l] = v /\ SetLoggerConfiguration(l, v, from) =>
               \A n \in loggers : config'[n] # config[n] => l = Root \/ IsPrefix(l, n)]_vars
  BY SetStaysBelow
<1>2. QED BY TreeInvariance, <1>1, PTL DEF Spec, OnlySubtreeChanges

-----------------------------------------------------------------------------
(* The root's own configuration, set again, goes to all its children but those
   called like it, and every logger with a name of one part is one. *)
LEMMA SetReachesTop ==
  ASSUME TreeInv, NEW v \in Config, SetLoggerConfiguration(Root, v, Root),
         NEW n \in loggers, Len(n) = 1
  PROVE  config'[n] = IF n # Root /\ SameName(n, Root) THEN config[n] ELSE v
<1> USE TreeAssumption
<1> DEFINE Enter(p, c) == ~SameName(c, Root)
           reached == Visited(Root, Enter)
           S == loggers \ {n}
<1>1. n \in Name /\ Root \in loggers /\ loggers \subseteq Name
  BY DEF TreeInv, TypeOK
<1>2. config' = [m \in Name |-> IF m \in reached THEN v ELSE config[m]]
  BY DEF SetLoggerConfiguration, SameName
<1>3. n \in childs[Root]
  BY <1>1 DEF TreeInv, ParentOf
<1>4. n = Root \/ ~SameName(n, Root) => n \in reached
  BY <1>3 DEF Visited
<1>5. ASSUME n # Root, SameName(n, Root) PROVE n \notin reached
  <2>1. ASSUME NEW p \in S, NEW c \in childs[p], ~SameName(c, Root) PROVE c \in S
    <3>1. p \in Name /\ c \in Name
      BY <1>1 DEF TreeInv, TypeOK
    <3>2. c \in loggers /\ c # n
      BY <1>5, <2>1, <3>1 DEF TreeInv
    <3>3. QED BY <3>2
  <2>2. S \in SUBSET loggers /\ Root \in S /\ n \notin S
    BY <1>1, <1>5
  <2> HIDE DEF S
  <2>3. QED BY <2>1, <2>2 DEF Visited
<1> HIDE DEF reached
<1>6. QED BY <1>1, <1>2, <1>4, <1>5

(* Configuring the root configures every top-level logger, except those called
   like the root in another case. *)
THEOREM TopLoggersFollow == Spec => TopFollowsRoot
<1>1. TreeInv /\ [Next]_vars =>
        [\A v \in Config : config'[Root] = v /\ SetLoggerConfiguration(Root, v, Root) =>
           \A n \in loggers : Len(n) = 1 =>
             config'[n] = IF n # Root /\ SameName(n, Root) THEN config[n] ELSE v]_vars
  BY SetReachesTop
<1>2. QED BY TreeInvariance, <1>1, PTL DEF Spec, TopFollowsRoot

-----------------------------------------------------------------------------
(* AddCallback gives the callback to the logger it is called for and, from
   there, only to children of loggers that get it too; RemoveCallback goes on
   below every logger it takes the callback from. *)
LEMMA CallbackStep ==
  ASSUME TreeInv, CallbackRooted, [Next]_vars
  PROVE  CallbackRooted'
<1> USE TreeAssumption
<1>0. /\ loggers \subseteq Name /\ Root \in loggers /\ asked \subseteq loggers
      /\ holders \in [Callback -> SUBSET Name] /\ added \in [Callback -> SUBSET Name]
      /\ childs \in [Name -> SUBSET Name]
      /\ \A p, c \in Name : c \in childs[p] <=>
           c \in loggers /\ p = ParentOf(c) /\ (Len(c) = 1 \/ c \notin asked)
  BY DEF TreeInv, TypeOK
<1>1. ASSUME NEW n \in Name, GetLogger(n) PROVE CallbackRooted'
  <2>1. /\ n \notin loggers /\ loggers \subseteq loggers' /\ asked' = asked \cup {n}
        /\ UNCHANGED <<holders, added>>
    BY <1>1 DEF GetLogger
  <2>2. QED BY <1>0, <2>1 DEF CallbackRooted
<1>2. ASSUME NEW l \in loggers, NEW from \in loggers, NEW v \in Config,
             SetLoggerConfiguration(l, v, from)
      PROVE  CallbackRooted'
  BY <1>2 DEF SetLoggerConfiguration, CallbackRooted
<1>3. ASSUME NEW l \in loggers, NEW k \in Callback, AddCallback(l, k) PROVE CallbackRooted'
  <2> DEFINE Enter(p, c) == p \notin holders[k]
             reached == Visited(l, Enter)
             rooted(m) == \/ m = l \/ (ParentOf(m) \in reached /\ m \notin asked)
                          \/ (Len(m) = 1 /\ Root \in reached)
             S == {m \in reached : rooted(m)}
  <2>1. /\ UNCHANGED <<loggers, asked>>
        /\ holders' = [holders EXCEPT ![k] = @ \cup reached]
        /\ added' = [added EXCEPT ![k] = @ \cup {l}]
    BY <1>3 DEF AddCallback
  <2>2. /\ reached \subseteq loggers /\ l \in reached
        /\ \A p \in reached : p \notin holders[k] => \A c \in childs[p] : c \in reached
    <3>1. reached \subseteq loggers /\ l \in reached
      BY DEF Visited
    <3>2. ASSUME NEW p \in reached, p \notin holders[k], NEW c \in childs[p]
          PROVE  c \in reached
      <4>1. c \in loggers
        BY <1>0, <3>1
      <4>2. QED BY <3>2, <4>1 DEF Visited
    <3>3. QED BY <3>1, <3>2
  <2>3. S \in SUBSET loggers /\ l \in S
    BY <2>2
  <2>4. ASSUME NEW p \in S, NEW c \in childs[p], p \notin holders[k] PROVE c \in S
    <3>1. p \in Name /\ c \in Name /\ p \in reached
      BY <1>0, <2>2
    <3>2. c \in reached
      BY <2>2, <2>4, <3>1
    <3>3. p = ParentOf(c) /\ (Len(c) = 1 \/ c \notin asked)
      BY <1>0, <3>1
    <3>4. Len(c) = 1 => p = Root
      BY <3>3 DEF ParentOf
    <3>5. QED BY <3>1, <3>2, <3>3, <3>4
  <2>5. \A m \in reached : m \in S
    <3> HIDE DEF S
    <3>1. QED BY <2>3, <2>4 DEF Visited
  <2>6. \A m \in reached : rooted(m)
    BY <2>5
  <2> HIDE DEF reached
  <2>7. QED BY <1>0, <2>1, <2>2, <2>6 DEF CallbackRooted
<1>4. ASSUME NEW l \in loggers, NEW k \in Callback, RemoveCallback(l, k) PROVE CallbackRooted'
  <2> DEFINE Enter(p, c) == p \in holders[k]
             reached == Visited(l, Enter)
  <2>1. /\ UNCHANGED <<loggers, asked>>
        /\ holders' = [holders EXCEPT ![k] = @ \ reached]
        /\ added' = [added EXCEPT ![k] = @ \ reached]
    BY <1>4 DEF RemoveCallback
  <2>2. \A p \in reached : p \in holders[k] => \A c \in childs[p] : c \in reached
    <3>1. SUFFICES ASSUME NEW p \in reached, p \in holders[k], NEW c \in childs[p]
                   PROVE  c \in reached
      OBVIOUS
    <3>2. c \in loggers
      BY <1>0, <3>1 DEF Visited
    <3>3. QED BY <3>1, <3>2 DEF Visited
  <2> HIDE DEF reached
  <2>3. ASSUME NEW j \in Callback, NEW n \in holders'[j]
        PROVE  n \in loggers /\ (n \in added'[j] \/ (ParentOf(n) \in holders'[j] /\ n \notin asked)
                                 \/ (Len(n) = 1 /\ Root \in holders'[j]))
    <3>1. CASE j # k
      BY <1>0, <2>1, <3>1 DEF CallbackRooted
    <3>2. CASE j = k
      <4>1. /\ n \in holders[k] /\ n \notin reached /\ n \in loggers /\ n \in Name
            /\ n \in added[k] \/ (ParentOf(n) \in holders[k] /\ n \notin asked)
                 \/ (Len(n) = 1 /\ Root \in holders[k])
        BY <1>0, <2>1, <3>2 DEF CallbackRooted
      <4>2. CASE n \in added[k]
        BY <1>0, <2>1, <3>2, <4>1, <4>2
      <4>3. CASE ParentOf(n) \in holders[k] /\ n \notin asked
        <5>1. n \in childs[ParentOf(n)]
          BY <1>0, <4>1, <4>3
        <5>2. ParentOf(n) \notin reached
          BY <2>2, <4>1, <4>3, <5>1
        <5>3. QED BY <1>0, <2>1, <3>2, <4>1, <4>3, <5>2
      <4>4. CASE Len(n) = 1 /\ Root \in holders[k]
        <5>1. n \in childs[Root]
          BY <1>0, <4>1, <4>4 DEF ParentOf
        <5>2. QED BY <1>0, <2>1, <2>2, <3>2, <4>1, <4>4, <5>1
      <4>5. QED BY <4>1, <4>2, <4>3, <4>4
    <3>3. QED BY <3>1, <3>2
  <2>4. QED BY <2>1, <2>3 DEF CallbackRooted
<1>5. ASSUME UNCHANGED vars PROVE CallbackRooted'
  BY <1>5 DEF vars, CallbackRooted
<1>6. QED BY <1>1, <1>2, <1>3, <1>4, <1>5 DEF Next

(* RemoveCallback leaves no callback behind below it that nobody added there. *)
THEOREM CallbacksRooted == Spec => []CallbackRooted
<1>1. Init => CallbackRooted
  BY DEF Init, CallbackRooted
<1>2. TreeInv /\ CallbackRooted /\ [Next]_vars => CallbackRooted'
  BY CallbackStep
<1>3. QED BY TreeInvariance, <1>1, <1>2, PTL DEF Spec

-----------------------------------------------------------------------------
(* A logger that was asked for by a name of several parts is nobody's child, so
   that no call for another logger comes to it. *)
LEMMA SetPassesAsked ==
  ASSUME TreeInv, NEW l \in loggers, NEW from \in loggers, NEW v \in Config,
         SetLoggerConfiguration(l, v, from), NEW n \in asked, Len(n) > 1, n # l
  PROVE  config'[n] = config[n]
<1>0. Len(n) # 1
  <2>1. n \in Seq(Part)
    BY TreeAssumption DEF TreeInv, TypeOK
  <2>2. Len(n) \in Nat
    BY <2>1
  <2>3. \A k \in Nat : k > 1 => k # 1
    OBVIOUS
  <2>4. QED BY <2>2, <2>3, Zenon
<1> DEFINE Enter(p, c) == ~SameName(c, from)
           reached == Visited(l, Enter)
           S == loggers \ {n}
<1>1. n \in loggers /\ loggers \subseteq Name /\ config \in [Name -> Config \cup {NoConfig}]
  BY DEF TreeInv, TypeOK
<1>2. ASSUME NEW p \in S, NEW c \in childs[p] PROVE c \in S
  <2>1. p \in Name /\ c \in Name
    BY <1>1 DEF TreeInv, TypeOK
  <2>2. c \in loggers /\ (Len(c) = 1 \/ c \notin asked)
    BY <2>1 DEF TreeInv
  <2>3. c # n
    BY <1>0, <2>2, Zenon
  <2>4. QED BY <2>2, <2>3
<1>3. l \in S /\ S \in SUBSET loggers /\ n \notin S
  OBVIOUS
<1>4. n \notin reached
  <2> HIDE DEF S
  <2>1. QED BY <1>2, <1>3 DEF Visited
<1>5. \/ UNCHANGED config
      \/ config' = [m \in Name |-> IF m \in reached THEN v ELSE config[m]]
  BY DEF SetLoggerConfiguration
<1> HIDE DEF reached
<1>6. QED BY <1>1, <1>4, <1>5

(* A logger the application got by a name with '/' keeps its configuration
   until that logger itself is configured (cmnLogger.cpp:839, 866). *)
THEOREM AskedKeepTheirOwn ==
  Spec => [][\A l, from \in loggers, v \in Config : SetLoggerConfiguration(l, v, from) =>
               \A n \in asked : Len(n) > 1 /\ n # l => config'[n] = config[n]]_vars
<1>1. TreeInv /\ [Next]_vars =>
        [\A l, from \in loggers, v \in Config : SetLoggerConfiguration(l, v, from) =>
           \A n \in asked : Len(n) > 1 /\ n # l => config'[n] = config[n]]_vars
  BY SetPassesAsked
<1>2. QED BY TreeInvariance, <1>1, PTL DEF Spec

-----------------------------------------------------------------------------
(* Every set of naturals has a least one. *)
LEMMA LeastOf ==
  ASSUME NEW T, T \subseteq Nat, T # {}
  PROVE  \E k \in T : \A j \in T : k <= j
<1>1. \E k \in T : \A j \in T : <<j, k>> \notin OpToRel(<, Nat)
  BY NatLessThanWellFounded, WFMin
<1>2. OpToRel(<, Nat) = {ss \in Nat \X Nat : ss[1] < ss[2]}
  BY DEF OpToRel
<1>3. \E k \in T : \A j \in T : <<j, k>> \notin {ss \in Nat \X Nat : ss[1] < ss[2]}
  BY <1>1, <1>2, Zenon
<1>4. \A k, j \in Nat : <<j, k>> \notin {ss \in Nat \X Nat : ss[1] < ss[2]} => k <= j
  OBVIOUS
<1>5. QED BY <1>3, <1>4, Zenon

(* The prefixes of a name: each is above the longer ones, and one of several
   parts is made as the child of the one before it. *)
LEMMA PrefixFacts ==
  ASSUME NEW n \in Name, NEW k \in 2 .. Len(n)
  PROVE  /\ SubSeq(n, 1, k) \in Above(n) \cup {n}
         /\ SubSeq(n, 1, k) \in Name /\ Len(SubSeq(n, 1, k)) = k
         /\ \A j \in 1 .. k - 1 : SubSeq(n, 1, j) \in Above(SubSeq(n, 1, k))
         /\ SubSeq(n, 1, k - 1) # <<Empty>> =>
              ParentOf(SubSeq(n, 1, k)) = SubSeq(n, 1, k - 1)
<1> USE TreeAssumption
<1> DEFINE m == SubSeq(n, 1, k)
<1>1. n \in Seq(Part) /\ Len(n) \in Nat /\ Above(n) \subseteq Name /\ k \in Nat
  OBVIOUS
<1>2. ASSUME NEW i \in 1 .. Len(n)
      PROVE  /\ SubSeq(n, 1, i) \in Seq(Part) /\ Len(SubSeq(n, 1, i)) = i
             /\ \A x \in 1 .. i : SubSeq(n, 1, i)[x] = n[x]
  BY <1>1
<1>3. m \in Seq(Part) /\ Len(m) = k /\ \A x \in 1 .. k : m[x] = n[x]
  BY <1>1, <1>2
<1>4. m \in Above(n) \cup {n}
  <2>1. CASE k = Len(n)
    <3>1. m = n
      BY <1>1, <1>3, <2>1, SeqEqual
    <3>2. QED BY <3>1
  <2>2. CASE k # Len(n)
    <3>1. k \in 1 .. Len(n) - 1
      BY <1>1, <2>2
    <3>2. QED BY <3>1 DEF Above
  <2>3. QED BY <2>1, <2>2
<1>5. m \in Name
  BY <1>1, <1>4
<1> HIDE DEF m
<1>6. ASSUME NEW j \in 1 .. k - 1 PROVE SubSeq(m, 1, j) = SubSeq(n, 1, j)
  <2>1. j \in 1 .. Len(n)
    BY <1>1
  <2>2. /\ SubSeq(m, 1, j) \in Seq(Part) /\ Len(SubSeq(m, 1, j)) = j
        /\ \A x \in 1 .. j : SubSeq(m, 1, j)[x] = m[x]
    BY <1>1, <1>3
  <2>3. /\ SubSeq(n, 1, j) \in Seq(Part) /\ Len(SubSeq(n, 1, j)) = j
        /\ \A x \in 1 .. j : SubSeq(n, 1, j)[x] = n[x]
    BY <1>2, <2>1
  <2>4. \A x \in 1 .. j : SubSeq(m, 1, j)[x] = SubSeq(n, 1, j)[x]
    BY <1>1, <1>3, <2>2, <2>3
  <2>5. QED BY <2>2, <2>3, <2>4, SeqEqual
<1>7. \A j \in 1 .. k - 1 : SubSeq(n, 1, j) \in Above(m)
  BY <1>3, <1>6 DEF Above
<1>8. SubSeq(n, 1, k - 1) # <<Empty>> => ParentOf(m) = SubSeq(n, 1, k - 1)
  <2>1. k - 1 \in 1 .. k - 1 /\ Len(m) # 1 /\ Len(m) - 1 = k - 1
    BY <1>1, <1>3
  <2>2. SubSeq(m, 1, Len(m) - 1) = SubSeq(n, 1, k - 1)
    BY <1>6, <2>1
  <2>3. QED BY <2>1, <2>2 DEF ParentOf
<1>9. QED BY <1>3, <1>4, <1>5, <1>7, <1>8 DEF m

(* n was made, with everything between l and it, on the way to longer names. *)
MadeOnTheWay(l, n) == \A m \in Above(n) \cup {n} : l \in Above(m) => m \notin asked

(* A configuration set again at the logger it was obtained from goes down the
   names to every logger that was made on the way to others. *)
LEMMA SetReachesMade ==
  ASSUME TreeInv, NEW l \in loggers, NEW v \in Config, SetLoggerConfiguration(l, v, l),
         l # <<Empty>>, NEW n \in loggers, l \in Above(n), MadeOnTheWay(l, n)
  PROVE  config'[n] = v
<1> USE TreeAssumption
<1> DEFINE Enter(p, c) == ~SameName(c, l)
           reached == Visited(l, Enter)
<1>1. /\ n \in Name /\ n \in Seq(Part) /\ Len(n) \in Nat
      /\ loggers \subseteq Name /\ Above(n) \subseteq loggers
  BY DEF TreeInv, TypeOK
<1>2. config' = [m \in Name |-> IF m \in reached THEN v ELSE config[m]]
  BY DEF SetLoggerConfiguration, SameName
<1>3. PICK a \in 1 .. Len(n) - 1 : l = SubSeq(n, 1, a)
  BY DEF Above
<1>4. SubSeq(n, 1, Len(n)) = n
  BY <1>1
<1>5. ASSUME NEW S \in SUBSET loggers, l \in S,
             \A p \in S : \A c \in childs[p] : ~SameName(c, l) => c \in S
      PROVE  n \in S
  <2> DEFINE T == {k \in a .. Len(n) : SubSeq(n, 1, k) \notin S}
  <2> SUFFICES ASSUME n \notin S PROVE FALSE
    OBVIOUS
  <2>1. Len(n) \in T /\ T \subseteq Nat
    <3>1. Len(n) \in a .. Len(n) /\ a .. Len(n) \subseteq Nat
      BY <1>1, <1>3
    <3>2. SubSeq(n, 1, Len(n)) \notin S
      BY <1>4
    <3>3. QED BY <3>1, <3>2
  <2>2. PICK k \in T : \A j \in T : k <= j
    <3> HIDE DEF T
    <3>1. QED BY <2>1, LeastOf
  <2>3. k \in a + 1 .. Len(n) /\ a \in Nat /\ k \in Nat /\ k - 1 \in a .. Len(n)
    BY <1>1, <1>3, <1>5
  <2>4. SubSeq(n, 1, k - 1) \in S
    BY <2>2, <2>3
  <2>5. k \in 2 .. Len(n) /\ a \in 1 .. k - 1
    BY <1>1, <1>3, <2>3
  <2>6. PICK m : m = SubSeq(n, 1, k)
    OBVIOUS
  <2>7. PICK p : p = SubSeq(n, 1, k - 1)
    OBVIOUS
  <2>8. /\ m \in Above(n) \cup {n} /\ m \in Name /\ Len(m) = k /\ l \in Above(m)
        /\ p # <<Empty>> => ParentOf(m) = p
    BY <1>1, <1>3, <2>5, <2>6, <2>7, PrefixFacts
  <2>9. p # <<Empty>>
    <3>1. CASE k - 1 = a
      BY <1>3, <2>7, <3>1
    <3>2. CASE k - 1 # a
      <4>1. k - 1 \in 2 .. Len(n)
        BY <1>1, <1>3, <2>3, <3>2
      <4>2. Len(p) = k - 1
        BY <1>1, <2>7, <4>1, PrefixFacts
      <4>3. Len(<<Empty>>) = 1 /\ k - 1 # 1
        BY <1>1, <2>3, <4>1
      <4>4. QED BY <4>2, <4>3, Zenon
    <3>3. QED BY <3>1, <3>2
  <2>10. m \in loggers /\ m \notin asked /\ p \in Name /\ p \in S /\ m \notin S
    BY <1>1, <2>2, <2>4, <2>6, <2>7, <2>8 DEF MadeOnTheWay
  <2>11. m \in childs[p]
    BY <2>8, <2>9, <2>10 DEF TreeInv
  <2>12. ~SameName(m, l)
    <3>1. Len(l) = a
      BY <1>1, <1>3
    <3>2. Len(m) # Len(l)
      BY <2>3, <2>8, <3>1
    <3>3. QED BY <3>2 DEF SameName
  <2>13. QED BY <1>5, <2>10, <2>11, <2>12
<1>6. n \in reached
  BY <1>5 DEF Visited
<1> HIDE DEF reached
<1>7. QED BY <1>1, <1>2, <1>6

(* What the comment of cmnLogger.hpp:33 says holds for the loggers that were
   made on the way to longer names, down to the first one that was asked for;
   for that one AskedKeepTheirOwn says the opposite. *)
THEOREM MadeOnTheWayFollow ==
  Spec => [][\A l \in loggers, v \in Config : l # <<Empty>> /\ SetLoggerConfiguration(l, v, l) =>
               \A n \in loggers : l \in Above(n) /\ MadeOnTheWay(l, n) => config'[n] = v]_vars
<1>1. TreeInv /\ [Next]_vars =>
        [\A l \in loggers, v \in Config : l # <<Empty>> /\ SetLoggerConfiguration(l, v, l) =>
           \A n \in loggers : l \in Above(n) /\ MadeOnTheWay(l, n) => config'[n] = v]_vars
  BY SetReachesMade
<1>2. QED BY TreeInvariance, <1>1, PTL DEF Spec
=============================================================================
