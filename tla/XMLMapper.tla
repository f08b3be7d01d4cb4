----------------------------- MODULE XMLMapper -----------------------------
(***************************************************************************)
(* CXMLMapperV2: a configuration document, the file it comes from and a    *)
(* cache of compiled queries, used by several threads.  The getter of bool *)
(* values, SetDataFromItem and SaveFile enter the critical section _cs;    *)
(* LoadFile, RefreshXML, SetDataFromItemWithVars and whatever else reads   *)
(* or writes nodes do not.  The document is either the configuration or    *)
(* empty; which nodes it has is left out.                                  *)
(***************************************************************************)
EXTENDS Integers, FiniteSets

CONSTANTS
  XmlThread, XmlNobody,
  XmlQuery,       \* queries that give nodes
  XmlValueQuery,  \* queries that give a value and no nodes
  XmlBadQuery,    \* queries that do not parse
  MaxXmlCalls     \* bound on the calls

ASSUME XMLMapperAssumption == XmlNobody \notin XmlThread /\ MaxXmlCalls \in Nat

AnyQuery == XmlQuery \cup XmlValueQuery \cup XmlBadQuery
Loads == {"load", "refresh"}
Operation == {"get", "set", "setVars", "save", "saveTo", "peek"} \cup Loads

(* Two calls that may meet in the document: one takes no lock, and one changes
   the document. *)
Unlocked == {"peek", "setVars"} \cup Loads
Changing == {"set", "setVars"} \cup Loads
Conflict(op, other) == {op, other} \cap Unlocked # {} /\ {op, other} \cap Changing # {}

VARIABLES
  xmlDoc,        \* "config" or "empty": _xmlDocument
  xmlFile,       \* the same of the configuration file
  xmlPath,       \* _xmlFilePath is set
  xmlCache,      \* the queries in _xmlCache
  xmlOwner, xmlDepth, \* of _cs, which its owner may enter again
  xmlPc, xmlOp, xmlAsks, \* where each thread is, in which operation, with which query
  xmlCrashed,
  xmlLeaked,     \* history: threads an exception took out of _cs without leaving it
  xmlRaced,      \* history: two calls in conflict went on at the same time
  xmlLoadFailed, \* history: a load failed
  xmlSavedNew,   \* history: the file was saved before it was ever loaded
  xmlCalls

xmlData == <<xmlDoc, xmlFile, xmlPath>>
xmlLock == <<xmlOwner, xmlDepth>>
xmlHist == <<xmlLeaked, xmlRaced, xmlLoadFailed, xmlSavedNew, xmlCalls>>
xmlCall == <<xmlOp, xmlAsks>>
xmlVars == <<xmlData, xmlCache, xmlLock, xmlPc, xmlCall, xmlCrashed, xmlHist>>

XmlInit ==
  /\ xmlDoc = "empty" /\ xmlFile = "config" /\ xmlPath = FALSE /\ xmlCache = {}
  /\ xmlOwner = XmlNobody /\ xmlDepth = 0
  /\ xmlPc = [t \in XmlThread |-> "idle"]
  /\ xmlOp = [t \in XmlThread |-> "get"]
  /\ xmlAsks = [t \in XmlThread |-> CHOOSE q \in AnyQuery : TRUE]
  /\ xmlCrashed = FALSE /\ xmlLeaked = {} /\ xmlRaced = FALSE /\ xmlLoadFailed = FALSE
  /\ xmlSavedNew = FALSE /\ xmlCalls = 0

XmlGoto(t, l) == xmlPc' = [xmlPc EXCEPT ![t] = l]
InCall(t) == xmlPc[t] # "idle"
(* Another thread builds the document up or writes to nodes of it.  Whoever reads
   or writes it then may not survive. *)
Changed(t) == \E u \in XmlThread \ {t} : xmlPc[u] \in {"parse", "write", "change"}
TouchDocument(t) == xmlCrashed' \in {FALSE, Changed(t)}

CallXml(t, op, q) ==
  /\ ~InCall(t) /\ xmlCalls < MaxXmlCalls
  /\ op \in {"get", "set", "setVars"} \/ q = xmlAsks[t]
  /\ xmlCalls' = xmlCalls + 1
  /\ xmlOp' = [xmlOp EXCEPT ![t] = op] /\ xmlAsks' = [xmlAsks EXCEPT ![t] = q]
  /\ xmlRaced' = (xmlRaced \/ \E u \in XmlThread \ {t} : InCall(u) /\ Conflict(op, xmlOp[u]))
  /\ XmlGoto(t, CASE op \in {"get", "set", "save", "saveTo"} -> "enter"
                  [] op = "setVars" -> "find"
                  [] op = "peek" -> "peek"
                  [] op = "load" -> "unload"
                  [] op = "refresh" -> "clear")
  /\ UNCHANGED <<xmlData, xmlCache, xmlLock, xmlCrashed, xmlLeaked, xmlLoadFailed, xmlSavedNew>>

-----------------------------------------------------------------------------
EnterCs(t) ==
  /\ xmlPc[t] = "enter" /\ xmlOwner \in {XmlNobody, t}
  /\ xmlOwner' = t /\ xmlDepth' = xmlDepth + 1
  /\ XmlGoto(t, IF xmlOp[t] \in {"save", "saveTo"} THEN "save" ELSE "compile")
  /\ UNCHANGED <<xmlData, xmlCache, xmlCall, xmlCrashed, xmlHist>>

Released ==
  /\ xmlDepth' = xmlDepth - 1
  /\ xmlOwner' = IF xmlDepth = 1 THEN XmlNobody ELSE xmlOwner

LeaveCs(t) ==
  /\ xmlPc[t] = "leave" /\ Released
  /\ XmlGoto(t, "idle")
  /\ UNCHANGED <<xmlData, xmlCache, xmlCall, xmlCrashed, xmlHist>>

(* A cache that forgets what was compiled. *)
Compile_uncached(t) ==
  /\ xmlPc[t] = "compile" /\ xmlAsks[t] \notin XmlBadQuery
  /\ XmlGoto(t, "lookup")
  /\ UNCHANGED <<xmlData, xmlCache, xmlLock, xmlCall, xmlCrashed, xmlHist>>

Compile(t) ==
  /\ xmlPc[t] = "compile" /\ xmlAsks[t] \notin XmlBadQuery
  /\ xmlCache' = xmlCache \cup {xmlAsks[t]}
  /\ XmlGoto(t, "lookup")
  /\ UNCHANGED <<xmlData, xmlLock, xmlCall, xmlCrashed, xmlHist>>

(* The query throws where it is compiled or, when a setter meets a value,
   where it is evaluated. *)
Throws(t) ==
  \/ xmlPc[t] \in {"compile", "find"} /\ xmlAsks[t] \in XmlBadQuery
  \/ xmlPc[t] = "evaluate" /\ xmlOp[t] = "set" /\ xmlAsks[t] \in XmlValueQuery
  \/ xmlPc[t] = "find" /\ xmlAsks[t] \in XmlValueQuery

(* A handler that returns the default and forgets the critical section. *)
GetThrows_kept(t) ==
  /\ Throws(t) /\ xmlOp[t] = "get"
  /\ XmlGoto(t, "idle")
  /\ UNCHANGED <<xmlData, xmlCache, xmlLock, xmlCall, xmlCrashed, xmlHist>>

(* GetDataFromItem catches and leaves the critical section... *)
GetThrows(t) ==
  /\ Throws(t) /\ xmlOp[t] = "get" /\ Released
  /\ XmlGoto(t, "idle")
  /\ UNCHANGED <<xmlData, xmlCache, xmlCall, xmlCrashed, xmlHist>>

(* ...SetDataFromItem does neither. *)
SetThrows(t) ==
  /\ Throws(t) /\ xmlOp[t] = "set"
  /\ xmlLeaked' = xmlLeaked \cup {t}
  /\ XmlGoto(t, "idle")
  /\ UNCHANGED <<xmlData, xmlCache, xmlLock, xmlCall, xmlCrashed, xmlRaced, xmlLoadFailed, xmlSavedNew,
                 xmlCalls>>

(* SetDataFromItemWithVars has nothing to leave. *)
VarsThrow(t) ==
  /\ Throws(t) /\ xmlOp[t] = "setVars"
  /\ XmlGoto(t, "idle")
  /\ UNCHANGED <<xmlData, xmlCache, xmlLock, xmlCall, xmlCrashed, xmlHist>>

(* operator[] gives a null pointer for a query that is not there any more. *)
FindQuery(t) ==
  /\ xmlPc[t] = "lookup"
  /\ xmlCache' = xmlCache \cup {xmlAsks[t]}
  /\ xmlCrashed' = (xmlAsks[t] \notin xmlCache)
  /\ XmlGoto(t, "evaluate")
  /\ UNCHANGED <<xmlData, xmlLock, xmlCall, xmlHist>>

EvaluateQuery(t) ==
  /\ xmlPc[t] \in {"evaluate", "find"} /\ ~Throws(t) /\ TouchDocument(t)
  /\ XmlGoto(t, CASE xmlPc[t] = "find" -> "change"
                  [] xmlPc[t] = "evaluate" /\ xmlOp[t] = "set" -> "write"
                  [] xmlPc[t] = "evaluate" /\ xmlOp[t] # "set" -> "leave")
  /\ UNCHANGED <<xmlData, xmlCache, xmlLock, xmlCall, xmlHist>>

(* The setters write to the nodes they found. *)
SetNodes(t) ==
  /\ xmlPc[t] \in {"write", "change"} /\ TouchDocument(t)
  /\ XmlGoto(t, IF xmlPc[t] = "write" THEN "leave" ELSE "idle")
  /\ UNCHANGED <<xmlData, xmlCache, xmlLock, xmlCall, xmlHist>>

(* The accessors to nodes, and the getters that are not of bool. *)
PeekNode(t) ==
  /\ xmlPc[t] = "peek" /\ TouchDocument(t)
  /\ XmlGoto(t, "idle")
  /\ UNCHANGED <<xmlData, xmlCache, xmlLock, xmlCall, xmlHist>>

(* To the path that LoadFile set, if it did, or to the one that is given. *)
SaveFile(t) ==
  /\ xmlPc[t] = "save" /\ TouchDocument(t)
  /\ xmlFile' = IF xmlPath \/ xmlOp[t] = "saveTo" THEN xmlDoc ELSE xmlFile
  /\ xmlSavedNew' = (xmlSavedNew \/ (xmlOp[t] = "saveTo" /\ ~xmlPath))
  /\ XmlGoto(t, "leave")
  /\ UNCHANGED <<xmlDoc, xmlPath, xmlCache, xmlLock, xmlCall, xmlLeaked, xmlRaced,
                 xmlLoadFailed, xmlCalls>>

-----------------------------------------------------------------------------
RefreshXML(t) ==
  /\ xmlPc[t] = "clear"
  /\ xmlCache' = IF xmlPath THEN {} ELSE xmlCache
  /\ XmlGoto(t, IF xmlPath THEN "unload" ELSE "idle")
  /\ UNCHANGED <<xmlData, xmlLock, xmlCall, xmlCrashed, xmlHist>>

(* load_file empties the document before it opens the file... *)
Unload(t) ==
  /\ xmlPc[t] = "unload" /\ TouchDocument(t)
  /\ xmlDoc' = "empty"
  /\ XmlGoto(t, "parse")
  /\ UNCHANGED <<xmlFile, xmlPath, xmlCache, xmlLock, xmlCall, xmlHist>>

(* ...and leaves it empty when the file cannot be read.  The path is taken
   over either way. *)
Parse(t, ok) ==
  /\ xmlPc[t] = "parse" /\ TouchDocument(t)
  /\ xmlDoc' = IF ok THEN xmlFile ELSE "empty"
  /\ xmlPath' = TRUE /\ xmlLoadFailed' = (xmlLoadFailed \/ ~ok)
  /\ XmlGoto(t, "idle")
  /\ UNCHANGED <<xmlFile, xmlCache, xmlLock, xmlCall, xmlLeaked, xmlRaced, xmlSavedNew, xmlCalls>>

XmlStep(t) ==
  \/ EnterCs(t) \/ LeaveCs(t) \/ Compile(t) \/ GetThrows(t) \/ SetThrows(t) \/ VarsThrow(t)
  \/ FindQuery(t) \/ EvaluateQuery(t) \/ SetNodes(t) \/ PeekNode(t) \/ SaveFile(t) \/ RefreshXML(t) \/ Unload(t)
  \/ \E ok \in BOOLEAN : Parse(t, ok)

XmlNext ==
  /\ ~xmlCrashed
  /\ \E t \in XmlThread :
       XmlStep(t) \/ \E op \in Operation, q \in AnyQuery : CallXml(t, op, q)

XmlSpec == XmlInit /\ [][XmlNext]_xmlVars

-----------------------------------------------------------------------------
(* No thread meets a query or a document that is not there or is being changed,
   unless two calls in conflict went on at the same time, one of which takes no
   lock: the critical section is enough for those that take it.  Without such a
   race the configuration file is overwritten with an empty document only after
   a load failed, whose result RefreshXML ignores, or by a SaveFile that is given
   its path before it was loaded. *)
XmlSafe ==
  /\ xmlCrashed => xmlRaced
  /\ xmlFile = "empty" => xmlLoadFailed \/ xmlRaced \/ xmlSavedNew

(* Every call returns, also that of a query that does not parse, unless such a
   query was once given to a setter of another thread. *)
XmlCallReturns ==
  \A t \in XmlThread :
    InCall(t) ~> (~InCall(t) \/ xmlCrashed \/ xmlLeaked \ {t} # {})
=============================================================================
