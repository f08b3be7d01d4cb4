----------------------------- MODULE MCLibrary -----------------------------
(***************************************************************************)
(* The smaller parts of the library, which share no state with each other. *)
(* A behaviour exercises the one that `focus' names and leaves the others  *)
(* in their initial states.                                                *)
(***************************************************************************)
EXTENDS CommonSocket, IoServicePool, XMLMapper, Downloader, WinService, DateTime, LoggerTree

VARIABLE focus

Bodies == {<< >>, <<1>>, <<0, 1>>}
SomeDates == {[Y |-> 2013, m |-> 5, d |-> 7, H |-> h, M |-> 42, S |-> 8] : h \in {0, 9, 12, 15}}

(* The chain of "/a/b": its first part is empty and names a logger of one
   part beside the chain.  A logger may be asked for before or after the loggers
   above and below it.  "ROOT" is another logger than the root. *)
MCRoot == <<"root">>
MCLowerOf == [p \in Part |-> IF p = "ROOT" THEN "root" ELSE p]
MCName == {MCRoot, <<"ROOT">>, <<"">>, <<"", "a">>, <<"", "a", "b">>}

Library == {"socket", "pool", "xml", "download", "service", "date", "tree"}

libVars == <<focus, sockVars, poolVars, xmlVars, dlVars, svcVars, dtVars, vars>>

LibInit == /\ SockInit /\ PoolInit /\ XmlInit /\ DlInit /\ SvcInit /\ DtInit /\ Init
           /\ focus \in Library /\ (sockSlots = "none" => focus = "socket")

Sock(A) == /\ focus = "socket" /\ A
           /\ UNCHANGED <<focus, poolVars, xmlVars, dlVars, svcVars, dtVars, vars>>
Pool(A) == /\ focus = "pool" /\ A
           /\ UNCHANGED <<focus, sockVars, xmlVars, dlVars, svcVars, dtVars, vars>>
Xml(A) == /\ focus = "xml" /\ A
          /\ UNCHANGED <<focus, sockVars, poolVars, dlVars, svcVars, dtVars, vars>>
Dl(A) == /\ focus = "download" /\ A
         /\ UNCHANGED <<focus, sockVars, poolVars, xmlVars, svcVars, dtVars, vars>>
Svc(A) == /\ focus = "service" /\ A
          /\ UNCHANGED <<focus, sockVars, poolVars, xmlVars, dlVars, dtVars, vars>>
Dt(A) == /\ focus = "date" /\ A
         /\ UNCHANGED <<focus, sockVars, poolVars, xmlVars, dlVars, svcVars, vars>>
Tree(A) == /\ focus = "tree" /\ A
           /\ UNCHANGED <<focus, sockVars, poolVars, xmlVars, dlVars, svcVars, dtVars>>

LibNext ==
  \/ Sock(SockNext) \/ Pool(PoolNext) \/ Xml(XmlNext) \/ Dl(DlNext) \/ Svc(SvcNext)
  \/ Dt(DtNext) \/ Tree(Next)

LibFairness ==
  /\ WF_libVars(Sock(SockReader))
  /\ \A c \in Communicator : \A s \in Service : WF_libVars(Pool(Serve(c, s)))
  /\ \A t \in Dealing : WF_libVars(Pool(DealIncrement(t) \/ DealTest(t) \/ DealReset(t) \/ Run(t)))
  /\ \A t \in XmlThread : WF_libVars(Xml(~xmlCrashed /\ XmlStep(t)))
  /\ WF_libVars(Dl(DlCaller))
  /\ WF_libVars(Svc(SvcCaller))

LibSpec == LibInit /\ [][LibNext]_libVars /\ LibFairness
=============================================================================
