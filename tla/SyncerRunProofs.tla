-------------------------- MODULE SyncerRunProofs ---------------------------
(***************************************************************************)
(* Proofs about SyncerRun for any number of connections, nodes and slots:  *)
(* the map of peers is right, no node is connected twice, and nothing      *)
(* works after Close.                                                      *)
(***************************************************************************)
EXTENDS SyncerRun, TLAPS

\* The entry of an address is a connection to that address.
Filed == \A a \in Addrs : peers[a] # None => Addr[peers[a]] = a

\* Who works is a member of the group, the group is stopped before Close
\* waits, and it stays empty after that.
Joined ==
    /\ \A c \in Conns :
        conn[c] \in {"handshake", "ready"} \/ (c \in Inbound /\ conn[c] = "check")
        => <<"conn", c>> \in group
    /\ run \in {"wait", "close", "drain", "peers"} => <<"run", None>> \in group
    /\ closer \in {"waiting", "done"} => tgClosed
    /\ closer = "done" => group = {}

PeerInv == TypeOK /\ Filed /\ PeersTracked /\ NoDoubleConnection

Inv == TypeOK /\ Joined

\* The steps of Next, one by one, for the case distinctions below.
LEMMA Steps ==
    ASSUME Next
    PROVE  \/ \E c \in Conns :
                /\ \/ Accept(c) \/ HandlerStart(c) \/ Pick(c) \/ AllowConnect(c) \/ Dial(c)
                   \/ Handshake(c) \/ AddPeer(c) \/ RunPeer(c) \/ SetErr(c) \/ PeerReturn(c)
                   \/ PeerStopped(c) \/ PeerRemove(c) \/ HandlerReturn(c)
                /\ UNCHANGED <<listening, tgClosed, run, loop, closer>>
           \/ /\ \/ RunStart \/ CloseAll \/ Drained \/ RunReturn
                 \/ \E l \in Loops : LoopStart(l) \/ LoopEnd(l) \/ LoopFail(l) \/ Collect(l)
              /\ UNCHANGED <<tgClosed, closer>>
           \/ /\ CloseListener \/ Stop \/ StopReturn
              /\ UNCHANGED <<group, run, loop, connVars>>
BY Zenon DEF Next, Connection, Serve, Run, Failure, Close

\* What the map of peers holds.
LEMMA RegisteredConns ==
    ASSUME TypeOK
    PROVE  /\ Registered \subseteq Conns
           /\ \A c \in Registered : \E a \in Addrs : peers[a] = c /\ c # None
           /\ \A a \in Addrs : peers[a] # None => peers[a] \in Registered
BY DEF TypeOK, Registered

\* A connection that gives up is not being served, so it only leaves.
LEMMA TypeStep == TypeOK /\ [Next]_vars => TypeOK'
<1> SUFFICES ASSUME TypeOK, [Next]_vars PROVE TypeOK'
  OBVIOUS
<1> USE ConnAssumption DEF TypeOK, Members, Loops, Goto, connVars
<1>1. ASSUME NEW c \in Conns, UNCHANGED <<listening, tgClosed, run, loop, closer>>,
             \/ Accept(c) \/ HandlerStart(c) \/ Pick(c) \/ AllowConnect(c) \/ Dial(c)
             \/ Handshake(c) \/ AddPeer(c) \/ RunPeer(c) \/ SetErr(c) \/ PeerReturn(c)
             \/ PeerStopped(c) \/ PeerRemove(c) \/ HandlerReturn(c)
      PROVE  TypeOK'
  <2>1. CASE Accept(c)
    BY <1>1, <2>1 DEF Accept
  <2>2. CASE HandlerStart(c)
    BY <1>1, <2>2 DEF HandlerStart
  <2>3. CASE Pick(c)
    BY <1>1, <2>3 DEF Pick
  <2>4. CASE AllowConnect(c)
    BY <1>1, <2>4 DEF AllowConnect, GiveUp
  <2>5. CASE Dial(c)
    BY <1>1, <2>5 DEF Dial, GiveUp
  <2>6. CASE Handshake(c)
    BY <1>1, <2>6 DEF Handshake, GiveUp
  <2>7. CASE AddPeer(c)
    BY <1>1, <2>7 DEF AddPeer, GiveUp
  <2>8. CASE RunPeer(c)
    BY <1>1, <2>8 DEF RunPeer
  <2>9. CASE SetErr(c)
    BY <1>1, <2>9 DEF SetErr
  <2>10. CASE PeerReturn(c) \/ PeerStopped(c)
    BY <1>1, <2>10 DEF PeerReturn, PeerStopped, LeaveGroup
  <2>11. CASE PeerRemove(c)
    BY <1>1, <2>11 DEF PeerRemove
  <2>12. CASE HandlerReturn(c)
    BY <1>1, <2>12 DEF HandlerReturn, GiveUp
  <2> QED
    BY <1>1, <2>1, <2>2, <2>3, <2>4, <2>5, <2>6, <2>7, <2>8, <2>9, <2>10, <2>11, <2>12
<1>2. ASSUME UNCHANGED <<tgClosed, closer>>, RunStart \/ CloseAll \/ Drained \/ RunReturn
      PROVE  TypeOK'
  <2>1. CASE RunStart
    BY <1>2, <2>1 DEF RunStart
  <2>2. CASE CloseAll
    BY <1>2, <2>2, RegisteredConns DEF CloseAll
  <2>3. CASE Drained
    BY <1>2, <2>3 DEF Drained
  <2>4. CASE RunReturn
    BY <1>2, <2>4 DEF RunReturn
  <2> QED
    BY <1>2, <2>1, <2>2, <2>3, <2>4
<1>3. ASSUME NEW l \in Loops, UNCHANGED <<tgClosed, closer>>,
             LoopStart(l) \/ LoopEnd(l) \/ LoopFail(l) \/ Collect(l)
      PROVE  TypeOK'
  <2>1. CASE LoopStart(l)
    BY <1>3, <2>1 DEF LoopStart
  <2>2. CASE LoopEnd(l) \/ LoopFail(l)
    BY <1>3, <2>2 DEF LoopEnd, LoopFail
  <2>3. CASE Collect(l)
    BY <1>3, <2>3 DEF Collect
  <2> QED
    BY <1>3, <2>1, <2>2, <2>3
<1>4. ASSUME UNCHANGED <<group, run, loop, connVars>>, CloseListener \/ Stop \/ StopReturn
      PROVE  TypeOK'
  BY <1>4 DEF CloseListener, Stop, StopReturn
<1>5. CASE UNCHANGED vars
  BY <1>5 DEF vars
<1> QED
  BY <1>1, <1>2, <1>3, <1>4, <1>5, Steps

\* Run's type correctness, and that exactly the connections that are served
\* have a goroutine in the thread group.
THEOREM TypeCorrect == Spec => []TypeOK
<1>1. Init => TypeOK
  BY ConnAssumption DEF Init, TypeOK, Members, Loops
<1> QED
  BY <1>1, TypeStep, PTL DEF Spec
-----------------------------------------------------------------------------
(* The map of peers.                                                        *)

\* Only AddPeer and PeerRemove write the map; the others move a connection
\* between places that PeersTracked treats alike, or make it errored.
LEMMA PeerStep == PeerInv /\ TypeOK' /\ [Next]_vars => PeerInv'
<1> SUFFICES ASSUME PeerInv, TypeOK', [Next]_vars
             PROVE  Filed' /\ PeersTracked' /\ NoDoubleConnection'
  BY DEF PeerInv
<1> USE ConnAssumption DEF PeerInv, Filed, PeersTracked, NoDoubleConnection, Live, Goto,
        Registered
<1>1. ASSUME NEW c \in Conns,
             \/ Accept(c) \/ HandlerStart(c) \/ Pick(c) \/ AllowConnect(c) \/ Dial(c)
             \/ Handshake(c) \/ AddPeer(c) \/ RunPeer(c) \/ SetErr(c) \/ PeerReturn(c)
             \/ PeerStopped(c) \/ PeerRemove(c) \/ HandlerReturn(c)
      PROVE  Filed' /\ PeersTracked' /\ NoDoubleConnection'
  <2>1. CASE Accept(c)
    BY <1>1, <2>1 DEF Accept, TypeOK
  <2>2. CASE HandlerStart(c)
    BY <1>1, <2>2 DEF HandlerStart, TypeOK
  <2>3. CASE Pick(c)
    BY <1>1, <2>3 DEF Pick, TypeOK
  <2>4. CASE AllowConnect(c)
    BY <1>1, <2>4 DEF AllowConnect, GiveUp, TypeOK
  <2>5. CASE Dial(c)
    BY <1>1, <2>5 DEF Dial, GiveUp, TypeOK
  <2>6. CASE Handshake(c)
    BY <1>1, <2>6 DEF Handshake, GiveUp, TypeOK
  <2>7. CASE AddPeer(c)
    BY <1>1, <2>7 DEF AddPeer, GiveUp, TypeOK
  <2>8. CASE RunPeer(c)
    BY <1>1, <2>8 DEF RunPeer, TypeOK
  <2>9. CASE SetErr(c)
    BY <1>1, <2>9 DEF SetErr, TypeOK
  <2>10. CASE PeerReturn(c) \/ PeerStopped(c)
    BY <1>1, <2>10 DEF PeerReturn, PeerStopped, LeaveGroup, TypeOK
  <2>11. CASE PeerRemove(c)
    BY <1>1, <2>11 DEF PeerRemove, TypeOK
  <2>12. CASE HandlerReturn(c)
    BY <1>1, <2>12 DEF HandlerReturn, GiveUp, TypeOK
  <2> QED
    BY <1>1, <2>1, <2>2, <2>3, <2>4, <2>5, <2>6, <2>7, <2>8, <2>9, <2>10, <2>11, <2>12
<1>2. ASSUME conn' = conn, peers' = peers, err \subseteq err'
      PROVE  Filed' /\ PeersTracked' /\ NoDoubleConnection'
  BY <1>2
<1>3. CASE RunStart \/ CloseAll \/ Drained \/ RunReturn
  BY <1>2, <1>3 DEF RunStart, CloseAll, Drained, RunReturn, connVars
<1>4. CASE \E l \in Loops : LoopStart(l) \/ LoopEnd(l) \/ LoopFail(l) \/ Collect(l)
  BY <1>2, <1>4 DEF LoopStart, LoopEnd, LoopFail, Collect, connVars
<1>5. CASE UNCHANGED connVars
  BY <1>2, <1>5 DEF connVars
<1>6. CASE UNCHANGED vars
  BY <1>5, <1>6 DEF vars
<1> QED
  BY <1>1, <1>3, <1>4, <1>5, <1>6, Steps

\* Every peer in the map has a goroutine that will remove it, and every
\* healthy peer that is served is in it: Run closes and waits for all of them.
THEOREM PeersAlwaysTracked == Spec => []PeersTracked
<1>1. Init => PeerInv
  BY ConnAssumption DEF Init, PeerInv, TypeOK, Members, Loops, Filed, PeersTracked, NoDoubleConnection,
     Registered
<1>2. PeerInv /\ [Next]_vars => PeerInv'
  BY PeerStep, TypeStep DEF PeerInv
<1>3. PeerInv => PeersTracked
  BY DEF PeerInv
<1> QED
  BY <1>1, <1>2, <1>3, PTL DEF Spec

\* addPeer's check under the lock is enough: however many handshakes with a
\* node succeed at the same time, at most one of its connections is served.
THEOREM NeverConnectedTwice == Spec => []NoDoubleConnection
<1>1. Init => PeerInv
  BY ConnAssumption DEF Init, PeerInv, TypeOK, Members, Loops, Filed, PeersTracked, NoDoubleConnection,
     Registered
<1>2. PeerInv /\ [Next]_vars => PeerInv'
  BY PeerStep, TypeStep DEF PeerInv
<1>3. PeerInv => NoDoubleConnection
  BY DEF PeerInv
<1> QED
  BY <1>1, <1>2, <1>3, PTL DEF Spec

-----------------------------------------------------------------------------
(* Closing.                                                                 *)

\* Members enter the group only while it is open, and leave it only when
\* they no longer work.
LEMMA JoinedStep == Inv /\ TypeOK' /\ [Next]_vars => Inv'
<1> SUFFICES ASSUME Inv, TypeOK', [Next]_vars PROVE Joined'
  BY DEF Inv
<1> USE ConnAssumption DEF Inv, TypeOK, Joined, Goto, Loops
<1>1. ASSUME NEW c \in Conns, UNCHANGED <<listening, tgClosed, run, loop, closer>>,
             \/ Accept(c) \/ HandlerStart(c) \/ Pick(c) \/ AllowConnect(c) \/ Dial(c)
             \/ Handshake(c) \/ AddPeer(c) \/ RunPeer(c) \/ SetErr(c) \/ PeerReturn(c)
             \/ PeerStopped(c) \/ PeerRemove(c) \/ HandlerReturn(c)
      PROVE  Joined'
  <2>1. CASE Accept(c)
    BY <1>1, <2>1 DEF Accept
  <2>2. CASE HandlerStart(c)
    BY <1>1, <2>2 DEF HandlerStart
  <2>3. CASE Pick(c)
    BY <1>1, <2>3 DEF Pick
  <2>4. CASE AllowConnect(c)
    BY <1>1, <2>4 DEF AllowConnect, GiveUp
  <2>5. CASE Dial(c)
    BY <1>1, <2>5 DEF Dial, GiveUp
  <2>6. CASE Handshake(c)
    BY <1>1, <2>6 DEF Handshake, GiveUp
  <2>7. CASE AddPeer(c)
    BY <1>1, <2>7 DEF AddPeer, GiveUp
  <2>8. CASE RunPeer(c)
    BY <1>1, <2>8 DEF RunPeer
  <2>9. CASE SetErr(c)
    BY <1>1, <2>9 DEF SetErr
  <2>10. CASE PeerReturn(c) \/ PeerStopped(c)
    BY <1>1, <2>10 DEF PeerReturn, PeerStopped, LeaveGroup
  <2>11. CASE PeerRemove(c)
    BY <1>1, <2>11 DEF PeerRemove
  <2>12. CASE HandlerReturn(c)
    BY <1>1, <2>12 DEF HandlerReturn, GiveUp
  <2> QED
    BY <1>1, <2>1, <2>2, <2>3, <2>4, <2>5, <2>6, <2>7, <2>8, <2>9, <2>10, <2>11, <2>12
<1>2. ASSUME UNCHANGED <<tgClosed, closer>>, RunStart \/ CloseAll \/ Drained \/ RunReturn
      PROVE  Joined'
  BY <1>2 DEF RunStart, CloseAll, Drained, RunReturn, connVars
<1>3. ASSUME NEW l \in Loops, UNCHANGED <<tgClosed, closer>>,
             LoopStart(l) \/ LoopEnd(l) \/ LoopFail(l) \/ Collect(l)
      PROVE  Joined'
  <2>1. CASE LoopStart(l)
    BY <1>3, <2>1 DEF LoopStart, connVars
  <2>2. CASE LoopEnd(l) \/ LoopFail(l)
    BY <1>3, <2>2 DEF LoopEnd, LoopFail, connVars
  <2>3. CASE Collect(l)
    BY <1>3, <2>3 DEF Collect, connVars
  <2> QED
    BY <1>3, <2>1, <2>2, <2>3
<1>4. ASSUME UNCHANGED <<group, run, loop, connVars>>, CloseListener \/ Stop \/ StopReturn
      PROVE  Joined'
  BY <1>4 DEF CloseListener, Stop, StopReturn, connVars
<1>5. CASE UNCHANGED vars
  BY <1>5 DEF vars, connVars
<1> QED
  BY <1>1, <1>2, <1>3, <1>4, <1>5, Steps

\* When Close returns, no loop runs, no connection is set up or served, and
\* nothing of that starts again.
THEOREM StopAlwaysFinal == Spec => []StopIsFinal
<1>1. Init => Inv
  BY ConnAssumption DEF Init, Inv, Joined, TypeOK, Members, Loops
<1>2. Inv /\ [Next]_vars => Inv'
  BY JoinedStep, TypeStep DEF Inv
<1>3. Inv => StopIsFinal
  BY DEF Inv, Joined, TypeOK, StopIsFinal
<1> QED
  BY <1>1, <1>2, <1>3, PTL DEF Spec
=============================================================================
