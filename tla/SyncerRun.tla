----------------------------- MODULE SyncerRun ------------------------------
(***************************************************************************)
(* The life of a Syncer: Run and its four loops, the goroutines that set   *)
(* up and serve connections, the map of connected peers, and Close.  Every *)
(* goroutine joins a thread group before it works.  Stopping the group     *)
(* refuses new members and waits for the old ones to leave.                *)
(***************************************************************************)
EXTENDS Naturals, FiniteSets

CONSTANTS
    Conns,          \* connections that may be made, each at most once
    Inbound,        \* those that are accepted; the others are dialed
    Addrs, Uids,    \* dialback addresses and unique ids of the nodes
    Addr, Uid,      \* those of the node at the other end of a connection
    MaxInboundPeers,
    MayFail,        \* whether a loop may fail although the Syncer is open
    MayClose,       \* whether Close is called
    PeersLeave,     \* whether the other end of every connection goes away
    None

Loops == {"accept", "peer", "sync", "txpool"}

ASSUME ConnAssumption ==
    /\ Inbound \subseteq Conns /\ None \notin Conns
    /\ Addr \in [Conns -> Addrs] /\ Uid \in [Conns -> Uids]
    /\ MaxInboundPeers \in Nat
    /\ {MayFail, MayClose, PeersLeave} \subseteq BOOLEAN

VARIABLES
    listening,  \* whether the listener is open
    tgClosed,   \* whether the thread group is stopped
    group,      \* its members
    run,        \* progress of Run
    loop,       \* progress of its loops
    closer,     \* progress of Close
    conn,       \* progress of the goroutines of a connection
    open,       \* connections that are open at our end
    err,        \* connections whose Peer has an error
    peers       \* s.peers, by dialback address

connVars == <<conn, open, err, peers>>
vars == <<listening, tgClosed, group, run, loop, closer, connVars>>

Init ==
    /\ listening = TRUE /\ tgClosed = FALSE /\ group = {}
    /\ run = "idle" /\ loop = [l \in Loops |-> "idle"] /\ closer = "idle"
    /\ conn = [c \in Conns |-> "none"] /\ open = {} /\ err = {}
    /\ peers = [a \in Addrs |-> None]

Members == (({"run"} \cup Loops) \X {None}) \cup ({"conn", "peer"} \X Conns)
Goto(c, pc) == conn' = [conn EXCEPT ![c] = pc]
Registered == {peers[a] : a \in Addrs} \ {None}

-----------------------------------------------------------------------------
(* Setting up a connection.                                                *)

\* acceptLoop; the goroutine of the connection has not run yet.
Accept(c) ==
    /\ c \in Inbound /\ conn[c] = "none"
    /\ loop["accept"] = "run" /\ listening
    /\ Goto(c, "accepted") /\ open' = open \cup {c}
    /\ UNCHANGED <<group, err, peers>>

\* The goroutine returns before it defers closing the connection.
HandlerStart(c) ==
    /\ conn[c] = "accepted"
    /\ IF tgClosed
       THEN Goto(c, "ended") /\ UNCHANGED group
       ELSE Goto(c, "check") /\ group' = group \cup {<<"conn", c>>}
    /\ UNCHANGED <<open, err, peers>>

\* peerLoop picks an address to connect to.
Pick(c) ==
    /\ c \notin Inbound /\ conn[c] = "none"
    /\ loop["peer"] = "run"
    /\ Goto(c, "check")
    /\ UNCHANGED <<group, open, err, peers>>

\* The attempt is over: the connection is closed and its goroutine leaves.
GiveUp(c) ==
    /\ Goto(c, "ended")
    /\ open' = open \ {c}
    /\ group' = group \ {<<"conn", c>>}
    /\ UNCHANGED <<err, peers>>

\* allowConnect: the peer may be banned, and the inbound slots may be taken.
AllowConnect(c) ==
    /\ conn[c] = "check"
    /\ \/ GiveUp(c)
       \/ /\ ~tgClosed
          /\ c \in Inbound => Cardinality(Registered \cap Inbound) < MaxInboundPeers
          /\ Goto(c, IF c \in Inbound THEN "handshake" ELSE "dial")
          /\ UNCHANGED <<group, open, err, peers>>

\* Connect joins the group and dials.
Dial(c) ==
    /\ conn[c] = "dial"
    /\ \/ GiveUp(c)
       \/ /\ ~tgClosed
          /\ group' = group \cup {<<"conn", c>>}
          /\ open' = open \cup {c}
          /\ Goto(c, "handshake")
          /\ UNCHANGED <<err, peers>>

\* The gateway handshake succeeds and the peer is not yet connected, or not.
Handshake(c) ==
    /\ conn[c] = "handshake"
    /\ \/ GiveUp(c)
       \/ /\ \A p \in Registered : Uid[p] # Uid[c]
          /\ Goto(c, "ready")
          /\ UNCHANGED <<group, open, err, peers>>

Live(p) == p \notin err

\* Mutant: that the handshake found no such peer is taken as sufficient.
AddPeerUnchecked(c) ==
    /\ conn[c] = "ready"
    /\ \/ GiveUp(c)
       \/ /\ peers' = [peers EXCEPT ![Addr[c]] = c]
          /\ Goto(c, "added")
          /\ group' = IF c \in Inbound THEN group ELSE group \ {<<"conn", c>>}
          /\ UNCHANGED <<open, err>>

\* addPeer: an errored peer with this address is replaced.  The peer store may
\* fail.  For a dialed connection Connect now returns.
AddPeer(c) ==
    /\ conn[c] = "ready"
    /\ \/ GiveUp(c)
       \/ /\ \A p \in Registered : Live(p) => Uid[p] # Uid[c] /\ Addr[p] # Addr[c]
          /\ peers' = [peers EXCEPT ![Addr[c]] = c]
          /\ Goto(c, "added")
          /\ group' = IF c \in Inbound THEN group ELSE group \ {<<"conn", c>>}
          /\ UNCHANGED <<open, err>>

-----------------------------------------------------------------------------
(* Serving a connection.                                                   *)


\* Mutant: the goroutine of a dialed connection does not join the group.
RunPeerDetached(c) ==
    /\ conn[c] = "added"
    /\ Goto(c, "running")
    /\ UNCHANGED <<group, open, err, peers>>

\* runPeer
RunPeer(c) ==
    /\ conn[c] = "added"
    /\ IF tgClosed
       THEN Goto(c, "leaving") /\ UNCHANGED group
       ELSE Goto(c, "running") /\ group' = group \cup {<<"peer", c>>}
    /\ UNCHANGED <<open, err, peers>>

\* setErr: the other end went away, was banned, or a call to it failed.
SetErr(c) ==
    /\ conn[c] \in {"added", "running"} /\ c \notin err
    /\ err' = err \cup {c} /\ open' = open \ {c}
    /\ UNCHANGED <<conn, group, peers>>

LeaveGroup(c) ==
    /\ Goto(c, "leaving")
    /\ group' = group \ {<<"peer", c>>}
    /\ UNCHANGED <<open, err, peers>>

PeerReturn(c) == conn[c] = "running" /\ c \in err /\ LeaveGroup(c)

\* A call that arrives when the group is stopped may end the goroutine.
PeerStopped(c) == conn[c] = "running" /\ tgClosed /\ LeaveGroup(c)

\* Mutant: whoever has the address is removed.
PeerRemoveAny(c) ==
    /\ conn[c] = "leaving"
    /\ peers' = [peers EXCEPT ![Addr[c]] = None]
    /\ Goto(c, "removed")
    /\ UNCHANGED <<group, open, err>>

\* The deferred removal in runPeer.
PeerRemove(c) ==
    /\ conn[c] = "leaving"
    /\ peers' = [peers EXCEPT ![Addr[c]] = IF @ = c THEN None ELSE @]
    /\ Goto(c, "removed")
    /\ UNCHANGED <<group, open, err>>

\* The handler of an accepted connection closes it and leaves the group.
HandlerReturn(c) == conn[c] = "removed" /\ c \in Inbound /\ GiveUp(c)

Serve(c) ==
    AllowConnect(c) \/ Dial(c) \/ Handshake(c) \/ AddPeer(c) \/ RunPeer(c)
    \/ PeerReturn(c) \/ PeerRemove(c) \/ HandlerReturn(c) \/ HandlerStart(c)

Connection(c) ==
    /\ Accept(c) \/ Pick(c) \/ Serve(c) \/ SetErr(c) \/ PeerStopped(c)
    /\ UNCHANGED <<listening, tgClosed, run, loop, closer>>

-----------------------------------------------------------------------------
(* Run and its loops.                                                      *)

RunStart ==
    /\ run = "idle"
    /\ IF tgClosed
       THEN run' = "done" /\ UNCHANGED group
       ELSE run' = "wait" /\ group' = group \cup {<<"run", None>>}
    /\ UNCHANGED <<listening, loop, connVars>>

LoopStart(l) ==
    /\ run # "idle" /\ <<"run", None>> \in group /\ loop[l] = "idle"
    /\ IF tgClosed
       THEN loop' = [loop EXCEPT ![l] = "ended"] /\ UNCHANGED group
       ELSE loop' = [loop EXCEPT ![l] = "run"] /\ group' = group \cup {<<l, None>>}
    /\ UNCHANGED <<listening, run, connVars>>

\* peerLoop is inside Connect.
Connecting == \E c \in Conns \ Inbound : conn[c] \in {"check", "dial", "handshake", "ready"}

\* A loop ends when its context is cancelled, which only stopping the group
\* does.  acceptLoop also ends when the listener is closed.
LoopEnd(l) ==
    /\ loop[l] = "run"
    /\ tgClosed \/ (l = "accept" /\ ~listening)
    /\ l = "peer" => ~Connecting
    /\ loop' = [loop EXCEPT ![l] = "ended"]
    /\ UNCHANGED <<listening, group, run, connVars>>

\* Accept fails, or the chain's history or the peer store cannot be read.
LoopFail(l) ==
    /\ MayFail /\ loop[l] = "run" /\ l # "txpool"
    /\ l = "peer" => ~Connecting
    /\ loop' = [loop EXCEPT ![l] = "ended"]
    /\ UNCHANGED <<listening, group, run, connVars>>

\* Run receives from errChan what a loop returned.
Collect(l) ==
    /\ loop[l] = "ended" /\ run \in {"wait", "drain"}
    /\ loop' = [loop EXCEPT ![l] = "done"]
    /\ group' = group \ {<<l, None>>}
    /\ run' = IF run = "wait" THEN "close" ELSE run
    /\ UNCHANGED <<listening, connVars>>

\* Run closes the listener and all peers it knows.
CloseAll ==
    /\ run = "close"
    /\ listening' = FALSE
    /\ err' = err \cup Registered /\ open' = open \ Registered
    /\ run' = "drain"
    /\ UNCHANGED <<group, loop, conn, peers>>

Drained ==
    /\ run = "drain" /\ \A l \in Loops : loop[l] = "done"
    /\ run' = "peers"
    /\ UNCHANGED <<listening, group, loop, connVars>>

\* Run returns when the map of peers is empty.
RunReturn ==
    /\ run = "peers" /\ Registered = {}
    /\ run' = "done" /\ group' = group \ {<<"run", None>>}
    /\ UNCHANGED <<listening, loop, connVars>>

Run ==
    /\ \/ RunStart \/ CloseAll \/ Drained \/ RunReturn
       \/ \E l \in Loops : LoopStart(l) \/ LoopEnd(l) \/ Collect(l)
    /\ UNCHANGED <<tgClosed, closer>>

Failure == (\E l \in Loops : LoopFail(l)) /\ UNCHANGED <<tgClosed, closer>>

-----------------------------------------------------------------------------
(* Close.                                                                  *)

CloseListener ==
    /\ MayClose /\ closer = "idle"
    /\ closer' = "stop" /\ listening' = FALSE
    /\ UNCHANGED tgClosed

Stop ==
    /\ closer = "stop"
    /\ closer' = "waiting" /\ tgClosed' = TRUE
    /\ UNCHANGED listening

StopReturn ==
    /\ closer = "waiting" /\ group = {}
    /\ closer' = "done"
    /\ UNCHANGED <<listening, tgClosed>>

Close ==
    /\ CloseListener \/ Stop \/ StopReturn
    /\ UNCHANGED <<group, run, loop, connVars>>

-----------------------------------------------------------------------------
Next == (\E c \in Conns : Connection(c)) \/ Run \/ Failure \/ Close

\* Goroutines run, and dialing and the handshake have deadlines.  What the
\* other end does is left open, unless PeersLeave.
Fairness ==
    /\ WF_vars(Run) /\ \A l \in Loops : WF_vars(Run /\ loop'[l] # loop[l])
    /\ WF_vars(Close /\ closer # "idle")
    /\ \A c \in Conns : WF_vars(Connection(c) /\ Serve(c))
    /\ PeersLeave => \A c \in Conns : WF_vars(Connection(c) /\ SetErr(c))

Spec == Init /\ [][Next]_vars /\ Fairness

-----------------------------------------------------------------------------
(* Properties.                                                             *)

\* Besides the types: the members of the group are the goroutines that work.
TypeOK ==
    /\ {listening, tgClosed} \subseteq BOOLEAN
    /\ group \subseteq Members
    /\ run \in {"idle", "wait", "close", "drain", "peers", "done"}
    /\ loop \in [Loops -> {"idle", "run", "ended", "done"}]
    /\ closer \in {"idle", "stop", "waiting", "done"}
    /\ conn \in [Conns -> {"none", "accepted", "check", "dial", "handshake", "ready", "added",
                           "running", "leaving", "removed", "ended"}]
    /\ open \subseteq Conns /\ err \subseteq Conns
    /\ peers \in [Addrs -> Conns \cup {None}]
    /\ \A c \in Conns : <<"peer", c>> \in group <=> conn[c] = "running"
    /\ \A l \in Loops : loop[l] = "run" => <<l, None>> \in group

\* The map of peers is what Run closes and waits for.  A peer in it has a
\* goroutine that will remove it, and a healthy peer that is served is in it,
\* also when it replaced an errored one whose goroutine ends only later.
PeersTracked ==
    /\ \A c \in Registered : conn[c] \in {"added", "running", "leaving"}
    /\ \A c \in Conns : conn[c] \in {"added", "running"} /\ Live(c) => peers[Addr[c]] = c

\* However accepted and dialed connections race, no node is connected twice.
NoDoubleConnection ==
    \A c, d \in Conns :
        /\ c # d /\ {conn[c], conn[d]} \subseteq {"added", "running"} /\ Live(c) /\ Live(d)
        => Uid[c] # Uid[d] /\ Addr[c] # Addr[d]

\* Once Close has returned nothing works on a connection any more: whoever
\* still comes is turned away by the group.
StopIsFinal ==
    closer = "done" =>
        /\ \A c \in Conns : conn[c] \notin {"handshake", "ready", "running"}
        /\ \A l \in Loops : loop[l] # "run"
        /\ run \in {"idle", "done"}


=============================================================================
