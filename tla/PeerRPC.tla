------------------------------ MODULE PeerRPC -------------------------------
(***************************************************************************)
(* Limits on the calls that connected peers make.  runPeer accepts calls   *)
(* one after the other and starts a handler for each.  A handler occupies  *)
(* a slot of its connection, one of the peer's subnet and, if it may carry *)
(* a large payload, one of a global budget.  Handlers outlive connections. *)
(***************************************************************************)
EXTENDS Integers, FiniteSets, FiniteSetsExt

CONSTANTS
    Conns, Subnets,
    Subnet,                 \* the subnet of a connection, or NoSubnet
    NoSubnet,
    MaxInflightRPCs, MaxInflightRPCsPerSubnet,
    maxRelayPayloads, maxPeerRelayPayloads

ASSUME LimitAssumption ==
    /\ NoSubnet \notin Subnets /\ Subnet \in [Conns -> Subnets \cup {NoSubnet}]
    /\ {MaxInflightRPCs, maxRelayPayloads, maxPeerRelayPayloads} \subseteq Nat \ {0}
    /\ MaxInflightRPCsPerSubnet \in Int

VARIABLES
    runner,         \* per connection: where runPeer is, and the kind of its call
    handlers,       \* per connection, kind and stage: how many handlers
    inflight,       \* per connection: slots taken
    inflightSubnet, \* per subnet: slots taken
    active, budget, \* large payloads, in all and per connection
    stopped         \* whether the thread group is stopped

vars == <<runner, handlers, inflight, inflightSubnet, active, budget, stopped>>

Kinds == {"small", "large"}
\* A handler works, then it releases its slots one after the other.
Stages == {"work", "subnet", "inflight"}

Init ==
    /\ runner = [c \in Conns |-> [pc |-> "accept", kind |-> "small"]]
    /\ handlers = [h \in Conns \X Kinds \X Stages |-> 0]
    /\ inflight = [c \in Conns |-> 0]
    /\ inflightSubnet = [k \in Subnets |-> 0]
    /\ active = 0 /\ budget = [c \in Conns |-> 0]
    /\ stopped = FALSE

Goto(c, pc) == runner' = [runner EXCEPT ![c].pc = pc]

-----------------------------------------------------------------------------
(* The slots.                                                              *)

Limited(c) == Subnet[c] # NoSubnet /\ MaxInflightRPCsPerSubnet > 0

SubnetFull(c) == Limited(c) /\ inflightSubnet[Subnet[c]] >= MaxInflightRPCsPerSubnet

CountSubnet(c, d) ==
    inflightSubnet' = IF Limited(c) THEN [inflightSubnet EXCEPT ![Subnet[c]] = @ + d] ELSE inflightSubnet


BudgetFull(c) == active >= maxRelayPayloads \/ budget[c] >= maxPeerRelayPayloads

CountBudget(c, d) ==
    /\ active' = active + d
    /\ budget' = [budget EXCEPT ![c] = @ + d]

-----------------------------------------------------------------------------
(* runPeer.                                                                *)

AcceptRPC(c) ==
    /\ runner[c].pc = "accept"
    /\ \E k \in Kinds : runner' = [runner EXCEPT ![c] = [pc |-> "inflight", kind |-> k]]
    /\ UNCHANGED <<handlers, inflight, inflightSubnet, active, budget>>

\* The connection failed; its handlers go on.
Disconnect(c) ==
    /\ runner[c].pc = "accept"
    /\ Goto(c, "ended")
    /\ UNCHANGED <<handlers, inflight, inflightSubnet, active, budget>>

\* The next call waits for a slot, unless the Syncer is stopped.
TakeInflight(c) ==
    /\ runner[c].pc = "inflight"
    /\ \/ /\ inflight[c] < MaxInflightRPCs
          /\ inflight' = [inflight EXCEPT ![c] = @ + 1]
          /\ Goto(c, "subnet")
       \/ stopped /\ Goto(c, "ended") /\ UNCHANGED inflight
    /\ UNCHANGED <<handlers, inflightSubnet, active, budget>>

\* Mutant: a refused call keeps the connection's slot.
AcquireInflightLeaks(c) ==
    /\ runner[c].pc = "subnet"
    /\ IF SubnetFull(c)
       THEN Goto(c, "accept") /\ UNCHANGED inflightSubnet
       ELSE CountSubnet(c, 1) /\ Goto(c, "budget")
    /\ UNCHANGED <<inflight, handlers, active, budget>>

\* acquireInflight; a refused call gives the connection's slot back.
AcquireInflight(c) ==
    /\ runner[c].pc = "subnet"
    /\ IF SubnetFull(c)
       THEN /\ inflight' = [inflight EXCEPT ![c] = @ - 1]
            /\ Goto(c, "accept")
            /\ UNCHANGED inflightSubnet
       ELSE /\ CountSubnet(c, 1)
            /\ Goto(c, "budget")
            /\ UNCHANGED inflight
    /\ UNCHANGED <<handlers, active, budget>>

StartHandler(c) == handlers' = [handlers EXCEPT ![c, runner[c].kind, "work"] = @ + 1]

\* Mutant: a refused large payload keeps its subnet's slot.
AcquireBudgetLeaks(c) ==
    /\ runner[c].pc = "budget"
    /\ IF runner[c].kind = "large" /\ BudgetFull(c)
       THEN /\ inflight' = [inflight EXCEPT ![c] = @ - 1]
            /\ UNCHANGED <<handlers, inflightSubnet, active, budget>>
       ELSE /\ CountBudget(c, IF runner[c].kind = "large" THEN 1 ELSE 0)
            /\ StartHandler(c)
            /\ UNCHANGED <<inflight, inflightSubnet>>
    /\ Goto(c, "accept")

\* A large payload needs room in the budget; then the handler is started.
AcquireBudget(c) ==
    /\ runner[c].pc = "budget"
    /\ IF runner[c].kind = "large" /\ BudgetFull(c)
       THEN /\ CountSubnet(c, -1)
            /\ inflight' = [inflight EXCEPT ![c] = @ - 1]
            /\ UNCHANGED <<handlers, active, budget>>
       ELSE /\ CountBudget(c, IF runner[c].kind = "large" THEN 1 ELSE 0)
            /\ StartHandler(c)
            /\ UNCHANGED <<inflight, inflightSubnet>>
    /\ Goto(c, "accept")

RunPeer(c) ==
    /\ AcceptRPC(c) \/ Disconnect(c) \/ TakeInflight(c) \/ AcquireInflight(c) \/ AcquireBudget(c)
    /\ UNCHANGED stopped

-----------------------------------------------------------------------------
(* A handler.  It ends, whether it failed, timed out or came too late for  *)
(* the thread group, by releasing its slots in turn.                       *)

Move(c, k, from, to) ==
    /\ handlers[c, k, from] > 0
    /\ handlers' = [handlers EXCEPT ![c, k, from] = @ - 1, ![c, k, to] = @ + 1]

ReleaseBudget(c, k) ==
    /\ Move(c, k, "work", "subnet")
    /\ CountBudget(c, IF k = "large" THEN -1 ELSE 0)
    /\ UNCHANGED <<inflight, inflightSubnet>>

ReleaseInflight(c, k) ==
    /\ Move(c, k, "subnet", "inflight")
    /\ CountSubnet(c, -1)
    /\ UNCHANGED <<inflight, active, budget>>

HandlerEnd(c, k) ==
    /\ handlers[c, k, "inflight"] > 0
    /\ handlers' = [handlers EXCEPT ![c, k, "inflight"] = @ - 1]
    /\ inflight' = [inflight EXCEPT ![c] = @ - 1]
    /\ UNCHANGED <<inflightSubnet, active, budget>>

Handler(c, k) ==
    /\ ReleaseBudget(c, k) \/ ReleaseInflight(c, k) \/ HandlerEnd(c, k)
    /\ UNCHANGED <<runner, stopped>>

Stop ==
    /\ ~stopped /\ stopped' = TRUE
    /\ UNCHANGED <<runner, handlers, inflight, inflightSubnet, active, budget>>

Next == (\E c \in Conns : RunPeer(c) \/ \E k \in Kinds : Handler(c, k)) \/ Stop

\* Goroutines run, and every handler has a deadline.
Fairness ==
    \A c \in Conns :
        /\ WF_vars(RunPeer(c) /\ runner[c].pc # "accept")
        /\ \A k \in Kinds : WF_vars(Handler(c, k))

Spec == Init /\ [][Next]_vars /\ Fairness

-----------------------------------------------------------------------------
(* Properties.                                                             *)

\* The handlers of a connection that are in one of these stages.
Count(c, ks, stages) == MapThenSumSet(LAMBDA h : handlers[c, h[1], h[2]], ks \X stages)
Holds(c, pcs) == IF runner[c].pc \in pcs THEN 1 ELSE 0

\* Every counter is the number of those that hold a slot: none is lost or
\* returned twice on any way a call can end.
CountersMatch ==
    /\ \A c \in Conns :
        /\ inflight[c] = Count(c, Kinds, Stages) + Holds(c, {"subnet", "budget"})
        /\ budget[c] = Count(c, {"large"}, {"work"})
    /\ active = MapThenSumSet(LAMBDA c : budget[c], Conns)
    /\ MaxInflightRPCsPerSubnet > 0 =>
        \A s \in Subnets : inflightSubnet[s] =
            MapThenSumSet(LAMBDA c : Count(c, Kinds, {"work", "subnet"}) + Holds(c, {"budget"}),
                          {c \in Conns : Subnet[c] = s})


\* Backpressure ends: a call that waits for a slot gets one, or is refused.
CallsProceed ==
    \A c \in Conns : runner[c].pc = "inflight" ~> runner[c].pc \in {"accept", "ended"}
=============================================================================
