---------------------------- MODULE ParallelSync ----------------------------
(***************************************************************************)
(* Downloading the blocks of a header chain from many peers at once.  The  *)
(* main loop divides the headers into requests and hands them to one       *)
(* worker per peer; responses come back in any order and are passed, in    *)
(* order, to a finisher that adds the blocks to the chain.  A request that *)
(* failed is reassigned, and near the end unfinished ones are duplicated.  *)
(*                                                                         *)
(* Channels are sequences with a capacity.  While it starts workers the    *)
(* main loop holds the Syncer's mutex, which banning a peer needs too.     *)
(***************************************************************************)
EXTENDS Naturals, Sequences, FiniteSets, SequencesExt

CONSTANTS
    Peers,
    N,              \* number of requests
    ReqCap,         \* capacity of reqChan, 128 in the code
    RespCap,        \* capacity of respChan, 128 in the code
    MayCancel       \* whether the Syncer may be closed meanwhile

ASSUME CapAssumption ==
    /\ N \in Nat \ {0} /\ ReqCap \in Nat \ {0} /\ RespCap \in Nat \ {0}
    /\ MayCancel \in BOOLEAN

VARIABLES
    main,       \* "select", "spawn", "closing", "done"
    outbox,     \* requests that the main loop is about to send on reqChan
    todo,       \* new peers that the main loop found on this tick
    reqIndex, resps, finished, seen,
    reqChan, reqClosed, respChan, finishCh, finishClosed, errCh,
    worker,     \* per peer: what its worker does, and with which request
    finisher,   \* what the finisher does, and with which requests
    cancelled,
    added,      \* history: the requests whose blocks were added, in order
    result      \* what parallelSync returns

mainVars == <<main, outbox, todo, reqIndex, resps, finished, seen, result>>
vars == <<mainVars, reqChan, reqClosed, respChan, finishCh, finishClosed, errCh,
          worker, finisher, cancelled, added>>

Requests == 1..N
None == 0

Init ==
    /\ main = "select" /\ outbox = <<>> /\ todo = {}
    /\ reqIndex = 0 /\ resps = {} /\ finished = 0 /\ seen = {}
    /\ reqChan = <<>> /\ reqClosed = FALSE /\ respChan = <<>>
    /\ finishCh = <<>> /\ finishClosed = FALSE /\ errCh = <<>>
    /\ worker = [p \in Peers |-> [pc |-> "none", req |-> None]]
    /\ finisher = [pc |-> "recv", batch |-> <<>>, err |-> "nil"]
    /\ cancelled = FALSE /\ added = <<>> /\ result = "none"

-----------------------------------------------------------------------------
(* The main loop.                                                          *)

\* Sending on reqChan blocks while the channel is full.
SendReq ==
    /\ outbox # <<>> /\ Len(reqChan) < ReqCap
    /\ reqChan' = Append(reqChan, Head(outbox))
    /\ outbox' = Tail(outbox)
    /\ UNCHANGED <<main, todo, reqIndex, resps, finished, seen, result, reqClosed, respChan,
                   finishCh, finishClosed, errCh, worker, finisher, cancelled, added>>

\* queueRequest: the next request, and with the last one all unfinished ones.
QueueRequest(done) ==
    IF reqIndex >= N
    THEN UNCHANGED reqIndex /\ outbox' = <<>>
    ELSE /\ reqIndex' = reqIndex + 1
         /\ outbox' = <<reqIndex + 1>> \o
                (IF reqIndex + 1 = N
                 THEN SelectSeq([i \in Requests |-> i], LAMBDA i : i \notin done) ELSE <<>>)

\* A tick finds peers that have no worker yet.
Tick ==
    /\ main = "select" /\ outbox = <<>>
    /\ \E new \in SUBSET (Peers \ seen) : todo' = new
    /\ main' = "spawn"
    /\ UNCHANGED <<outbox, reqIndex, resps, finished, seen, result, reqChan, reqClosed, respChan,
                   finishCh, finishClosed, errCh, worker, finisher, cancelled, added>>

Spawn(p) ==
    /\ main = "spawn" /\ outbox = <<>> /\ p \in todo
    /\ todo' = todo \ {p}
    /\ seen' = seen \cup {p}
    /\ worker' = [worker EXCEPT ![p].pc = "recv"]
    /\ QueueRequest(resps)
    /\ UNCHANGED <<main, resps, finished, result, reqChan, reqClosed, respChan,
                   finishCh, finishClosed, errCh, finisher, cancelled, added>>

Active == {p \in Peers : worker[p].pc \notin {"none", "exited"}}


AllFailed == Active = {} /\ respChan = <<>> /\ finished < N

EndTick ==
    /\ main = "spawn" /\ outbox = <<>> /\ todo = {}
    /\ errCh' = IF AllFailed /\ errCh = <<>> THEN <<"allfailed">> ELSE errCh
    /\ main' = "select"
    /\ UNCHANGED <<outbox, todo, reqIndex, resps, finished, seen, result, reqChan, reqClosed, respChan,
                   finishCh, finishClosed, worker, finisher, cancelled, added>>

\* Mutant: a failed request is forgotten.
FailedDropped ==
    /\ main = "select" /\ outbox = <<>> /\ respChan # <<>> /\ ~Head(respChan).ok
    /\ respChan' = Tail(respChan)
    /\ UNCHANGED <<mainVars, reqChan, reqClosed, finishCh, finishClosed, errCh,
                   worker, finisher, cancelled, added>>

\* A failed request is reassigned to a different worker.
RecvFailed ==
    /\ main = "select" /\ outbox = <<>> /\ respChan # <<>> /\ ~Head(respChan).ok
    /\ respChan' = Tail(respChan)
    /\ outbox' = <<Head(respChan).req>>
    /\ UNCHANGED <<main, todo, reqIndex, resps, finished, seen, result, reqChan, reqClosed,
                   finishCh, finishClosed, errCh, worker, finisher, cancelled, added>>

\* Mutant: every response goes to the finisher as it comes.
FinishUnordered ==
    /\ main = "select" /\ outbox = <<>> /\ respChan # <<>> /\ Head(respChan).ok
    /\ respChan' = Tail(respChan)
    /\ resps' = resps \cup {Head(respChan).req}
    /\ finished' = Cardinality(resps')
    /\ finishCh' = Append(finishCh, <<Head(respChan).req>>)
    /\ finishClosed' = (finishClosed \/ finished' = N)
    /\ QueueRequest(resps')
    /\ UNCHANGED <<main, todo, seen, result, reqChan, reqClosed, errCh,
                   worker, finisher, cancelled, added>>

\* A response completes its request unless another one did; the requests that
\* are now complete without a gap go to the finisher as one batch.
RecvOk ==
    /\ main = "select" /\ outbox = <<>> /\ respChan # <<>> /\ Head(respChan).ok
    /\ respChan' = Tail(respChan)
    /\ resps' = resps \cup {Head(respChan).req}
    /\ finished' = CHOOSE n \in finished..N : 1..n \subseteq resps' /\ (n = N \/ n + 1 \notin resps')
    /\ finishCh' = IF finished' > finished
                   THEN Append(finishCh, [i \in 1..(finished' - finished) |-> finished + i])
                   ELSE finishCh
    /\ finishClosed' = (finishClosed \/ (finished' > finished /\ finished' = N))
    /\ QueueRequest(resps')
    /\ UNCHANGED <<main, todo, seen, result, reqChan, reqClosed, errCh,
                   worker, finisher, cancelled, added>>

Shutdown(r) ==
    /\ main' = "closing"
    /\ result' = r
    /\ reqClosed' = TRUE
    /\ finishClosed' = TRUE
    /\ UNCHANGED <<outbox, todo, reqIndex, resps, finished, seen, reqChan, respChan, finishCh,
                   worker, finisher, added>>

\* case err := <-errCh
RecvErr ==
    /\ main = "select" /\ outbox = <<>> /\ errCh # <<>>
    /\ Shutdown(Head(errCh))
    /\ errCh' = Tail(errCh)
    /\ cancelled' = TRUE

\* case <-ctx.Done()
RecvDone ==
    /\ main = "select" /\ outbox = <<>> /\ cancelled
    /\ Shutdown("cancelled")
    /\ UNCHANGED <<errCh, cancelled>>

\* wg.Wait
Return ==
    /\ main = "closing"
    /\ Active = {} /\ finisher.pc = "exited"
    /\ main' = "done"
    /\ UNCHANGED <<outbox, todo, reqIndex, resps, finished, seen, result, reqChan, reqClosed, respChan,
                   finishCh, finishClosed, errCh, worker, finisher, cancelled, added>>

Main ==
    SendReq \/ Tick \/ (\E p \in Peers : Spawn(p)) \/ EndTick
    \/ RecvFailed \/ RecvOk \/ RecvErr \/ RecvDone \/ Return

-----------------------------------------------------------------------------
(* A worker, one per peer.  A closed reqChan still delivers what it holds. *)

WorkerRecv(p) ==
    /\ worker[p].pc = "recv"
    /\ \/ /\ reqChan # <<>>
          /\ worker' = [worker EXCEPT ![p] = [pc |-> "work", req |-> Head(reqChan)]]
          /\ reqChan' = Tail(reqChan)
       \/ /\ reqChan = <<>> /\ reqClosed
          /\ worker' = [worker EXCEPT ![p].pc = "exiting"]
          /\ UNCHANGED reqChan

\* workFn: the blocks arrive and are valid, they do not, or one is invalid.
WorkerFetch(p) ==
    /\ worker[p].pc = "work"
    /\ \E outcome \in {"ok", "err", "ban"} : worker' = [worker EXCEPT ![p].pc = outcome]
    /\ UNCHANGED reqChan

WorkerBan(p) ==
    /\ worker[p].pc = "ban" /\ main # "spawn"
    /\ worker' = [worker EXCEPT ![p].pc = "err"]
    /\ UNCHANGED reqChan

WorkerSend(p) ==
    /\ worker[p].pc \in {"ok", "err"} /\ Len(respChan) < RespCap
    /\ LET ok == worker[p].pc = "ok"
       IN  /\ respChan' = Append(respChan, [req |-> worker[p].req, ok |-> ok])
           /\ worker' = [worker EXCEPT ![p] = [pc |-> IF ok THEN "recv" ELSE "exiting", req |-> None]]
    /\ UNCHANGED reqChan

\* activeWorkers is decremented only after the response was sent.
WorkerExit(p) ==
    /\ worker[p].pc = "exiting"
    /\ worker' = [worker EXCEPT ![p].pc = "exited"]
    /\ UNCHANGED reqChan

Worker(p) ==
    /\ \/ WorkerRecv(p) /\ UNCHANGED respChan
       \/ WorkerFetch(p) /\ UNCHANGED respChan
       \/ WorkerBan(p) /\ UNCHANGED respChan
       \/ WorkerExit(p) /\ UNCHANGED respChan
       \/ WorkerSend(p)
    /\ UNCHANGED <<mainVars, reqClosed, finishCh, finishClosed, errCh, finisher, cancelled, added>>

-----------------------------------------------------------------------------
(* The finisher.                                                           *)

FinisherRecv ==
    /\ finisher.pc = "recv" /\ finisher.batch = <<>>
    /\ \/ /\ finishCh # <<>>
          /\ finisher' = [finisher EXCEPT !.batch = Head(finishCh)]
          /\ finishCh' = Tail(finishCh)
       \/ /\ finishCh = <<>> /\ finishClosed
          /\ finisher' = [finisher EXCEPT !.pc = "report"]
          /\ UNCHANGED finishCh
    /\ UNCHANGED <<errCh, added>>

AddBlocks ==
    /\ finisher.pc = "recv" /\ finisher.batch # <<>>
    /\ \/ /\ added' = Append(added, Head(finisher.batch))
          /\ finisher' = [finisher EXCEPT !.batch = Tail(@)]
       \/ /\ finisher' = [finisher EXCEPT !.pc = "ban"]
          /\ UNCHANGED added
    /\ UNCHANGED <<finishCh, errCh>>

FinisherBan ==
    /\ finisher.pc = "ban" /\ main # "spawn"
    /\ finisher' = [finisher EXCEPT !.pc = "report", !.err = "invalid"]
    /\ UNCHANGED <<finishCh, errCh, added>>

\* Sending on errCh blocks while an error is waiting there.
Report ==
    /\ finisher.pc = "report" /\ errCh = <<>>
    /\ errCh' = <<finisher.err>>
    /\ finisher' = [finisher EXCEPT !.pc = "exited"]
    /\ UNCHANGED <<finishCh, added>>

Finisher ==
    /\ FinisherRecv \/ AddBlocks \/ FinisherBan \/ Report
    /\ UNCHANGED <<mainVars, reqChan, reqClosed, respChan, finishClosed, worker, cancelled>>

-----------------------------------------------------------------------------
\* The Syncer is closed.
Cancel ==
    /\ MayCancel /\ ~cancelled
    /\ cancelled' = TRUE
    /\ UNCHANGED <<mainVars, reqChan, reqClosed, respChan, finishCh, finishClosed, errCh,
                   worker, finisher, added>>

Terminated == main = "done" /\ UNCHANGED vars

Next == Main \/ (\E p \in Peers : Worker(p)) \/ Finisher \/ Cancel \/ Terminated

\* Goroutines run, requests time out, and select takes every case that stays
\* ready, as the random choice among the ready cases does.
Fairness ==
    /\ WF_vars(SendReq) /\ WF_vars(\E p \in Peers : Spawn(p)) /\ WF_vars(EndTick) /\ WF_vars(Return)
    /\ SF_vars(Tick) /\ SF_vars(RecvFailed) /\ SF_vars(RecvOk) /\ SF_vars(RecvErr) /\ SF_vars(RecvDone)
    /\ \A p \in Peers : SF_vars(Worker(p))
    /\ SF_vars(Finisher)

Spec == Init /\ [][Next]_vars /\ Fairness

-----------------------------------------------------------------------------
(* Properties.                                                             *)

\* Whatever the order, the duplicates and the failures of the responses, the
\* chain manager is given the blocks of every request once and in order.
InOrder == added = [i \in 1..Len(added) |-> i]

Pending(i) ==
    \/ i \in ToSet(outbox) \cup ToSet(reqChan)
    \/ \E p \in Peers : worker[p].pc \in {"work", "ok", "err", "ban"} /\ worker[p].req = i
    \/ \E k \in DOMAIN respChan : respChan[k].req = i

\* Until the download is over, no request that was handed out is lost: it is
\* answered, or waiting, or with a worker, or on its way back.
NothingLost ==
    main \in {"select", "spawn"} => \A i \in 1..reqIndex : i \in resps \/ Pending(i)


\* Closing the Syncer ends the download ("all connections are closed and
\* goroutines are terminated").
CancelledReturns == cancelled ~> main = "done"
=============================================================================
