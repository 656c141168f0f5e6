----------------------------- MODULE RelayPlan ------------------------------
(***************************************************************************)
(* Packing the transaction pool into sets for a peer that has none of it.  *)
(* A set fits into one request and is accepted on its own: whatever a      *)
(* transaction spends that is not confirmed is created earlier in its set. *)
(* The pool is ordered: parents precede their children.                    *)
(***************************************************************************)
EXTENDS Naturals, Sequences, FiniteSets, SequencesExt, FiniteSetsExt

CONSTANTS
    MaxTxns,    \* bound on the size of the pool
    MaxSize,    \* bound on the size of a transaction
    Limit       \* bytes that a request has for transactions

ASSUME LimitAssumption == {MaxTxns, MaxSize, Limit} \subseteq Nat

VARIABLES
    sizes, parents,                     \* the pool
    i, packet, inPacket, packetBytes,   \* the packing
    sets, done

pool == <<sizes, parents>>
planVars == <<pool, i, packet, inPacket, packetBytes, sets, done>>

Txns == DOMAIN sizes

\* Any pool: a transaction spends outputs of any earlier ones.
PlanInit ==
    /\ \E n \in 0..MaxTxns :
         /\ sizes \in [1..n -> 1..MaxSize]
         /\ parents \in {f \in [1..n -> SUBSET (1..n)] : \A t \in 1..n : f[t] \subseteq 1..(t - 1)}
    /\ i = 1 /\ packet = <<>> /\ inPacket = {} /\ packetBytes = 0
    /\ sets = <<>> /\ done = FALSE

SizeOf(S) == MapThenSumSet(LAMBDA t : sizes[t], S)

\* What transaction t adds to the packet: itself and the unconfirmed ancestors
\* that are not in it.
Needed(t) ==
    LET need[j \in 1..t] == IF j \in inPacket THEN {} ELSE {j} \cup UNION {need[k] : k \in parents[j]}
    IN  need[t]

\* Mutant: the new packet seems to hold what the old one did.
FlushKeeps ==
    /\ sets' = IF packet = <<>> THEN sets ELSE Append(sets, packet)
    /\ packet' = <<>> /\ packetBytes' = 0
    /\ UNCHANGED inPacket

Flush ==
    /\ sets' = IF packet = <<>> THEN sets ELSE Append(sets, packet)
    /\ packet' = <<>> /\ inPacket' = {} /\ packetBytes' = 0

Fits(t) == packetBytes + SizeOf(Needed(t)) <= Limit

\* Mutant: what is needed is not determined anew for the next packet.
FlushAndTake ==
    /\ i \in Txns /\ ~Fits(i) /\ packet # <<>>
    /\ sets' = Append(sets, packet)
    /\ packet' = SetToSortSeq(Needed(i), <)
    /\ inPacket' = Needed(i) /\ packetBytes' = SizeOf(Needed(i))
    /\ i' = i + 1
    /\ UNCHANGED <<pool, done>>

\* The packet is full; the next one also needs the ancestors flushed now.
FlushFull ==
    /\ i \in Txns /\ ~Fits(i) /\ packet # <<>>
    /\ Flush
    /\ UNCHANGED <<pool, i, done>>

\* Mutant: a transaction that cannot be offered ends the plan.
SkipRest ==
    /\ i \in Txns /\ ~Fits(i) /\ packet = <<>>
    /\ i' = Len(sizes) + 1
    /\ UNCHANGED <<pool, packet, inPacket, packetBytes, sets, done>>

\* A chain of ancestors larger than a request cannot be offered.
Skip ==
    /\ i \in Txns /\ ~Fits(i) /\ packet = <<>>
    /\ i' = i + 1
    /\ UNCHANGED <<pool, packet, inPacket, packetBytes, sets, done>>

\* Mutant: the transaction goes before its ancestors.
TakeUnsorted ==
    /\ i \in Txns /\ Fits(i)
    /\ packet' = packet \o SetToSortSeq(Needed(i), >)
    /\ inPacket' = inPacket \cup Needed(i)
    /\ packetBytes' = packetBytes + SizeOf(Needed(i))
    /\ i' = i + 1
    /\ UNCHANGED <<pool, sets, done>>

Take ==
    /\ i \in Txns /\ Fits(i)
    /\ packet' = packet \o SetToSortSeq(Needed(i), <)
    /\ inPacket' = inPacket \cup Needed(i)
    /\ packetBytes' = packetBytes + SizeOf(Needed(i))
    /\ i' = i + 1
    /\ UNCHANGED <<pool, sets, done>>

Finish ==
    /\ i \notin Txns /\ ~done
    /\ Flush
    /\ done' = TRUE
    /\ UNCHANGED <<pool, i>>

Terminated == done /\ UNCHANGED planVars

PlanNext == FlushFull \/ Skip \/ Take \/ Finish \/ Terminated

PlanSpec == PlanInit /\ [][PlanNext]_planVars

-----------------------------------------------------------------------------
(* Properties.                                                             *)

\* Every set can be accepted on its own and in its order: it fits into one
\* request, the parents of each of its transactions come before it, and none
\* comes twice.
Standalone ==
    \A k \in DOMAIN sets :
        /\ SizeOf(ToSet(sets[k])) <= Limit
        /\ IsInjective(sets[k])
        /\ \A n \in DOMAIN sets[k] : parents[sets[k][n]] \subseteq ToSet(SubSeq(sets[k], 1, n - 1))

Ancestors(t) ==
    LET anc[j \in 1..t] == {j} \cup UNION {anc[k] : k \in parents[j]}
    IN  anc[t]

\* Exactly the transactions that fit into a request with all their ancestors
\* are offered, wherever packets end and whatever cannot be offered.
OffersAll ==
    done => UNION {ToSet(sets[k]) : k \in DOMAIN sets} = {t \in Txns : SizeOf(Ancestors(t)) <= Limit}
=============================================================================
