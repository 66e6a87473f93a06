------------------------- MODULE ConfiguredHistory -------------------------
(***************************************************************************)
(* The fixed three-voter safety model of the configured-leader mode         *)
(* (v50/replicated_history_model.py) under the logical network that feeds   *)
(* it (v50/model_network.py): a delivery of an entry or a proof is a force, *)
(* its acknowledgement may come late or never, and deliveries come in any   *)
(* order.  An entry is the path of cells from genesis, so equal entries     *)
(* have equal digests and a predecessor digest is the rest of the path.     *)
(***************************************************************************)
EXTENDS Naturals, FiniteSets, Sequences

CONSTANTS
    HMaxEpoch,     \* bound: the largest epoch (2^63 - 1 in the code)
    HMaxIndex,     \* bound: the largest index
    Incarnations,  \* incarnations of the configured leader
    Operations     \* "ADD" is an application operation, "NO_OP" a control one

ASSUME HistoryAssumption == HMaxEpoch \in Nat /\ HMaxIndex \in Nat

VARIABLES
    disk,       \* Voter: promised epoch and incarnation, log, proofs, applied, sequence, snapshot
    active,     \* the active epoch and incarnation
    commit,     \* commit_index
    prepared,   \* the proofs ever prepared: any of them may still be forced
    committed   \* the entries in the order they were first committed (observer)

historyVars == <<disk, active, commit, prepared, committed>>

HVoters == {"node-1", "node-2", "node-3"}
Leader == "node-1"
Put(f, k, v) == [x \in DOMAIN f \cup {k} |-> IF x = k THEN v ELSE f[x]]
Holds(f, k, v) == k \in DOMAIN f /\ f[k] = v

Cell(epoch, inc, op) == <<epoch, inc, op>>
EntryEpoch(e) == e[Len(e)][1]
EntryInc(e)   == e[Len(e)][2]
EntryOp(e)    == e[Len(e)][3]

HistoryInit ==
    /\ disk = [n \in HVoters |-> [epoch |-> 0, inc |-> "none", log |-> <<>>, proofs |-> <<>>,
                                  applied |-> 0, seq |-> 0, snapshot |-> 0]]
    /\ active = <<0, "none">> /\ commit = 0 /\ committed = <<>>
    /\ prepared = {}

\* _quorum: distinct configured voters.
Quorum(nodes) == nodes \subseteq HVoters /\ Cardinality(nodes) >= 2

\* promise: strictly above every promise of the quorum.
Activate(epoch, inc, nodes) ==
    /\ Quorum(nodes) /\ \A n \in nodes : epoch > disk[n].epoch
    /\ disk' = [n \in HVoters |-> IF n \in nodes THEN [disk[n] EXCEPT !.epoch = epoch, !.inc = inc] ELSE disk[n]]
    /\ active' = <<epoch, inc>>
    /\ UNCHANGED <<commit, prepared, committed>>

\* _active
IsActive(n, e) ==
    /\ <<EntryEpoch(e), EntryInc(e)>> = active
    /\ EntryEpoch(e) >= disk[n].epoch
    /\ EntryEpoch(e) = disk[n].epoch => EntryInc(e) = disk[n].inc

\* Mutant: a later epoch writes over the entry at its index.
AppendOverwrites(n, e) ==
    /\ IsActive(n, e)
    /\ Len(e) > 1 => Holds(disk[n].log, Len(e) - 1, SubSeq(e, 1, Len(e) - 1))
    /\ disk' = [disk EXCEPT ![n].log = Put(@, Len(e), e)]
    /\ UNCHANGED <<active, commit, prepared, committed>>

\* append: never over a different entry, never without its predecessor.
AppendEntry(n, e) ==
    /\ IsActive(n, e)
    /\ Len(e) \in DOMAIN disk[n].log => disk[n].log[Len(e)] = e
    /\ Len(e) > 1 => Holds(disk[n].log, Len(e) - 1, SubSeq(e, 1, Len(e) - 1))
    /\ disk' = [disk EXCEPT ![n].log = Put(@, Len(e), e)]
    /\ UNCHANGED <<active, commit, prepared, committed>>

\* Acknowledgements: ModelNetwork keeps one per voter that forced the record,
\* in whatever order they come, so at any time some of the holders have been
\* heard of.
EntryHolders(e) == {n \in HVoters : Holds(disk[n].log, Len(e), e)}
ProofHolders(e) == {n \in HVoters : Holds(disk[n].proofs, Len(e), e)}

\* prepare_proof: receipts of voters that still hold the entry, a quorum of
\* them, the leader's own entry forced, and the prefix extended by one.  Proofs
\* of one entry differ only in whose receipts they quote: a proof is its entry.
PrepareProof(e, receipts) ==
    /\ IsActive(Leader, e) /\ Holds(disk[Leader].log, Len(e), e)
    /\ receipts \subseteq EntryHolders(e) /\ Quorum(receipts)
    /\ Len(e) \in {commit, commit + 1}
    /\ prepared' = prepared \cup {e}
    /\ UNCHANGED <<disk, active, commit, committed>>

\* persist_proof: one voter's force of the proof, over its own exact entry.
PersistProof(n, e) ==
    /\ IsActive(n, e)
    /\ Holds(disk[n].log, Len(e), e)
    /\ Len(e) \in DOMAIN disk[n].proofs => disk[n].proofs[Len(e)] = e
    /\ disk' = [disk EXCEPT ![n].proofs = Put(@, Len(e), e)]
    /\ UNCHANGED <<active, commit, prepared, committed>>

\* complete_commit: acknowledged by voters on which this proof is durable.
CompleteCommit(e, acks) ==
    /\ IsActive(Leader, e)
    /\ acks \subseteq ProofHolders(e) /\ Quorum(acks)
    /\ Len(e) \in {commit, commit + 1}
    /\ commit' = Len(e)
    /\ committed' = IF Len(e) > Len(committed) THEN Append(committed, e) ELSE committed
    /\ UNCHANGED <<disk, active, prepared>>

\* apply: committed, present, and covered by a local durable proof.
Apply(n, k) ==
    LET v == disk[n]
        new == (v.applied + 1)..k
    IN /\ v.applied <= k /\ k <= commit /\ new \subseteq DOMAIN v.log
       /\ k > v.applied => \E i \in DOMAIN v.proofs : k <= i /\ i <= commit
       /\ disk' = [disk EXCEPT ![n].applied = k,
                               ![n].seq = @ + Cardinality({i \in new : EntryOp(v.log[i]) = "ADD"})]
       /\ UNCHANGED <<active, commit, prepared, committed>>

\* copy_committed_proof: to a voter that holds the whole prefix.
CopyProof(from, to, k) ==
    /\ k <= commit /\ k \in DOMAIN disk[from].proofs
    /\ \A i \in 1..k : i \in DOMAIN disk[to].log /\ Holds(disk[from].log, i, disk[to].log[i])
    /\ disk' = [disk EXCEPT ![to].proofs = Put(@, k, disk[from].proofs[k])]
    /\ UNCHANGED <<active, commit, prepared, committed>>

\* install_snapshot
InstallSnapshot(n, k) ==
    /\ disk[n].snapshot <= k /\ k <= disk[n].applied
    /\ k > 0 => k \in DOMAIN disk[n].proofs
    /\ disk' = [disk EXCEPT ![n].snapshot = k]
    /\ UNCHANGED <<active, commit, prepared, committed>>

\* truncate_uncommitted: above every proof of every voter.  A proof that was
\* prepared and not yet forced does not hold it back.
Truncate(n, from) ==
    /\ from > commit /\ \A m \in HVoters : \A i \in DOMAIN disk[m].proofs : from > i
    /\ disk' = [disk EXCEPT ![n].log = [i \in {j \in DOMAIN @ : j < from} |-> @[i]]]
    /\ UNCHANGED <<active, commit, prepared, committed>>

\* recovery_floor: the second highest snapshot.
RecoveryFloor ==
    CHOOSE k \in {disk[n].snapshot : n \in HVoters} :
        /\ Cardinality({n \in HVoters : disk[n].snapshot >= k}) >= 2
        /\ Cardinality({n \in HVoters : disk[n].snapshot > k}) <= 1

\* An entry the active leader may send: it extends a path some voter holds.
Candidates ==
    LET paths == {<<>>} \cup UNION {{disk[n].log[i] : i \in DOMAIN disk[n].log} : n \in HVoters}
    IN {Append(p, Cell(active[1], active[2], op)) : p \in {q \in paths : Len(q) < HMaxIndex}, op \in Operations}
         \cup (paths \ {<<>>})

\* ModelNetwork.receive
HistoryNext ==
    \/ \E epoch \in 1..HMaxEpoch, inc \in Incarnations, nodes \in SUBSET HVoters : Activate(epoch, inc, nodes)
    \/ active[1] > 0 /\ \E e \in Candidates, n \in HVoters : AppendEntry(n, e)
    \/ active[1] > 0 /\ \E e \in Candidates : \E receipts \in SUBSET EntryHolders(e) : PrepareProof(e, receipts)
    \/ \E e \in prepared, n \in HVoters : PersistProof(n, e)
    \/ \E e \in prepared : \E acks \in SUBSET ProofHolders(e) : CompleteCommit(e, acks)
    \/ \E n \in HVoters, k \in 1..HMaxIndex :
        Apply(n, k) \/ InstallSnapshot(n, k) \/ Truncate(n, k)
    \/ \E from, to \in HVoters, k \in 1..HMaxIndex : CopyProof(from, to, k)

-----------------------------------------------------------------------------
(* Properties. *)

\* A voter with a durable proof for something else than what was committed: its
\* proof was prepared, the entry truncated elsewhere, and the proof forced after.
Stray(n) == \E k \in DOMAIN disk[n].proofs : k <= commit /\ disk[n].proofs[k] # committed[k]

\* The voters that hold what was committed at k, with its proof.
Keepers(k) ==
    {n \in HVoters : Holds(disk[n].log, k, committed[k]) /\ Holds(disk[n].proofs, k, committed[k])}

\* What was committed stays: two voters hold it with its proof, whatever was
\* truncated, prepared before and forced after, or sent again in a later epoch.
\* At most one voter has a proof for anything else, every other one applied
\* exactly what was committed, and the recovery floor is not beyond it.
CommittedKept ==
    /\ \A k \in DOMAIN committed : Cardinality(Keepers(k)) >= 2
    /\ \A n \in HVoters : ~ Stray(n) =>
         /\ \A k \in 1..disk[n].applied : disk[n].log[k] = committed[k]
         /\ disk[n].seq = Cardinality({k \in 1..disk[n].applied : EntryOp(committed[k]) = "ADD"})
    /\ Cardinality({n \in HVoters : Stray(n)}) <= 1
    /\ RecoveryFloor <= commit
=============================================================================
