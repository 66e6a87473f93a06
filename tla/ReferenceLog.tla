---------------------------- MODULE ReferenceLog ----------------------------
(***************************************************************************)
(* What the executable reference model of the automatic mode promises a     *)
(* client: one log that only grows, answers to writes that are in it, and   *)
(* reads that return a prefix of it no shorter than what was answered       *)
(* before the read was sent.                                                *)
(***************************************************************************)
EXTENDS Naturals, Sequences

CONSTANTS
    LogValues,   \* what a slot may hold
    ReadIds      \* identities of reads

VARIABLES
    log,       \* the chosen values, in slot order
    answered,  \* the slots whose write or read barrier was answered
    floor,     \* per read: the answered length when it was sent, or -1
    view       \* per read: the length of the prefix it returned, or -1

NotYet == 0 - 1
Longest(S) == IF S = {} THEN 0 ELSE CHOOSE k \in S : \A j \in S : j <= k

LogInit ==
    /\ log = <<>> /\ answered = {}
    /\ floor = [r \in ReadIds |-> NotYet]
    /\ view = [r \in ReadIds |-> NotYet]

Choose(v) == log' = Append(log, v) /\ UNCHANGED <<answered, floor, view>>

Answer(s) ==
    /\ s \in DOMAIN log /\ answered' = answered \cup {s}
    /\ UNCHANGED <<log, floor, view>>

SendRead(r) ==
    /\ floor[r] = NotYet /\ floor' = [floor EXCEPT ![r] = Longest(answered)]
    /\ UNCHANGED <<log, answered, view>>

\* The view is pinned when the read's own barrier is answered.
PinRead(r, s) ==
    /\ floor[r] # NotYet /\ view[r] = NotYet
    /\ s \in DOMAIN log /\ s > floor[r]
    /\ view' = [view EXCEPT ![r] = s] /\ answered' = answered \cup {s}
    /\ UNCHANGED <<log, floor>>

LogNext ==
    \/ \E v \in LogValues : Choose(v)
    \/ \E s \in 1..Len(log) : Answer(s)
    \/ \E r \in ReadIds : SendRead(r)
    \/ \E r \in ReadIds, s \in 1..Len(log) : PinRead(r, s)

LogSpec == LogInit /\ [][LogNext]_<<log, answered, floor, view>>
=============================================================================
