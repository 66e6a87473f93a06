------------------------- MODULE CloudControlProofs -------------------------
(***************************************************************************)
(* The inductive invariant of CloudControl and the theorems that follow    *)
(* from it, for every number of attempts, reconcilers, rows, evidence parts*)
(* and faults.                                                             *)
(*                                                                         *)
(* The fence between a stalled insert and a cleanup is the marker: a       *)
(* runner that may still POST a row has its marker retained and no proof   *)
(* that the row was never submitted, so the row cannot be resolved and the *)
(* lease that names it cannot be released.                                 *)
(***************************************************************************)
EXTENDS CloudControl, TLAPS

LeasesOrNone == Leases \cup {None}

Stages ==
  {"new", "idle", "ended", "admitted", "acquired", "charged", "intend", "check", "mark",
   "confirm", "send", "wait", "adopt", "ready", "publish", "part", "certify",
   "claim", "resolve", "delete", "conclude", "finish", "release"}

\* The stages of a process whose fence is written.
Cleaning == {"resolve", "delete", "conclude", "finish", "release"}

\* The stages of a runner with a row in hand, and those before its POST.
Unsent == {"check", "mark", "confirm", "send"}
Inserting == Unsent \cup {"wait", "adopt"}

OpStates == {"none", "sent", "running", "dropped", "done", "partial", "failed"}

\* The types of the retained objects and of the memory of every process.
TypeInv ==
  /\ lease \in LeasesOrNone
  /\ ledger \in [Attempts -> {None, "PENDING", "PASS", "FAIL"}]
  /\ marker \subseteq Attempts \X Row
  /\ proof \subseteq Attempts \X Row
  /\ receipt \subseteq Attempts \X Row
  /\ live \subseteq Attempts \X Row
  /\ sealed \subseteq Attempts
  /\ completion \in [Attempts -> {None, "PASS", "FAIL"}]
  /\ evidence \in [Attempts -> Nat]
  /\ op \in [Attempts -> [Row -> OpStates]]
  /\ pc \in [Procs -> Stages]
  /\ mine \in [Procs -> LeasesOrNone]
  /\ own \in [Attempts -> [tickets : SUBSET Row, sent : SUBSET Row,
                           cert : BOOLEAN, beat : BOOLEAN]]
  /\ cl \in [Procs -> [row : 0..Rows, resolved : SUBSET Row,
                       errors : BOOLEAN, pass : BOOLEAN]]

\* The attempt has tried to write its lease.
Begun(a) == pc[a] \notin {"new", "admitted"}

\* The stored lease is this attempt's.
Leased(a) == lease # None /\ lease.own = a

\* What a process remembers of the lease: a runner's is its own, and behind
\* the fence the stored lease stays in cleanup with the same intents.
MineOf(p) ==
  /\ pc[p] \notin {"new", "admitted", "idle", "ended"} => mine[p] # None
  /\ pc[p] \in {"new", "admitted", "idle", "ended"} => mine[p] = None
  /\ mine[p] # None => Begun(mine[p].own) /\ (p \in Attempts => mine[p].own = p)
  /\ IF p \in Attempts THEN pc[p] # "idle" ELSE pc[p] \in Cleaning \cup {"idle", "claim"}
  /\ pc[p] \in Cleaning =>
       /\ mine[p].phase = "CLEANING"
       /\ Leased(mine[p].own) => lease.phase = "CLEANING" /\ lease.tried = mine[p].tried

\* The row a runner has in hand: not sent before its POST, marked before that,
\* and at the POST still an unresolved intent of the stored lease.
InsertOf(a) ==
  /\ pc[a] \in Inserting => mine[a].tried \in Row
  /\ pc[a] \in Unsent => op[a][mine[a].tried] = "none"
  /\ pc[a] \in {"confirm", "send"} => <<a, mine[a].tried>> \in marker
  /\ pc[a] = "send" => /\ Leased(a) /\ mine[a].tried <= lease.tried
                       /\ <<a, mine[a].tried>> \notin proof

\* What the objects of a row say of its operation: a marker before it, a
\* receipt after it, and a proof only instead of it, behind the fence.
RowOf(a, r) ==
  /\ op[a][r] # "none" => <<a, r>> \in marker /\ (r \in own[a].tickets => r \in own[a].sent)
  /\ <<a, r>> \in receipt => op[a][r] \in {"done", "partial", "failed"}
  /\ <<a, r>> \in proof => /\ op[a][r] = "none" /\ Begun(a)
                           /\ Leased(a) => lease.phase = "CLEANING"

\* The attempt has no resource and none on the way.
Gone(a) == \A r \in Row : <<a, r>> \notin live /\ op[a][r] \notin {"sent", "running"}

\* A cleaner resolved what it says, and a passed cleanup is retained and true.
WorkOf(p) ==
  /\ pc[p] = "delete" => cl[p].row > 0
  /\ \A r \in cl[p].resolved : mine[p] # None /\ Resolved(mine[p].own, r)
  /\ cl[p].pass => /\ pc[p] \in {"conclude", "finish", "release"}
                   /\ <<mine[p].own, TRUE>> \in cleanups
                   /\ p \in Attempts => Gone(p)

\* From the certificate to the seal: every step towards PASS keeps the ones
\* before it.
PassOf(a) ==
  /\ Leased(a) => Begun(a)
  /\ pc[a] = "certify" => evidence[a] = Parts + 1
  /\ own[a].cert => /\ pc[a] \in Cleaning \cup {"claim"}
                    /\ evidence[a] = Parts + 1 /\ ledger[a] # None
  /\ completion[a] = "PASS" => /\ pc[a] \in {"finish", "release", "ended"}
                               /\ evidence[a] = Parts + 1 /\ <<a, TRUE>> \in cleanups
                               /\ Gone(a)
  /\ ledger[a] \in {"PASS", "FAIL"} => completion[a] = ledger[a]
  /\ a \in sealed => ledger[a] = "PASS" /\ ~Leased(a)

\* The inductive invariant.
ProcInv == \A p \in Procs : MineOf(p) /\ WorkOf(p)
AttemptInv == \A a \in Attempts : InsertOf(a) /\ PassOf(a)
RowInv == \A a \in Attempts, r \in Row : RowOf(a, r)
IInv == TypeInv /\ NothingLeaks /\ ProcInv /\ AttemptInv /\ RowInv

-----------------------------------------------------------------------------
(* Types *)

\* A lease keeps its type when a phase, an intent or an identity is set.
LEMMA LeaseTypes ==
  ASSUME NEW l \in Leases
  PROVE  /\ l # None /\ l.own \in Attempts /\ l.tried \in 0..Rows /\ l.tried \in Nat
         /\ l.ids \subseteq Row /\ l.phase \in {"ACQUIRING", "ACTIVE", "CLEANING"}
         /\ [l EXCEPT !.phase = "ACTIVE"] \in Leases
         /\ [l EXCEPT !.phase = "CLEANING"] \in Leases
         /\ \A r \in 0..Rows : [l EXCEPT !.tried = r] \in Leases
         /\ \A r \in Row : [l EXCEPT !.ids = @ \cup {r}] \in Leases
  BY NoneAssumption, ControlAssumption DEF Leases, Row

\* The first lease of an attempt.
LEMMA InitialTypes == \A a \in Attempts : InitialLease(a) \in Leases
  BY ControlAssumption DEF InitialLease, LeaseValue, Leases, Row

\* The initial memory of a process.
LEMMA MemoryTypes ==
  /\ NoMemory \in [tickets : SUBSET Row, sent : SUBSET Row, cert : BOOLEAN, beat : BOOLEAN]
  /\ NoWork \in [row : 0..Rows, resolved : SUBSET Row, errors : BOOLEAN, pass : BOOLEAN]
  /\ ~NoMemory.cert /\ NoMemory.tickets = {}
  /\ NoWork.resolved = {} /\ ~NoWork.pass
  BY ControlAssumption DEF NoMemory, NoWork, Row

-----------------------------------------------------------------------------
(* What one step may do *)

\* What a put of the lease by p may do to the stored one: a first lease is p's,
\* and the fence is never lifted nor passed by a new intent.
LeaseMove(p) ==
  \/ lease' = lease
  \/ lease = None /\ p \in Attempts /\ lease' = InitialLease(p) /\ ~Begun(p)
  \/ /\ lease # None /\ lease' \in Leases
     /\ lease'.own = lease.own /\ lease'.tried >= lease.tried
     /\ lease.phase = "CLEANING" => lease'.phase = "CLEANING" /\ lease'.tried = lease.tried

\* The wire policy admits nothing else.
LEMMA WireMoves ==
  ASSUME TypeInv, NEW p \in Procs, NEW val \in Leases, WireLease(p, val), lease' = val,
         lease = None => ~Begun(p)
  PROVE  LeaseMove(p)
<1>1. CASE lease = None
  BY <1>1 DEF WireLease, LeaseMove
<1>2. CASE lease # None
  <2>1. lease \in Leases /\ lease.tried \in Nat
    BY <1>2, LeaseTypes DEF TypeInv, LeasesOrNone
  <2>2. lease.own = val.own
    BY <1>2 DEF WireLease
  <2>3. \/ val = [lease EXCEPT !.phase = "CLEANING"]
        \/ lease.phase = "ACQUIRING" /\ val = [lease EXCEPT !.phase = "ACTIVE"]
        \/ val = lease
        \/ lease.phase = "ACTIVE" /\ val = [lease EXCEPT !.tried = @ + 1]
        \/ \E r \in 1..lease.tried : val = [lease EXCEPT !.ids = @ \cup {r}]
    BY <1>2 DEF WireLease, Current
  <2>4. /\ lease'.tried >= lease.tried
        /\ lease.phase = "CLEANING" => lease'.phase = "CLEANING" /\ lease'.tried = lease.tried
    BY <2>1, <2>3 DEF Leases
  <2> QED BY <1>2, <2>2, <2>4 DEF LeaseMove
<1> QED BY <1>1, <1>2

\* A step of p leaves every other process alone, and never begins an attempt again.
OnlyProc(p) ==
  /\ \A q \in Procs \ {p} :
       /\ pc'[q] = pc[q] /\ mine'[q] = mine[q] /\ cl'[q] = cl[q]
       /\ q \in Attempts => own'[q] = own[q]
  /\ Begun(p) => Begun(p)'
  /\ \A a \in Attempts \ {p} : evidence'[a] = evidence[a]

\* A step of p adds objects to the rows: a receipt of an operation that is
\* over, a proof behind the fence for a row that is not on its way.
RowsGrow(p) ==
  /\ marker \subseteq marker' /\ receipt \subseteq receipt' /\ proof \subseteq proof'
  /\ cleanups \subseteq cleanups'
  /\ \A a \in Attempts, r \in Row :
       /\ <<a, r>> \in receipt' => op[a][r] \in {"done", "partial", "failed"}
       /\ <<a, r>> \in proof' \ proof =>
            /\ op[a][r] = "none" /\ Begun(a)
            /\ Leased(a) => lease.phase = "CLEANING"
            /\ ~(pc[a] = "send" /\ mine[a].tried = r)

\* The resources, the charges and the completions stay as they are.
Settled == UNCHANGED <<ledger, completion, op, live, sealed>>

\* A charge is written under the attempt's lease, and resolved as completed.
LedgerMove ==
  /\ ledger' \in [Attempts -> {None, "PENDING", "PASS", "FAIL"}]
  /\ \A a \in Attempts :
       \/ ledger'[a] = ledger[a]
       \/ ledger[a] = None /\ ledger'[a] = "PENDING" /\ Leased(a)
       \/ ledger[a] = "PENDING" /\ ledger'[a] = completion[a] /\ completion[a] # None

\* A completion is written once, and another attempt's only as failed.
CompletionMove(p) ==
  /\ completion' \in [Attempts -> {None, "PASS", "FAIL"}]
  /\ \A a \in Attempts :
       \/ completion'[a] = completion[a]
       \/ completion[a] = None /\ (completion'[a] = "FAIL" \/ a = p)

\* Nothing is sent, created or sealed.
Steady(p) ==
  /\ UNCHANGED <<op, sealed>> /\ live' \subseteq live
  /\ LedgerMove /\ CompletionMove(p)

\* A settled step is steady.
LEMMA SettledSteady ==
  ASSUME IInv, Settled
  PROVE  completion' = completion /\ \A p \in Procs \cup Attempts : Steady(p)
  BY DEF Settled, Steady, LedgerMove, CompletionMove, IInv, TypeInv

\* The parts of the invariant that a step of p has to establish for p.
OwnParts(p) ==
  /\ MineOf(p) /\ WorkOf(p)
  /\ p \in Attempts => /\ InsertOf(p) /\ PassOf(p)
                       /\ \A r \in own[p].tickets : op[p][r] # "none" => r \in own[p].sent

\* Under such a put the lease of an attempt that has begun stays its lease,
\* keeps its intents, and stays in cleanup.
LEMMA LeaseKept ==
  ASSUME TypeInv, NEW p \in Procs, LeaseMove(p)
  PROVE  /\ \A a \in Attempts : a # p \/ Begun(a) => (Leased(a)' <=> Leased(a))
         /\ \A a \in Attempts : Leased(a) =>
              /\ Leased(a)' /\ lease.tried \in Nat /\ lease'.tried \in Nat
              /\ lease'.tried >= lease.tried
              /\ lease.phase = "CLEANING" =>
                   lease'.phase = "CLEANING" /\ lease'.tried = lease.tried
<1>3. \A a \in Attempts : a # p \/ Begun(a) => (Leased(a)' <=> Leased(a))
  <2>1. CASE lease' = lease
    BY <2>1 DEF Leased
  <2>2. CASE lease = None /\ p \in Attempts /\ lease' = InitialLease(p) /\ ~Begun(p)
    <3>1. lease'.own = p
      BY <2>2 DEF InitialLease, LeaseValue
    <3> QED BY <2>2, <3>1 DEF Leased
  <2>3. CASE lease # None /\ lease' \in Leases /\ lease'.own = lease.own
    BY <2>3, LeaseTypes DEF Leased
  <2> QED BY <2>1, <2>2, <2>3 DEF LeaseMove
<1>4. \A a \in Attempts : Leased(a) =>
        /\ Leased(a)' /\ lease.tried \in Nat /\ lease'.tried \in Nat /\ lease'.tried >= lease.tried
        /\ lease.phase = "CLEANING" => lease'.phase = "CLEANING" /\ lease'.tried = lease.tried
  <2> SUFFICES ASSUME lease # None
               PROVE  /\ lease.tried \in Nat /\ lease'.tried \in Nat /\ lease'.tried >= lease.tried
                      /\ lease' # None /\ lease'.own = lease.own
                      /\ lease.phase = "CLEANING" =>
                           lease'.phase = "CLEANING" /\ lease'.tried = lease.tried
    BY DEF Leased
  <2>1. lease \in Leases /\ lease.tried \in Nat
    BY LeaseTypes DEF TypeInv, LeasesOrNone
  <2>2. CASE lease' = lease
    BY <2>1, <2>2
  <2>3. CASE lease' # lease
    <3>1. lease' \in Leases
      BY <2>3 DEF LeaseMove
    <3>2. lease' # None /\ lease'.tried \in Nat
      BY <3>1, LeaseTypes
    <3> QED BY <2>1, <2>3, <3>2 DEF LeaseMove
  <2> QED BY <2>2, <2>3
<1> QED BY <1>3, <1>4

\* A step of p that changes no resource and releases no lease keeps the
\* invariant when it keeps p's own parts of it.
LEMMA ProcStep ==
  ASSUME IInv, TypeInv', NEW p \in Procs, OnlyProc(p), LeaseMove(p), RowsGrow(p), Steady(p),
         OwnParts(p)'
  PROVE  IInv'
<1>2. \A a \in Attempts : Begun(a) => Begun(a)'
  BY DEF OnlyProc, Begun, Procs
<1>3. \A a \in Attempts : a # p \/ Begun(a) => (Leased(a)' <=> Leased(a))
  BY LeaseKept DEF IInv
<1>4. \A a \in Attempts : Leased(a) =>
        /\ Leased(a)' /\ lease.tried \in Nat /\ lease'.tried \in Nat /\ lease'.tried >= lease.tried
        /\ lease.phase = "CLEANING" => lease'.phase = "CLEANING" /\ lease'.tried = lease.tried
  BY LeaseKept DEF IInv
<1>5. NothingLeaks'
  <2>1. ASSUME NEW a \in Attempts, ledger'[a] = "PENDING" PROVE Leased(a)'
    BY <2>1, <1>4, NoneAssumption
       DEF IInv, TypeInv, NothingLeaks, Steady, LedgerMove, Leased
  <2>2. ASSUME NEW a \in Attempts, NEW r \in Row,
               <<a, r>> \in live' \/ op'[a][r] \in {"sent", "running"}
        PROVE  Leased(a)' /\ r =< lease'.tried
    <3>1. Leased(a) /\ r =< lease.tried
      BY <2>2 DEF IInv, NothingLeaks, Steady, Leased
    <3> QED BY <3>1, <1>4, ControlAssumption DEF Row
  <2> QED BY <2>1, <2>2 DEF NothingLeaks, Leased
<1>6. ASSUME NEW q \in Procs, q # p PROVE MineOf(q)' /\ WorkOf(q)'
  <2>1. pc'[q] = pc[q] /\ mine'[q] = mine[q] /\ cl'[q] = cl[q]
    BY <1>6 DEF OnlyProc
  <2>2. MineOf(q) /\ WorkOf(q)
    BY DEF IInv, ProcInv
  <2>3. mine[q] # None => mine[q].own \in Attempts
    BY LeaseTypes DEF IInv, TypeInv, LeasesOrNone
  <2>4. MineOf(q)'
    BY <2>1, <2>2, <2>3, <1>2, <1>3, <1>4 DEF MineOf, Cleaning
  <2>5. WorkOf(q)'
    BY <2>1, <2>2, <2>3 DEF WorkOf, RowsGrow, Steady, Resolved, Gone
  <2> QED BY <2>4, <2>5
<1>7. ASSUME NEW a \in Attempts, a # p PROVE InsertOf(a)' /\ PassOf(a)'
  <2>1. pc'[a] = pc[a] /\ mine'[a] = mine[a] /\ own'[a] = own[a] /\ evidence'[a] = evidence[a]
    BY <1>7 DEF OnlyProc, Procs
  <2>2. InsertOf(a) /\ PassOf(a)
    BY DEF IInv, AttemptInv
  <2>3. InsertOf(a)'
    <3>1. pc[a] = "send" => mine[a].tried \in Row
      BY <2>2 DEF InsertOf, Inserting, Unsent
    <3>2. pc[a] = "send" => <<a, mine[a].tried>> \notin proof'
      BY <2>2, <3>1 DEF InsertOf, RowsGrow
    <3>3. pc[a] = "send" => mine[a].tried <= lease'.tried
      BY <2>2, <3>1, <1>4, ControlAssumption DEF InsertOf, Row
    <3> QED BY <2>1, <2>2, <3>2, <3>3, <1>4 DEF InsertOf, RowsGrow, Steady
  <2>4. PassOf(a)'
    <3>1. /\ ledger[a] # None => ledger'[a] # None
          /\ ledger[a] = "PASS" => ledger'[a] = "PASS"
          /\ completion'[a] = "PASS" => completion[a] = "PASS"
      BY <1>7, <2>2, NoneAssumption DEF PassOf, Steady, LedgerMove, CompletionMove
    <3>2. ledger'[a] \in {"PASS", "FAIL"} => completion'[a] = ledger'[a]
      BY <2>2, NoneAssumption DEF PassOf, Steady, LedgerMove, CompletionMove
    <3> QED BY <2>1, <2>2, <3>1, <3>2, <1>3, <1>7 DEF PassOf, RowsGrow, Steady, Begun, Gone
  <2> QED BY <2>3, <2>4
<1>8. ASSUME NEW a \in Attempts, NEW r \in Row PROVE RowOf(a, r)'
  <2>1. RowOf(a, r)
    BY DEF IInv, RowInv
  <2>2. op'[a][r] # "none" => <<a, r>> \in marker' /\ (r \in own'[a].tickets => r \in own'[a].sent)
    <3>1. CASE a = p
      BY <2>1, <3>1 DEF RowOf, RowsGrow, Steady, OwnParts
    <3>2. CASE a # p
      <4>1. own'[a] = own[a]
        BY <3>2 DEF OnlyProc, Procs
      <4> QED BY <2>1, <4>1 DEF RowOf, RowsGrow, Steady
    <3> QED BY <3>1, <3>2
  <2> QED BY <2>1, <2>2, <1>2, <1>3, <1>4 DEF RowOf, RowsGrow, Steady
<1> QED BY <1>5, <1>6, <1>7, <1>8 DEF IInv, ProcInv, AttemptInv, RowInv, OwnParts, Procs

-----------------------------------------------------------------------------
(* The owner *)

\* The parts of the invariant for one process, one attempt and one row.
LEMMA InvParts ==
  ASSUME IInv
  PROVE  /\ TypeInv /\ NothingLeaks
         /\ \A p \in Procs : MineOf(p) /\ WorkOf(p)
         /\ \A a \in Attempts : a \in Procs /\ a \notin Reconcilers /\ InsertOf(a) /\ PassOf(a)
         /\ \A a \in Attempts, r \in Row : RowOf(a, r)
  BY ControlAssumption DEF IInv, ProcInv, AttemptInv, RowInv, Procs

\* A process past its admission holds a lease value, a runner its own.
LEMMA Holding ==
  ASSUME IInv, NEW p \in Procs
  PROVE  /\ pc[p] \notin {"new", "admitted", "idle", "ended"} => mine[p] # None
         /\ mine[p] # None => mine[p] \in Leases /\ mine[p].own \in Attempts
         /\ p \in Attempts /\ mine[p] # None => mine[p].own = p
<1>1. MineOf(p) /\ mine[p] \in LeasesOrNone
  BY InvParts DEF TypeInv
<1>2. mine[p] # None => mine[p] \in Leases
  BY <1>1 DEF LeasesOrNone
<1> QED BY <1>1, <1>2, LeaseTypes DEF MineOf

\* The end of a run keeps the invariant: what a process knew is forgotten.
LEMMA LeaveStep ==
  ASSUME IInv, lease' \in LeasesOrNone, NEW p \in Procs, Leave(p), LeaseMove(p), Steady(p),
         UNCHANGED <<marker, proof, receipt, cleanups, evidence>>,
         p \in Attempts /\ completion'[p] = "PASS" /\ completion[p] # "PASS" =>
           evidence[p] = Parts + 1 /\ <<p, TRUE>> \in cleanups /\ Gone(p)
  PROVE  IInv'
<1>1. /\ pc'[p] = (IF p \in Attempts THEN "ended" ELSE "idle")
      /\ mine'[p] = None /\ cl'[p] = NoWork
      /\ p \in Attempts => own'[p] = NoMemory
      /\ pc'[p] \in Stages
  BY InvParts DEF Leave, Goto, TypeInv, Stages
<1>2. TypeInv'
  BY <1>1, InvParts, MemoryTypes DEF TypeInv, Leave, Goto, Steady, LedgerMove, CompletionMove, Stages, LeasesOrNone
<1>3. OnlyProc(p)
  BY <1>1, InvParts DEF OnlyProc, Leave, Goto, Begun, TypeInv
<1>4. RowsGrow(p)
  BY InvParts DEF RowsGrow, RowOf
<1>5. MineOf(p)' /\ WorkOf(p)'
  BY <1>1, MemoryTypes DEF MineOf, WorkOf, Cleaning, Procs
<1>6. ASSUME p \in Attempts PROVE InsertOf(p)' /\ PassOf(p)'
  <2>1. pc'[p] = "ended" /\ own'[p] = NoMemory
    BY <1>1, <1>6
  <2>2. InsertOf(p)'
    BY <2>1 DEF InsertOf, Inserting, Unsent
  <2>3. p \in sealed => Begun(p)
    BY <1>6, InvParts DEF PassOf, Begun
  <2>4. /\ ledger[p] = "PASS" => ledger'[p] = "PASS"
        /\ ledger'[p] \in {"PASS", "FAIL"} => completion'[p] = ledger'[p]
    BY <1>6, InvParts, NoneAssumption DEF PassOf, Steady, LedgerMove, CompletionMove
  <2>5. completion'[p] = "PASS" => evidence[p] = Parts + 1 /\ <<p, TRUE>> \in cleanups /\ Gone(p)'
    BY <1>6, InvParts DEF PassOf, Steady, Gone
  <2>6. p \in sealed => ~Leased(p)'
    BY <1>6, <2>3, InvParts, LeaseKept DEF PassOf
  <2> QED BY <1>6, <2>1, <2>2, <2>4, <2>5, <2>6, InvParts, MemoryTypes DEF PassOf, Steady, Begun
<1> QED BY <1>1, <1>2, <1>3, <1>4, <1>5, <1>6, MemoryTypes, ProcStep DEF OwnParts

\* The stages of a runner before its cleanup.
Owning == Working \cup {"admitted", "acquired", "charged"}
Owned == Working \cup {"acquired", "charged", "claim"}

\* The memory of a runner after a step of its own.
OwnStep(a) ==
  /\ own' \in [Attempts -> [tickets : SUBSET Row, sent : SUBSET Row,
                            cert : BOOLEAN, beat : BOOLEAN]]
  /\ \A b \in Attempts : b # a => own'[b] = own[b]
  /\ \A r \in own'[a].tickets : op[a][r] # "none" => r \in own'[a].sent

\* The evidence after a step of a runner.
EvidenceStep(a) ==
  /\ evidence' \in [Attempts -> Nat]
  /\ \A b \in Attempts : b # a => evidence'[b] = evidence[b]

\* A step of a runner before its cleanup keeps the invariant when it keeps what
\* the invariant says of the row in hand and of the certificate.
LEMMA OwnerStep ==
  ASSUME IInv, lease' \in LeasesOrNone, NEW a \in Attempts, LeaseMove(a), Steady(a),
         completion' = completion, RowsGrow(a),
         pc[a] \in Owning, NEW where \in Owned, Goto(a, where),
         \/ mine[a] # None /\ mine' = mine
         \/ \E val \in Leases : val.own = a /\ mine' = [mine EXCEPT ![a] = val],
         marker' \subseteq Attempts \X Row, receipt' \subseteq Attempts \X Row, proof' = proof,
         EvidenceStep(a), OwnStep(a), cl' = cl, InsertOf(a)',
         where = "certify" => evidence'[a] = Parts + 1,
         own'[a].cert => where = "claim" /\ evidence'[a] = Parts + 1 /\ ledger[a] # None
  PROVE  IInv'
<1>1. a \in Procs /\ pc'[a] = where /\ pc' = [pc EXCEPT ![a] = where] /\ a \notin Reconcilers
  BY InvParts DEF Goto, TypeInv
<1>2. /\ mine' \in [Procs -> LeasesOrNone] /\ mine'[a] # None /\ mine'[a].own = a
      /\ \A q \in Procs : q # a => mine'[q] = mine[q]
  <2>1. mine \in [Procs -> LeasesOrNone]
    BY InvParts DEF TypeInv
  <2>2. CASE mine[a] # None /\ mine' = mine
    BY <1>1, <2>1, <2>2, Holding
  <2>3. ASSUME NEW val \in Leases, val.own = a, mine' = [mine EXCEPT ![a] = val]
        PROVE  /\ mine' \in [Procs -> LeasesOrNone] /\ mine'[a] # None /\ mine'[a].own = a
               /\ \A q \in Procs : q # a => mine'[q] = mine[q]
    <3>1. mine'[a] = val /\ val # None
      BY <1>1, <2>1, <2>3, LeaseTypes
    <3> QED BY <1>1, <2>1, <2>3, <3>1 DEF LeasesOrNone
  <2> QED BY <2>2, <2>3
<1>3. TypeInv'
  BY <1>1, <1>2, InvParts
     DEF TypeInv, Steady, LedgerMove, Stages, Owned, Working, EvidenceStep, OwnStep
<1>4. OnlyProc(a)
  BY <1>1, <1>2, InvParts
     DEF OnlyProc, Begun, TypeInv, EvidenceStep, OwnStep, Owned, Working
<1>5. MineOf(a)' /\ WorkOf(a)'
  <2>1. MineOf(a) /\ WorkOf(a)
    BY <1>1, InvParts
  <2>2. Begun(a)'
    BY <1>1 DEF Begun, Owned, Working
  <2>3. MineOf(a)'
    BY <1>1, <1>2, <2>2 DEF MineOf, Cleaning, Owned, Working
  <2>4. ~cl[a].pass
    BY <2>1 DEF WorkOf, Owning, Working
  <2>5. mine[a] # None => mine[a].own = a
    BY <1>1, Holding
  <2>6. pc'[a] # "delete"
    BY <1>1 DEF Owned, Working
  <2> QED BY <1>2, <2>1, <2>3, <2>4, <2>5, <2>6 DEF WorkOf, RowsGrow, Resolved
<1>6. PassOf(a)'
  <2>1. PassOf(a) /\ Begun(a)'
    BY <1>1, InvParts DEF Begun, Owned, Working
  <2>2. completion[a] # "PASS" /\ a \notin sealed
    BY <2>1 DEF PassOf, Cleaning, Owning, Working
  <2> QED BY <1>1, <2>1, <2>2 DEF PassOf, Steady, LedgerMove
<1> QED BY <1>1, <1>3, <1>4, <1>5, <1>6, ProcStep DEF OwnParts, Steady, OwnStep

\* The retained objects of the rows and of the cleanups stay as they are.
ObjectsKept == UNCHANGED <<marker, proof, receipt, cleanups>>

\* Unchanged objects grow.
LEMMA KeptGrow == ASSUME IInv, ObjectsKept PROVE \A p \in Procs : RowsGrow(p)
  BY InvParts DEF RowsGrow, RowOf, ObjectsKept

\* What the runner's own memory keeps when it does not change.
LEMMA OwnKept == ASSUME IInv, NEW a \in Attempts, own' = own PROVE OwnStep(a)
  BY InvParts DEF OwnStep, TypeInv, RowOf

\* A runner that fails enters the cleanup with what it knows, or ends when it
\* knows of no lease.
LEMMA FailStep ==
  ASSUME IInv, lease' \in LeasesOrNone, NEW a \in Attempts, LeaseMove(a), Steady(a),
         completion' = completion, ObjectsKept,
         pc[a] \in Owning, Fail(a), UNCHANGED evidence
  PROVE  IInv'
<1>1. a \in Procs
  BY InvParts
<1>2. CASE mine[a] = None
  BY <1>1, <1>2, LeaveStep DEF Fail, ObjectsKept
<1>3. CASE mine[a] # None
  <2>1. Goto(a, "claim") /\ UNCHANGED <<mine, own, cl>>
    BY <1>3 DEF Fail
  <2>2. pc'[a] = "claim"
    BY <1>1, <2>1, InvParts DEF Goto, TypeInv
  <2>3. InsertOf(a)'
    BY <2>2 DEF InsertOf, Inserting, Unsent
  <2>4. ~own[a].cert
    BY InvParts DEF PassOf, Cleaning, Owning, Working
  <2>5. EvidenceStep(a)
    BY InvParts DEF EvidenceStep, TypeInv
  <2>6. marker' \subseteq Attempts \X Row /\ receipt' \subseteq Attempts \X Row /\ proof' = proof
    BY InvParts DEF TypeInv, ObjectsKept
  <2>7. "claim" \in Owned /\ "claim" # "certify"
    BY DEF Owned
  <2> QED BY <1>1, <1>3, <2>1, <2>3, <2>4, <2>5, <2>6, <2>7, KeptGrow, OwnKept, OwnerStep
<1> QED BY <1>2, <1>3

\* A runner whose put succeeds proceeds with the value it wrote.
LEMMA ProceedStep ==
  ASSUME IInv, NEW a \in Attempts, LeaseMove(a), Settled, ObjectsKept,
         pc[a] \in Owning, NEW where \in {"acquired", "intend", "check", "ready"},
         Proceed(a, where), UNCHANGED evidence,
         NEW val \in Leases, val.own = a, lease' = val, mine' = [mine EXCEPT ![a] = val],
         where = "check" => val.tried \in Row /\ op[a][val.tried] = "none"
  PROVE  IInv'
<1>1. a \in Procs /\ pc'[a] = where /\ mine'[a] = val
  BY InvParts DEF Proceed, Goto, TypeInv
<1>2. Goto(a, where) /\ UNCHANGED <<own, cl>>
  BY DEF Proceed
<1>3. InsertOf(a)'
  BY <1>1 DEF InsertOf, Inserting, Unsent, Settled
<1>4. ~own[a].cert
  BY InvParts DEF PassOf, Cleaning, Owning, Working
<1>5. EvidenceStep(a)
  BY InvParts DEF EvidenceStep, TypeInv
<1>6. marker' \subseteq Attempts \X Row /\ receipt' \subseteq Attempts \X Row /\ proof' = proof
  BY InvParts DEF TypeInv, ObjectsKept
<1>7. where \in Owned /\ where # "certify"
  BY DEF Owned, Working
<1>8. lease' \in LeasesOrNone
  BY DEF LeasesOrNone
<1> QED BY <1>1, <1>2, <1>3, <1>4, <1>5, <1>6, <1>7, <1>8, KeptGrow, OwnKept, OwnerStep, SettledSteady

\* Admission learns two generations and writes nothing.
LEMMA AdmitStep ==
  ASSUME IInv, NEW a \in Attempts, Admit(a)
  PROVE  IInv'
<1>1. /\ a \in Procs /\ pc[a] = "new" /\ pc' = [pc EXCEPT ![a] = "admitted"]
      /\ UNCHANGED <<lease, ledger, marker, proof, receipt, cleanups, completion, evidence,
                     op, live, mine, own, cl, sealed>>
  BY DEF Admit, Goto, Procs, provider
<1>2. TypeInv'
  BY <1>1, InvParts DEF TypeInv, Stages
<1>3. OnlyProc(a) /\ LeaseMove(a) /\ RowsGrow(a) /\ Settled
  BY <1>1, InvParts DEF OnlyProc, LeaseMove, RowsGrow, Settled, Begun, TypeInv, RowOf
<1>4. OwnParts(a)'
  <2>1. pc'[a] = "admitted"
    BY <1>1, InvParts DEF TypeInv
  <2>2. MineOf(a)' /\ WorkOf(a)'
    BY <1>1, <2>1, InvParts, Holding DEF MineOf, WorkOf, Begun, Cleaning, Resolved
  <2>3. InsertOf(a)' /\ PassOf(a)'
    BY <1>1, <2>1, InvParts DEF InsertOf, PassOf, Begun, Inserting, Unsent, Cleaning, Leased, Gone
  <2> QED BY <1>1, <2>2, <2>3, InvParts DEF OwnParts, RowOf, TypeInv
<1> QED BY <1>1, <1>2, <1>3, <1>4, ProcStep, SettledSteady

\* The lease is put over nothing, by a runner that has not begun.
LEMMA AcquireStep ==
  ASSUME IInv, NEW a \in Attempts, Acquire(a)
  PROVE  IInv'
<1>1. /\ a \in Procs /\ pc[a] = "admitted" /\ mine[a] = None /\ ~Begun(a) /\ pc[a] \in Owning
      /\ Settled /\ ObjectsKept /\ UNCHANGED evidence
  BY InvParts DEF Acquire, MineOf, Begun, Owning, Settled, ObjectsKept, provider
<1>2. InitialLease(a) \in Leases /\ InitialLease(a).own = a
  BY InitialTypes DEF InitialLease, LeaseValue
<1>3. \/ Fail(a) /\ lease' = lease
      \/ Fail(a) /\ lease' = InitialLease(a) /\ WireLease(a, InitialLease(a))
      \/ /\ Proceed(a, "acquired") /\ lease' = InitialLease(a)
         /\ WireLease(a, InitialLease(a)) /\ mine' = [mine EXCEPT ![a] = InitialLease(a)]
  BY <1>2, LeaseTypes DEF Acquire, PutLease
<1>4. LeaseMove(a) /\ lease' \in LeasesOrNone
  BY <1>1, <1>2, <1>3, InvParts, WireMoves DEF LeaseMove, TypeInv, LeasesOrNone
<1>5. CASE Fail(a)
  BY <1>1, <1>4, <1>5, FailStep, SettledSteady
<1>6. CASE /\ Proceed(a, "acquired") /\ lease' = InitialLease(a)
           /\ mine' = [mine EXCEPT ![a] = InitialLease(a)]
  BY <1>1, <1>2, <1>4, <1>6, ProceedStep
<1> QED BY <1>3, <1>5, <1>6

\* A put of a value that is not a first lease moves the stored lease.
LEMMA PutMoves ==
  ASSUME TypeInv, NEW p \in Procs, NEW val \in Leases, val.phase # "ACQUIRING",
         lease' = lease \/ (lease' = val /\ WireLease(p, val))
  PROVE  LeaseMove(p) /\ lease' \in LeasesOrNone
<1>1. CASE lease' = lease
  BY <1>1 DEF LeaseMove, TypeInv
<1>2. CASE lease' = val /\ WireLease(p, val)
  <2>1. lease = None => val = InitialLease(p)
    BY <1>2 DEF WireLease
  <2>2. InitialLease(p).phase = "ACQUIRING"
    BY DEF InitialLease, LeaseValue
  <2>3. lease # None
    BY <2>1, <2>2
  <2> QED BY <1>2, <2>3, WireMoves DEF LeasesOrNone
<1> QED BY <1>1, <1>2

\* What a put of an active lease by a runner leads to.
LEMMA OwnerPut ==
  ASSUME IInv, NEW a \in Attempts, pc[a] \in Owning,
         NEW val \in Leases, NEW newAge, NEW where \in {"intend", "check", "ready"},
         val.own = a, val.phase = "ACTIVE",
         PutLease(a, val, newAge, Proceed(a, where), Fail(a)),
         Settled, ObjectsKept, UNCHANGED evidence,
         where = "check" => val.tried \in Row /\ op[a][val.tried] = "none"
  PROVE  IInv'
<1>1. a \in Procs
  BY InvParts
<1>2. lease' = lease \/ (lease' = val /\ WireLease(a, val))
  BY DEF PutLease
<1>3. LeaseMove(a) /\ lease' \in LeasesOrNone
  BY <1>1, <1>2, InvParts, PutMoves
<1>4. CASE Fail(a)
  BY <1>3, <1>4, FailStep, SettledSteady
<1>5. CASE Proceed(a, where) /\ lease' = val /\ mine' = [mine EXCEPT ![a] = val]
  BY <1>3, <1>5, ProceedStep
<1>6. Fail(a) \/ (Proceed(a, where) /\ lease' = val /\ mine' = [mine EXCEPT ![a] = val])
  BY DEF PutLease
<1> QED BY <1>4, <1>5, <1>6

\* Activation.
LEMMA ActivateStep ==
  ASSUME IInv, NEW a \in Attempts, Activate(a)
  PROVE  IInv'
<1>1. /\ a \in Procs /\ pc[a] = "charged" /\ pc[a] \in Owning
      /\ Settled /\ ObjectsKept /\ UNCHANGED evidence
  BY InvParts DEF Activate, Owning, Settled, ObjectsKept, provider
<1>2. mine[a] \in Leases /\ mine[a].own = a
  BY <1>1, Holding
<1>3. PICK val : val = [mine[a] EXCEPT !.phase = "ACTIVE"]
  OBVIOUS
<1>4. val \in Leases /\ val.own = a /\ val.phase = "ACTIVE"
  BY <1>2, <1>3 DEF Leases
<1>5. PutLease(a, val, age, Proceed(a, "intend"), Fail(a))
  BY <1>3 DEF Activate
<1> QED BY <1>1, <1>4, <1>5, OwnerPut

\* The intent of the next row.
LEMMA IntendStep ==
  ASSUME IInv, NEW a \in Attempts, Intend(a)
  PROVE  IInv'
<1>1. /\ a \in Procs /\ pc[a] = "intend" /\ pc[a] \in Owning
      /\ Settled /\ ObjectsKept /\ UNCHANGED evidence
  BY InvParts DEF Intend, Owning, Working, Settled, ObjectsKept, provider
<1>2. mine[a] \in Leases /\ mine[a].own = a
  BY <1>1, Holding
<1>3. PICK r : r = mine[a].tried + 1
  OBVIOUS
<1>4. r \in Row /\ r \in 0..Rows
  <2>1. mine[a].tried < Rows
    BY DEF Intend
  <2>2. mine[a].tried \in 0..Rows
    BY <1>2, LeaseTypes
  <2> QED BY <1>3, <2>1, <2>2, ControlAssumption DEF Row
<1>5. PICK val : val = [mine[a] EXCEPT !.tried = r]
  OBVIOUS
<1>6. CASE Checkpoint(a) /\ op[a][r] = "none" /\ PutLease(a, val, age, Proceed(a, "check"), Fail(a))
  <2>1. val \in Leases /\ val.own = a /\ val.phase = "ACTIVE" /\ val.tried = r
    BY <1>2, <1>4, <1>5, <1>6 DEF Leases, Checkpoint
  <2> QED BY <1>1, <1>4, <1>6, <2>1, OwnerPut
<1>7. CASE Fail(a) /\ lease' = lease
  <2>1. LeaseMove(a) /\ lease' \in LeasesOrNone
    BY <1>7, InvParts DEF LeaseMove, TypeInv
  <2> QED BY <1>1, <1>7, <2>1, FailStep, SettledSteady
<1> QED BY <1>3, <1>5, <1>6, <1>7 DEF Intend

\* The id of the inserted row.
LEMMA AdoptStep ==
  ASSUME IInv, NEW a \in Attempts, Adopt(a)
  PROVE  IInv'
<1>1. /\ a \in Procs /\ pc[a] = "adopt" /\ pc[a] \in Owning
      /\ Settled /\ ObjectsKept /\ UNCHANGED evidence
  BY InvParts DEF Adopt, Owning, Working, Settled, ObjectsKept, provider
<1>2. mine[a] \in Leases /\ mine[a].own = a
  BY <1>1, Holding
<1>3. mine[a].tried \in Row
  BY <1>1, InvParts DEF InsertOf, Inserting
<1>4. PICK val : val = [mine[a] EXCEPT !.ids = @ \cup {mine[a].tried}]
  OBVIOUS
<1>5. PICK where : where = (IF mine[a].tried = Rows THEN "ready" ELSE "intend")
  OBVIOUS
<1>6. CASE Checkpoint(a) /\ PutLease(a, val, age, Proceed(a, where), Fail(a))
  <2>1. val \in Leases /\ val.own = a /\ val.phase = "ACTIVE"
    BY <1>2, <1>3, <1>4, <1>6 DEF Leases, Checkpoint
  <2> QED BY <1>1, <1>5, <1>6, <2>1, OwnerPut
<1>7. CASE Fail(a) /\ lease' = lease
  <2>1. LeaseMove(a) /\ lease' \in LeasesOrNone
    BY <1>7, InvParts DEF LeaseMove, TypeInv
  <2> QED BY <1>1, <1>7, <2>1, FailStep, SettledSteady
<1> QED BY <1>4, <1>5, <1>6, <1>7 DEF Adopt

\* The renewal writes the lease the owner already holds, or stops the beat.
LEMMA RenewStep ==
  ASSUME IInv, NEW a \in Attempts, Renew(a)
  PROVE  IInv'
<1>1. /\ a \in Procs /\ pc[a] \in Working /\ pc' = pc /\ cl' = cl
      /\ Settled /\ ObjectsKept /\ UNCHANGED evidence
  BY InvParts DEF Renew, Settled, ObjectsKept, provider
<1>2. mine[a] \in Leases /\ mine[a].own = a
  BY <1>1, Holding DEF Working
<1>3. /\ lease' = lease \/ (Checkpoint(a) /\ lease' = mine[a] /\ WireLease(a, mine[a]))
      /\ mine' = mine \/ mine' = [mine EXCEPT ![a] = mine[a]]
      /\ own' = own \/ own' = [own EXCEPT ![a].beat = FALSE]
  BY DEF Renew, PutLease
<1>4. mine' = mine
  BY <1>1, <1>3, InvParts DEF TypeInv
<1>5. LeaseMove(a) /\ lease' \in LeasesOrNone
  <2>1. PICK val : val = mine[a]
    OBVIOUS
  <2>2. CASE lease' = lease
    BY <2>2, InvParts DEF LeaseMove, TypeInv
  <2>3. CASE Checkpoint(a) /\ lease' = val /\ WireLease(a, val)
    <3>1. val \in Leases /\ val.phase # "ACQUIRING"
      BY <1>2, <2>1, <2>3 DEF Checkpoint
    <3> QED BY <1>1, <2>3, <3>1, InvParts, PutMoves
  <2> QED BY <1>3, <2>1, <2>2, <2>3
<1>6. OwnStep(a) /\ own'[a].cert = own[a].cert
  <2>1. CASE own' = own
    BY <2>1, OwnKept
  <2>2. CASE own' = [own EXCEPT ![a].beat = FALSE]
    <3>1. /\ own'[a] = [own[a] EXCEPT !.beat = FALSE]
          /\ own[a] \in [tickets : SUBSET Row, sent : SUBSET Row, cert : BOOLEAN, beat : BOOLEAN]
      BY <2>2, InvParts DEF TypeInv
    <3>2. own'[a].tickets = own[a].tickets /\ own'[a].sent = own[a].sent /\ own'[a].cert = own[a].cert
      BY <3>1
    <3>3. \A r \in own[a].tickets : r \in Row
      BY <3>1
    <3>4. own' \in [Attempts -> [tickets : SUBSET Row, sent : SUBSET Row,
                                 cert : BOOLEAN, beat : BOOLEAN]]
      BY ZenonT(30), <2>2, InvParts DEF TypeInv
    <3>5. \A b \in Attempts : b # a => own'[b] = own[b]
      BY <2>2, InvParts DEF TypeInv
    <3> QED BY <3>2, <3>3, <3>4, <3>5, InvParts DEF OwnStep, RowOf
  <2> QED BY <1>3, <2>1, <2>2
<1>7. pc[a] \in Owning /\ pc[a] \in Owned /\ Goto(a, pc[a])
  BY <1>1, InvParts DEF Owning, Owned, Goto, TypeInv
<1>8. InsertOf(a)'
  <2>1. InsertOf(a)
    BY InvParts
  <2>2. Leased(a) => /\ Leased(a)' /\ lease.tried \in Nat /\ lease'.tried \in Nat
                     /\ lease'.tried >= lease.tried
    BY <1>1, <1>5, InvParts, LeaseKept
  <2>3. mine[a].tried \in Nat
    BY <1>2, LeaseTypes
  <2>4. Leased(a) /\ mine[a].tried <= lease.tried => mine[a].tried <= lease'.tried
    BY <2>2, <2>3
  <2> QED BY <1>1, <1>4, <2>1, <2>2, <2>4 DEF InsertOf, Settled, ObjectsKept
<1>9. PassOf(a) /\ EvidenceStep(a)
  BY <1>1, InvParts DEF EvidenceStep, TypeInv
<1>10. ~own'[a].cert /\ (pc[a] = "certify" => evidence'[a] = Parts + 1)
  BY <1>1, <1>6, <1>9 DEF PassOf, Working, Cleaning
<1>11. marker' \subseteq Attempts \X Row /\ receipt' \subseteq Attempts \X Row /\ proof' = proof
  BY <1>1, InvParts DEF TypeInv, ObjectsKept
<1>12. mine[a] # None
  BY <1>2, LeaseTypes
<1>13. PICK where : where = pc[a]
  OBVIOUS
<1> QED
  BY <1>1, <1>4, <1>5, <1>6, <1>7, <1>8, <1>9, <1>10, <1>11, <1>12, <1>13, KeptGrow,
     OwnerStep, SettledSteady

\* A step of a runner that writes no lease.
LEMMA WorkStep ==
  ASSUME IInv, NEW a \in Attempts, Settled, RowsGrow(a), lease' = lease, mine' = mine, cl' = cl,
         pc[a] \in Working, NEW where \in Owned, Goto(a, where),
         marker' \subseteq Attempts \X Row, receipt' \subseteq Attempts \X Row, proof' = proof,
         EvidenceStep(a), OwnStep(a), InsertOf(a)',
         where = "certify" => evidence'[a] = Parts + 1,
         own'[a].cert => where = "claim" /\ evidence'[a] = Parts + 1 /\ ledger[a] # None
  PROVE  IInv'
<1>1. lease' \in LeasesOrNone /\ LeaseMove(a)
  BY InvParts DEF TypeInv, LeaseMove
<1>2. pc[a] \in Owning /\ mine[a] # None
  BY InvParts, Holding DEF Owning, Working
<1> QED BY <1>1, <1>2, OwnerStep, SettledSteady

\* A step of a runner that writes nothing but its own stage.
LEMMA StageStep ==
  ASSUME IInv, NEW a \in Attempts, Settled, ObjectsKept, UNCHANGED <<lease, mine, cl, own, evidence>>,
         pc[a] \in Working, NEW where \in Owned \ {"certify"}, Goto(a, where),
         InsertOf(a)'
  PROVE  IInv'
<1>1. a \in Procs /\ RowsGrow(a) /\ OwnStep(a) /\ EvidenceStep(a)
  BY InvParts, KeptGrow, OwnKept DEF EvidenceStep, TypeInv
<1>2. marker' \subseteq Attempts \X Row /\ receipt' \subseteq Attempts \X Row /\ proof' = proof
  BY InvParts DEF TypeInv, ObjectsKept
<1>3. ~own'[a].cert
  BY InvParts DEF PassOf, Working, Cleaning
<1> QED BY <1>1, <1>2, <1>3, WorkStep

\* A runner that turns to its cleanup has no row in hand.
LEMMA NoRowInHand ==
  ASSUME IInv, NEW a \in Attempts, NEW where \in Stages \ Inserting, Goto(a, where)
  PROVE  InsertOf(a)'
<1>1. pc'[a] = where
  BY InvParts DEF Goto, TypeInv
<1> QED BY <1>1 DEF InsertOf, Inserting, Unsent

\* The checks before the marker.
LEMMA CheckInsertStep ==
  ASSUME IInv, NEW a \in Attempts, CheckInsert(a)
  PROVE  IInv'
<1>1. /\ a \in Procs /\ pc[a] = "check" /\ pc[a] \in Working
      /\ Settled /\ ObjectsKept /\ UNCHANGED <<lease, mine, cl, own, evidence>>
  BY InvParts DEF CheckInsert, Working, Settled, ObjectsKept, provider, store
<1>2. CASE Goto(a, "claim")
  <2>1. InsertOf(a)'
    BY <1>2, NoRowInHand DEF Stages, Inserting, Unsent
  <2> QED BY <1>1, <1>2, <2>1, StageStep DEF Owned
<1>3. CASE Goto(a, "mark")
  <2>1. pc'[a] = "mark"
    BY <1>1, <1>3, InvParts DEF Goto, TypeInv
  <2>2. InsertOf(a)'
    BY <1>1, <2>1, InvParts DEF InsertOf, Inserting, Unsent, Settled
  <2> QED BY <1>1, <1>3, <2>2, StageStep DEF Owned, Working
<1> QED BY <1>2, <1>3 DEF CheckInsert

\* Ownership with the marker retained: an active lease has no proof yet.
LEMMA ConfirmInsertStep ==
  ASSUME IInv, NEW a \in Attempts, ConfirmInsert(a)
  PROVE  IInv'
<1>1. /\ a \in Procs /\ pc[a] = "confirm" /\ pc[a] \in Working
      /\ Settled /\ ObjectsKept /\ UNCHANGED <<lease, mine, cl, own, evidence>>
  BY InvParts DEF ConfirmInsert, Working, Settled, ObjectsKept, provider, store
<1>2. CASE Goto(a, "claim")
  <2>1. InsertOf(a)'
    BY <1>2, NoRowInHand DEF Stages, Inserting, Unsent
  <2> QED BY <1>1, <1>2, <2>1, StageStep DEF Owned
<1>3. CASE OwnedInsert(a, mine[a].tried) /\ Goto(a, "send")
  <2>1. pc'[a] = "send"
    BY <1>1, <1>3, InvParts DEF Goto, TypeInv
  <2>2. InsertOf(a) /\ mine[a].tried \in Row
    BY <1>1, InvParts DEF InsertOf, Inserting, Unsent
  <2>3. Leased(a) /\ lease.phase = "ACTIVE" /\ mine[a].tried <= lease.tried
    BY <1>3 DEF OwnedInsert, Current, Leased
  <2>4. <<a, mine[a].tried>> \notin proof
    BY <2>2, <2>3, InvParts DEF RowOf
  <2>5. InsertOf(a)'
    BY <1>1, <2>1, <2>2, <2>3, <2>4
       DEF InsertOf, Inserting, Unsent, Settled, ObjectsKept, Leased
  <2> QED BY <1>1, <1>3, <2>5, StageStep DEF Owned, Working
<1> QED BY <1>2, <1>3 DEF ConfirmInsert

\* The marker.
LEMMA PutMarkerStep ==
  ASSUME IInv, NEW a \in Attempts, PutMarker(a)
  PROVE  IInv'
<1>1. /\ a \in Procs /\ pc[a] = "mark" /\ pc[a] \in Working
      /\ Settled /\ UNCHANGED <<lease, mine, cl, evidence, proof, receipt, cleanups>>
      /\ own' = [own EXCEPT ![a].tickets = @ \cup {mine[a].tried}]
      /\ \/ Goto(a, "confirm") /\ marker' = marker \cup {<<a, mine[a].tried>>}
         \/ Goto(a, "claim") /\ marker' \in {marker, marker \cup {<<a, mine[a].tried>>}}
  BY InvParts DEF PutMarker, Working, Settled, provider
<1>2. InsertOf(a) /\ mine[a].tried \in Row /\ op[a][mine[a].tried] = "none"
  BY <1>1, InvParts DEF InsertOf, Inserting, Unsent
<1>3. RowsGrow(a) /\ marker' \subseteq Attempts \X Row /\ receipt' \subseteq Attempts \X Row
  BY <1>1, <1>2, InvParts DEF RowsGrow, TypeInv, RowOf
<1>4. OwnStep(a) /\ own'[a].cert = own[a].cert
  <2>1. /\ own'[a] = [own[a] EXCEPT !.tickets = @ \cup {mine[a].tried}]
        /\ own[a] \in [tickets : SUBSET Row, sent : SUBSET Row, cert : BOOLEAN, beat : BOOLEAN]
    BY <1>1, InvParts DEF TypeInv
  <2>2. /\ own'[a].tickets = own[a].tickets \cup {mine[a].tried}
        /\ own'[a].sent = own[a].sent /\ own'[a].cert = own[a].cert
    BY <2>1
  <2>3. \A r \in own[a].tickets : r \in Row
    BY <2>1
  <2>4. own' \in [Attempts -> [tickets : SUBSET Row, sent : SUBSET Row,
                               cert : BOOLEAN, beat : BOOLEAN]]
    <3>1. own'[a] \in [tickets : SUBSET Row, sent : SUBSET Row, cert : BOOLEAN, beat : BOOLEAN]
      BY <1>2, <2>1
    <3> QED BY <1>1, <3>1, InvParts DEF TypeInv
  <2>5. \A b \in Attempts : b # a => own'[b] = own[b]
    BY <1>1, InvParts DEF TypeInv
  <2> QED BY <1>2, <2>2, <2>3, <2>4, <2>5, InvParts DEF OwnStep, RowOf
<1>5. ~own'[a].cert /\ EvidenceStep(a)
  BY <1>1, <1>4, InvParts DEF PassOf, Working, Cleaning, EvidenceStep, TypeInv
<1>6. CASE Goto(a, "claim")
  <2>1. InsertOf(a)'
    BY <1>6, NoRowInHand DEF Stages, Inserting, Unsent
  <2> QED BY <1>1, <1>3, <1>4, <1>5, <1>6, <2>1, WorkStep DEF Owned
<1>7. CASE Goto(a, "confirm") /\ marker' = marker \cup {<<a, mine[a].tried>>}
  <2>1. pc'[a] = "confirm"
    BY <1>1, <1>7, InvParts DEF Goto, TypeInv
  <2>2. InsertOf(a)'
    BY <1>1, <1>2, <1>7, <2>1 DEF InsertOf, Inserting, Unsent, Settled
  <2> QED BY <1>1, <1>3, <1>4, <1>5, <1>7, <2>2, WorkStep DEF Owned, Working
<1> QED BY <1>1, <1>6, <1>7

\* The POST: the row is an intent of the stored lease, marked and not proved
\* unsubmitted, whatever happened since the checks.
LEMMA PostStep ==
  ASSUME IInv, NEW a \in Attempts, Post(a)
  PROVE  IInv'
<1>1. PICK r : r = mine[a].tried
  OBVIOUS
<1>2. /\ a \in Procs /\ pc[a] = "send"
      /\ op' = [op EXCEPT ![a][r] = "sent"] /\ own' = [own EXCEPT ![a].sent = @ \cup {r}]
      /\ pc' = [pc EXCEPT ![a] = "wait"]
      /\ UNCHANGED <<lease, ledger, marker, proof, receipt, cleanups, completion, evidence,
                     live, mine, cl, sealed>>
  BY <1>1, InvParts DEF Post, Goto, store
<1>3. /\ r \in Row /\ op[a][r] = "none" /\ <<a, r>> \in marker /\ <<a, r>> \notin proof
      /\ Leased(a) /\ r <= lease.tried /\ <<a, r>> \notin receipt
  BY <1>1, <1>2, InvParts DEF InsertOf, Inserting, Unsent, RowOf
<1>4. /\ pc'[a] = "wait" /\ \A q \in Procs : q # a => pc'[q] = pc[q]
      /\ op'[a][r] = "sent"
      /\ \A b \in Attempts, k \in Row : <<b, k>> # <<a, r>> => op'[b][k] = op[b][k]
      /\ op' \in [Attempts -> [Row -> OpStates]]
  BY <1>2, <1>3, InvParts DEF TypeInv, OpStates
<1>5. /\ own'[a].tickets = own[a].tickets /\ own'[a].sent = own[a].sent \cup {r}
      /\ own'[a].cert = own[a].cert
      /\ \A b \in Attempts : b # a => own'[b] = own[b]
      /\ own' \in [Attempts -> [tickets : SUBSET Row, sent : SUBSET Row,
                                cert : BOOLEAN, beat : BOOLEAN]]
  <2>1. /\ own'[a] = [own[a] EXCEPT !.sent = @ \cup {r}]
        /\ own[a] \in [tickets : SUBSET Row, sent : SUBSET Row, cert : BOOLEAN, beat : BOOLEAN]
    BY <1>2, InvParts DEF TypeInv
  <2>2. own'[a] \in [tickets : SUBSET Row, sent : SUBSET Row, cert : BOOLEAN, beat : BOOLEAN]
    BY <1>3, <2>1
  <2>3. /\ own' \in [Attempts -> [tickets : SUBSET Row, sent : SUBSET Row,
                                  cert : BOOLEAN, beat : BOOLEAN]]
        /\ \A b \in Attempts : b # a => own'[b] = own[b]
    BY <1>2, <2>2, InvParts DEF TypeInv
  <2> QED BY <2>1, <2>3
<1>6. TypeInv'
  BY <1>2, <1>4, <1>5, InvParts DEF TypeInv, Stages
<1>7. NothingLeaks'
  <2>1. \A b \in Attempts, k \in Row : op'[b][k] = op[b][k] \/ (b = a /\ k = r)
    BY <1>4
  <2> QED BY <1>2, <1>3, <2>1, InvParts DEF NothingLeaks, Leased
<1>8. \A b \in Attempts : Begun(b) = Begun(b)' /\ Leased(b) = Leased(b)' /\ (b # a => Gone(b) = Gone(b)')
  BY <1>2, <1>4, InvParts DEF Begun, Leased, Gone, TypeInv
<1>9. ASSUME NEW p \in Procs PROVE MineOf(p)' /\ WorkOf(p)'
  <2>1. mine[p] # None => mine[p].own \in Attempts
    BY Holding
  <2>2. MineOf(p)'
    BY <1>2, <1>4, <1>8, <2>1, InvParts DEF MineOf, Cleaning
  <2>3. ~cl[a].pass
    BY <1>2, InvParts DEF WorkOf
  <2>4. WorkOf(p)
    BY InvParts
  <2>5. CASE p = a
    BY <1>2, <1>4, <2>2, <2>3, <2>4, <2>5 DEF WorkOf, Resolved
  <2>6. CASE p # a
    BY <1>2, <1>4, <1>8, <2>2, <2>4, <2>6 DEF WorkOf, Resolved
  <2> QED BY <2>5, <2>6
<1>10. ASSUME NEW b \in Attempts PROVE InsertOf(b)' /\ PassOf(b)'
  <2>1. CASE b = a
    <3>1. ~own[a].cert /\ completion[a] # "PASS"
      BY <1>2, InvParts DEF PassOf, Cleaning
    <3> QED BY ZenonT(30), <1>1, <1>2, <1>3, <1>4, <1>5, <1>8, <2>1, <3>1, InvParts
            DEF InsertOf, PassOf, Inserting, Unsent
  <2>2. CASE b # a
    <3>1. InsertOf(b) /\ PassOf(b) /\ b \in Procs
      BY InvParts
    <3>2. InsertOf(b)'
      BY <1>2, <1>4, <1>8, <2>2, <3>1 DEF InsertOf, Inserting
    <3> QED BY <1>2, <1>4, <1>5, <1>8, <2>2, <3>1, <3>2 DEF PassOf
  <2> QED BY <2>1, <2>2
<1>11. ASSUME NEW b \in Attempts, NEW k \in Row PROVE RowOf(b, k)'
  <2>1. RowOf(b, k)
    BY InvParts
  <2>2. CASE b = a /\ k = r
    BY <1>2, <1>3, <1>4, <1>5, <2>2 DEF RowOf
  <2>3. CASE ~(b = a /\ k = r)
    BY <1>2, <1>4, <1>5, <1>8, <2>1, <2>3 DEF RowOf
  <2> QED BY <2>2, <2>3
<1> QED BY <1>6, <1>7, <1>9, <1>10, <1>11 DEF IInv, ProcInv, AttemptInv, RowInv

\* The receipt of an operation that is over, or a deadline.
LEMMA AwaitInsertStep ==
  ASSUME IInv, NEW a \in Attempts, AwaitInsert(a)
  PROVE  IInv'
<1>1. /\ a \in Procs /\ pc[a] = "wait" /\ pc[a] \in Working
      /\ Settled /\ UNCHANGED <<lease, mine, cl, own, evidence, proof, marker, cleanups>>
      /\ Goto(a, "adopt") \/ Goto(a, "claim")
      /\ \/ receipt' = receipt
         \/ /\ op[a][mine[a].tried] \in {"done", "partial", "failed"}
            /\ receipt' = receipt \cup {<<a, mine[a].tried>>}
  BY InvParts DEF AwaitInsert, Working, Settled, provider
<1>2. mine[a].tried \in Row
  BY <1>1, InvParts DEF InsertOf, Inserting
<1>3. RowsGrow(a) /\ marker' \subseteq Attempts \X Row /\ receipt' \subseteq Attempts \X Row
  BY <1>1, <1>2, InvParts DEF RowsGrow, TypeInv, RowOf
<1>4. OwnStep(a) /\ ~own'[a].cert /\ EvidenceStep(a)
  BY <1>1, InvParts, OwnKept DEF PassOf, Working, Cleaning, EvidenceStep, TypeInv
<1>5. CASE Goto(a, "claim")
  <2>1. InsertOf(a)'
    BY <1>5, NoRowInHand DEF Stages, Inserting, Unsent
  <2> QED BY <1>1, <1>3, <1>4, <1>5, <2>1, WorkStep DEF Owned
<1>6. CASE Goto(a, "adopt")
  <2>1. pc'[a] = "adopt"
    BY <1>1, <1>6, InvParts DEF Goto, TypeInv
  <2>2. InsertOf(a)'
    BY <1>1, <1>2, <2>1 DEF InsertOf, Inserting, Unsent
  <2> QED BY <1>1, <1>3, <1>4, <1>6, <2>2, WorkStep DEF Owned, Working
<1> QED BY <1>1, <1>5, <1>6

\* The member's run.
LEMMA RunMemberStep ==
  ASSUME IInv, NEW a \in Attempts, RunMember(a)
  PROVE  IInv'
<1>1. /\ pc[a] \in Working /\ Settled /\ ObjectsKept /\ UNCHANGED <<lease, mine, cl, own, evidence>>
  BY DEF RunMember, Working, Settled, ObjectsKept, provider, store
<1>2. PICK where \in {"publish", "claim"} : Goto(a, where)
  BY DEF RunMember
<1>3. InsertOf(a)'
  BY <1>2, NoRowInHand DEF Stages, Inserting, Unsent
<1>4. where \in Owned \ {"certify"}
  BY DEF Owned, Working
<1> QED BY <1>1, <1>2, <1>3, <1>4, StageStep

\* The evidence, object by object.
LEMMA PublishStep ==
  ASSUME IInv, NEW a \in Attempts, Publish(a)
  PROVE  IInv'
<1>1. /\ a \in Procs /\ pc[a] \in {"publish", "part"} /\ pc[a] \in Working
      /\ Settled /\ ObjectsKept /\ UNCHANGED <<lease, mine, cl, own>>
  BY InvParts DEF Publish, Working, Settled, ObjectsKept, provider
<1>2. /\ evidence' = evidence \/ evidence' = [evidence EXCEPT ![a] = @ + 1]
      /\ EvidenceStep(a)
  BY InvParts DEF Publish, EvidenceStep, TypeInv
<1>3. PICK where \in {"certify", "part", "claim"} :
        Goto(a, where) /\ (where = "certify" => evidence'[a] = Parts + 1)
  BY InvParts DEF Publish, TypeInv
<1>4. InsertOf(a)'
  BY <1>3, NoRowInHand DEF Stages, Inserting, Unsent
<1>5. RowsGrow(a) /\ OwnStep(a) /\ ~own'[a].cert
  BY <1>1, InvParts, KeptGrow, OwnKept DEF PassOf, Cleaning
<1>6. marker' \subseteq Attempts \X Row /\ receipt' \subseteq Attempts \X Row /\ proof' = proof
  BY <1>1, InvParts DEF TypeInv, ObjectsKept
<1>7. where \in Owned
  BY DEF Owned, Working
<1> QED BY <1>1, <1>2, <1>3, <1>4, <1>5, <1>6, <1>7, WorkStep

\* The certificate: all the evidence is retained and the charge is pending.
LEMMA CertifyStep ==
  ASSUME IInv, NEW a \in Attempts, Certify(a)
  PROVE  IInv'
<1>1. /\ a \in Procs /\ pc[a] = "certify" /\ pc[a] \in Working /\ Goto(a, "claim")
      /\ Settled /\ ObjectsKept /\ UNCHANGED <<lease, mine, cl, evidence>>
      /\ own' = own \/ (ledger[a] = "PENDING" /\ own' = [own EXCEPT ![a].cert = TRUE])
  BY InvParts DEF Certify, Checkpoint, Working, Settled, ObjectsKept, provider, store
<1>2. InsertOf(a)'
  BY <1>1, NoRowInHand DEF Stages, Inserting, Unsent
<1>3. evidence'[a] = Parts + 1 /\ EvidenceStep(a) /\ ~own[a].cert
  BY <1>1, InvParts DEF PassOf, EvidenceStep, TypeInv, Cleaning
<1>4. OwnStep(a)
  <2>1. CASE own' = own
    BY <2>1, OwnKept
  <2>2. CASE own' = [own EXCEPT ![a].cert = TRUE]
    <3>1. /\ own'[a] = [own[a] EXCEPT !.cert = TRUE]
          /\ own[a] \in [tickets : SUBSET Row, sent : SUBSET Row, cert : BOOLEAN, beat : BOOLEAN]
      BY <2>2, InvParts DEF TypeInv
    <3>2. own'[a].tickets = own[a].tickets /\ own'[a].sent = own[a].sent
      BY <3>1
    <3>3. \A r \in own[a].tickets : r \in Row
      BY <3>1
    <3>4. /\ own' \in [Attempts -> [tickets : SUBSET Row, sent : SUBSET Row,
                                    cert : BOOLEAN, beat : BOOLEAN]]
          /\ \A b \in Attempts : b # a => own'[b] = own[b]
      <4>1. own \in [Attempts -> [tickets : SUBSET Row, sent : SUBSET Row,
                                  cert : BOOLEAN, beat : BOOLEAN]]
        BY InvParts DEF TypeInv
      <4>2. [own[a] EXCEPT !.cert = TRUE] \in [tickets : SUBSET Row, sent : SUBSET Row,
                                               cert : BOOLEAN, beat : BOOLEAN]
        BY <3>1
      <4>3. own' = [own EXCEPT ![a] = [own[a] EXCEPT !.cert = TRUE]]
        BY <2>2
      <4> QED BY <4>1, <4>2, <4>3
    <3> QED BY <3>2, <3>3, <3>4, InvParts DEF OwnStep, RowOf
  <2> QED BY <1>1, <2>1, <2>2
<1>5. own'[a].cert => ledger[a] # None
  BY <1>1, <1>3, NoneAssumption
<1>6. marker' \subseteq Attempts \X Row /\ receipt' \subseteq Attempts \X Row /\ proof' = proof
  BY <1>1, InvParts DEF TypeInv, ObjectsKept
<1>7. RowsGrow(a) /\ "claim" \in Owned
  BY <1>1, KeptGrow DEF Owned
<1> QED BY <1>1, <1>2, <1>3, <1>4, <1>5, <1>6, <1>7, WorkStep

\* The charge, under the attempt's own lease.
LEMMA ReserveStep ==
  ASSUME IInv, NEW a \in Attempts, Reserve(a)
  PROVE  IInv'
<1>1. /\ a \in Procs /\ pc[a] = "acquired" /\ pc[a] \in Owning /\ mine[a] # None
      /\ ObjectsKept /\ UNCHANGED <<lease, evidence, op, live, sealed, completion>>
      /\ \/ ledger' = ledger
         \/ LedgerAdmitted(a, "ACQUIRING") /\ ledger' = [ledger EXCEPT ![a] = "PENDING"]
      /\ Fail(a) \/ (Proceed(a, "charged") /\ mine' = mine)
  BY InvParts, Holding DEF Reserve, PutLedger, Owning, ObjectsKept, provider
<1>2. Steady(a)
  <2>1. LedgerMove
    BY <1>1, InvParts DEF LedgerMove, LedgerAdmitted, Current, Reservable, Leased, TypeInv
  <2> QED BY <1>1, <2>1, InvParts DEF Steady, CompletionMove, TypeInv
<1>3. LeaseMove(a) /\ lease' \in LeasesOrNone
  BY <1>1, InvParts DEF LeaseMove, TypeInv
<1>4. CASE Fail(a)
  BY <1>1, <1>2, <1>3, <1>4, FailStep
<1>5. CASE Proceed(a, "charged") /\ mine' = mine
  <2>1. Goto(a, "charged") /\ own' = own /\ cl' = cl
    BY <1>5 DEF Proceed
  <2>2. InsertOf(a)'
    BY <2>1, NoRowInHand DEF Stages, Inserting, Unsent
  <2>3. OwnStep(a) /\ EvidenceStep(a) /\ ~own'[a].cert /\ RowsGrow(a)
    BY <1>1, <2>1, InvParts, OwnKept, KeptGrow DEF PassOf, Cleaning, EvidenceStep, TypeInv
  <2>4. marker' \subseteq Attempts \X Row /\ receipt' \subseteq Attempts \X Row /\ proof' = proof
    BY <1>1, InvParts DEF TypeInv, ObjectsKept
  <2>5. "charged" \in Owned /\ "charged" # "certify"
    BY DEF Owned
  <2> QED BY <1>1, <1>2, <1>3, <1>5, <2>1, <2>2, <2>3, <2>4, <2>5, OwnerStep
<1> QED BY <1>1, <1>4, <1>5

-----------------------------------------------------------------------------
(* The cleanup *)

\* A reconciler reads the stored lease.
LEMMA ReconcileStep ==
  ASSUME IInv, NEW w \in Reconcilers, Reconcile(w)
  PROVE  IInv'
<1>1. /\ w \in Procs /\ w \notin Attempts /\ pc[w] = "idle" /\ lease # None
      /\ pc' = [pc EXCEPT ![w] = "claim"] /\ mine' = [mine EXCEPT ![w] = lease]
      /\ Settled /\ ObjectsKept /\ UNCHANGED <<lease, evidence, own, cl>>
  BY ControlAssumption DEF Reconcile, Goto, Procs, Settled, ObjectsKept, provider
<1>2. lease \in Leases /\ lease.own \in Attempts
  BY <1>1, InvParts, LeaseTypes DEF TypeInv, LeasesOrNone
<1>3. TypeInv'
  BY <1>1, <1>2, InvParts DEF TypeInv, Stages, Settled, ObjectsKept, LeasesOrNone
<1>4. OnlyProc(w)
  BY <1>1, InvParts DEF OnlyProc, Begun, TypeInv
<1>5. LeaseMove(w)
  BY <1>1 DEF LeaseMove
<1>6. MineOf(w)'
  <2>1. Begun(lease.own)'
    BY <1>1, <1>2, InvParts DEF PassOf, Leased, Begun, TypeInv
  <2>2. pc'[w] = "claim" /\ mine'[w] = lease
    BY <1>1, InvParts DEF TypeInv
  <2> QED BY <1>1, <2>1, <2>2 DEF MineOf, Cleaning
<1>7. WorkOf(w)'
  <2>1. pc'[w] = "claim" /\ WorkOf(w) /\ mine[w] = None
    BY <1>1, InvParts DEF TypeInv, MineOf
  <2> QED BY <1>1, <2>1 DEF WorkOf
<1> QED BY <1>1, <1>3, <1>4, <1>5, <1>6, <1>7, ProcStep, KeptGrow, SettledSteady DEF OwnParts

\* The types of what a cleaner has done.
Work == [row : 0..Rows, resolved : SUBSET Row, errors : BOOLEAN, pass : BOOLEAN]

\* A step of a cleaner keeps the invariant when its work stays true, its lease
\* value agrees with the stored one, and a PASS it writes is its own and earned.
LEMMA CleanerStep ==
  ASSUME IInv, NEW p \in Procs, pc[p] \in Cleaning \cup {"claim"}, lease' \in LeasesOrNone,
         LeaseMove(p), Steady(p), RowsGrow(p), own' = own, evidence' = evidence,
         marker' \subseteq Attempts \X Row, receipt' \subseteq Attempts \X Row,
         proof' \subseteq Attempts \X Row,
         NEW where \in Cleaning, pc' = [pc EXCEPT ![p] = where],
         NEW work \in Work, cl' = [cl EXCEPT ![p] = work],
         NEW val \in Leases, mine' = [mine EXCEPT ![p] = val],
         val.own = mine[p].own, val.phase = "CLEANING",
         Leased(val.own)' => lease'.phase = "CLEANING" /\ lease'.tried = val.tried,
         WorkOf(p)',
         p \in Attempts /\ completion'[p] = "PASS" =>
           /\ where \in {"finish", "release"} /\ evidence[p] = Parts + 1
           /\ <<p, TRUE>> \in cleanups /\ Gone(p)
  PROVE  IInv'
<1>1. pc'[p] = where /\ cl'[p] = work /\ mine'[p] = val
  BY InvParts DEF TypeInv
<1>2. mine[p] # None /\ mine[p].own \in Attempts /\ (p \in Attempts => mine[p].own = p)
  BY Holding DEF Cleaning
<1>3. TypeInv'
  BY InvParts
     DEF TypeInv, Steady, LedgerMove, CompletionMove, Work, LeasesOrNone, Cleaning, Stages
<1>4. OnlyProc(p)
  BY <1>1, InvParts DEF OnlyProc, Begun, TypeInv, Cleaning
<1>5. MineOf(p)'
  <2>1. Begun(val.own)'
    <3>1. Begun(mine[p].own)
      BY <1>2, InvParts DEF MineOf
    <3> QED BY <1>1, <1>2, <3>1, InvParts DEF Begun, TypeInv, Cleaning
  <2>2. val # None
    BY LeaseTypes
  <2> QED BY <1>1, <1>2, <2>1, <2>2 DEF MineOf, Cleaning
<1>6. ASSUME p \in Attempts PROVE InsertOf(p)' /\ PassOf(p)'
  <2>1. PassOf(p) /\ Begun(p) /\ Begun(p)'
    BY <1>1, <1>6, InvParts DEF Begun, Cleaning
  <2>2. InsertOf(p)'
    BY <1>1 DEF InsertOf, Inserting, Unsent, Cleaning
  <2>3. /\ ledger[p] # None => ledger'[p] # None
        /\ ledger[p] = "PASS" => ledger'[p] = "PASS"
        /\ ledger'[p] \in {"PASS", "FAIL"} => completion'[p] = ledger'[p]
    BY <1>6, <2>1, NoneAssumption DEF PassOf, Steady, LedgerMove, CompletionMove
  <2>4. Leased(p)' <=> Leased(p)
    BY <1>6, <2>1, InvParts, LeaseKept
  <2>5. cleanups \subseteq cleanups' /\ (Gone(p) => Gone(p)')
    BY DEF RowsGrow, Steady, Gone
  <2> QED BY <1>1, <1>6, <2>1, <2>2, <2>3, <2>4, <2>5 DEF PassOf, Steady, Cleaning
<1>7. p \in Attempts => \A r \in own[p].tickets : op[p][r] # "none" => r \in own[p].sent
  BY InvParts DEF RowOf, TypeInv
<1> QED BY <1>3, <1>4, <1>5, <1>6, <1>7, ProcStep DEF OwnParts, Steady

\* A completion that was there is not PASS while its attempt is still cleaning.
LEMMA NotYetPassed ==
  ASSUME IInv, NEW p \in Procs, pc[p] \notin {"finish", "release", "ended"}
  PROVE  p \in Attempts => completion[p] # "PASS"
  BY InvParts DEF PassOf

\* The fence.
LEMMA ClaimCleanupStep ==
  ASSUME IInv, NEW p \in Procs, ClaimCleanup(p)
  PROVE  IInv'
<1>1. /\ pc[p] = "claim" /\ Settled /\ ObjectsKept /\ UNCHANGED evidence
  BY DEF ClaimCleanup, Settled, ObjectsKept, provider
<1>2. mine[p] \in Leases /\ mine[p].own \in Attempts
  BY <1>1, Holding
<1>3. PICK val : val = [mine[p] EXCEPT !.phase = "CLEANING"]
  OBVIOUS
<1>4. val \in Leases /\ val.own = mine[p].own /\ val.phase = "CLEANING" /\ val.tried = mine[p].tried
  BY <1>2, <1>3 DEF Leases
<1>5. PICK work : work = [row |-> mine[p].tried, resolved |-> {}, errors |-> FALSE, pass |-> FALSE]
  OBVIOUS
<1>6. work \in Work
  BY <1>2, <1>5, LeaseTypes DEF Work
<1>7. /\ lease' = lease \/ (lease' = val /\ WireLease(p, val))
      /\ \/ Leave(p)
         \/ /\ lease' = val /\ mine' = [mine EXCEPT ![p] = val]
            /\ pc' = [pc EXCEPT ![p] = "resolve"] /\ cl' = [cl EXCEPT ![p] = work] /\ own' = own
  BY <1>3, <1>5 DEF ClaimCleanup, PutLease, Goto
<1>8. LeaseMove(p) /\ lease' \in LeasesOrNone
  BY <1>4, <1>7, InvParts, PutMoves
<1>9. Steady(p) /\ completion' = completion /\ RowsGrow(p)
  BY <1>1, SettledSteady, KeptGrow
<1>10. CASE Leave(p)
  BY <1>1, <1>8, <1>9, <1>10, LeaveStep DEF ObjectsKept
<1>11. CASE /\ lease' = val /\ mine' = [mine EXCEPT ![p] = val]
            /\ pc' = [pc EXCEPT ![p] = "resolve"] /\ cl' = [cl EXCEPT ![p] = work] /\ own' = own
  <2>1. WorkOf(p)'
    BY <1>5, <1>11, InvParts DEF WorkOf, TypeInv
  <2>2. p \in Attempts => completion'[p] # "PASS"
    BY <1>1, <1>9, NotYetPassed
  <2>3. marker' \subseteq Attempts \X Row /\ receipt' \subseteq Attempts \X Row /\ proof' \subseteq Attempts \X Row
    BY <1>1, InvParts DEF TypeInv, ObjectsKept
  <2> QED BY <1>1, <1>4, <1>6, <1>8, <1>9, <1>11, <2>1, <2>2, <2>3, CleanerStep DEF Cleaning
<1> QED BY <1>7, <1>10, <1>11

\* Behind the fence the stored lease keeps its phase and its intents.
LEMMA FenceKept ==
  ASSUME IInv, NEW p \in Procs, pc[p] \in Cleaning, LeaseMove(p), NEW a, a = mine[p].own
  PROVE  Leased(a)' => lease'.phase = "CLEANING" /\ lease'.tried = mine[p].tried
<1>1. mine[p] # None /\ mine[p].own \in Attempts /\ MineOf(p)
  BY InvParts, Holding DEF Cleaning
<1>2. Begun(mine[p].own)
  BY <1>1 DEF MineOf
<1> QED BY <1>1, <1>2, InvParts, LeaseKept DEF MineOf

\* Behind the fence a row without a listed operation that is proved unsubmitted
\* was never sent and is not about to be.
LEMMA UnsubmittedIsNone ==
  ASSUME IInv, NEW p \in Procs, pc[p] = "resolve", NEW a \in Attempts, NEW r \in Row,
         Operation(p, a, r) = "UNSUBMITTED"
  PROVE  /\ op[a][r] = "none" /\ Leased(a) /\ lease.phase = "CLEANING"
         /\ ~(pc[a] = "send" /\ mine[a].tried = r)
<1>1. NotSubmitted(p, a, r)
  BY DEF Operation
<1>2. Leased(a) /\ lease.phase = "CLEANING"
  BY <1>1 DEF NotSubmitted, Leased
<1>3. RowOf(a, r) /\ InsertOf(a)
  BY InvParts
<1>4. op[a][r] = "none"
  BY <1>1, <1>3 DEF NotSubmitted, NeverDispatched, RowOf
<1>5. ASSUME pc[a] = "send", mine[a].tried = r PROVE FALSE
  BY <1>1, <1>3, <1>5 DEF NotSubmitted, NeverDispatched, InsertOf
<1> QED BY <1>2, <1>4, <1>5

\* One row: its operation is resolved, its id adopted.
LEMMA ResolveRowStep ==
  ASSUME IInv, NEW p \in Procs, ResolveRow(p)
  PROVE  IInv'
<1>1. PICK a, r, state : a = mine[p].own /\ r = cl[p].row /\ state = Operation(p, a, r)
  OBVIOUS
<1>2. /\ pc[p] = "resolve" /\ r > 0 /\ Settled /\ own' = own
      /\ UNCHANGED <<marker, cleanups, evidence>>
      /\ receipt' = IF state = "DONE" THEN receipt \cup {<<a, r>>} ELSE receipt
      /\ proof' = IF state = "UNSUBMITTED" THEN proof \cup {<<a, r>>} ELSE proof
  BY <1>1 DEF ResolveRow, Settled, provider
<1>3. /\ mine[p] \in Leases /\ a \in Attempts /\ mine[p].phase = "CLEANING"
      /\ cl[p] \in Work /\ r \in Row /\ r - 1 \in 0..Rows /\ ~cl[p].pass
  <2>1. mine[p] \in Leases /\ a \in Attempts /\ mine[p].phase = "CLEANING"
    BY <1>1, <1>2, InvParts, Holding DEF MineOf, Cleaning
  <2>2. cl[p] \in Work /\ ~cl[p].pass
    BY <1>2, InvParts DEF TypeInv, Work, WorkOf
  <2>3. r \in 0..Rows
    BY <1>1, <2>2 DEF Work
  <2> QED BY <1>2, <2>1, <2>2, <2>3, ControlAssumption DEF Row
<1>4. RowsGrow(p)
  <2>1. state = "DONE" => op[a][r] \in {"done", "partial", "failed"}
    BY <1>1 DEF Operation
  <2>2. state = "UNSUBMITTED" =>
          /\ op[a][r] = "none" /\ Leased(a) /\ lease.phase = "CLEANING"
          /\ ~(pc[a] = "send" /\ mine[a].tried = r)
    BY <1>1, <1>2, <1>3, UnsubmittedIsNone
  <2>3. Begun(a)
    BY <1>1, <1>3, InvParts, LeaseTypes DEF MineOf
  <2> QED BY <1>2, <1>3, <2>1, <2>2, <2>3, InvParts DEF RowsGrow, RowOf
<1>5. PICK val : val = IF state = "DONE" /\ op[a][r] # "failed"
                       THEN [mine[p] EXCEPT !.ids = @ \cup {r}] ELSE mine[p]
  OBVIOUS
<1>6. val \in Leases /\ val.own = a /\ val.phase = "CLEANING" /\ val.tried = mine[p].tried
  <2>1. [mine[p] EXCEPT !.ids = @ \cup {r}] \in Leases
    BY <1>3, LeaseTypes
  <2> QED BY <1>1, <1>3, <1>5, <2>1 DEF Leases
<1>7. PICK good, bad, seen :
        /\ good = [cl[p] EXCEPT !.row = @ - 1, !.resolved = @ \cup {r}]
        /\ bad = [cl[p] EXCEPT !.row = @ - 1, !.errors = TRUE]
        /\ seen = [cl[p] EXCEPT !.resolved = @ \cup {r}]
  OBVIOUS
<1>8. /\ good \in Work /\ bad \in Work /\ seen \in Work /\ seen.row = r
      /\ good.resolved = cl[p].resolved \cup {r} /\ seen.resolved = cl[p].resolved \cup {r}
      /\ bad.resolved = cl[p].resolved /\ ~good.pass /\ ~bad.pass /\ ~seen.pass
  BY <1>1, <1>3, <1>7 DEF Work
<1>9. /\ [[cl EXCEPT ![p].row = @ - 1] EXCEPT ![p].resolved = @ \cup {r}] = [cl EXCEPT ![p] = good]
      /\ [[cl EXCEPT ![p].row = @ - 1] EXCEPT ![p].errors = TRUE] = [cl EXCEPT ![p] = bad]
      /\ [cl EXCEPT ![p].resolved = @ \cup {r}] = [cl EXCEPT ![p] = seen]
  <2>1. [[cl EXCEPT ![p].row = @ - 1] EXCEPT ![p].resolved = @ \cup {r}] = [cl EXCEPT ![p] = good]
    BY ZenonT(30), <1>7, InvParts DEF TypeInv
  <2>2. [[cl EXCEPT ![p].row = @ - 1] EXCEPT ![p].errors = TRUE] = [cl EXCEPT ![p] = bad]
    BY ZenonT(30), <1>7, InvParts DEF TypeInv
  <2>3. [cl EXCEPT ![p].resolved = @ \cup {r}] = [cl EXCEPT ![p] = seen]
    BY ZenonT(30), <1>7, InvParts DEF TypeInv
  <2> QED BY <2>1, <2>2, <2>3
<1>10. /\ lease' = lease \/ (lease' = val /\ WireLease(p, val))
       /\ \/ /\ cl' = [cl EXCEPT ![p] = bad] /\ pc' = pc /\ mine' = mine
          \/ /\ state \in {"DONE", "UNSUBMITTED"} /\ mine' = [mine EXCEPT ![p] = val]
             /\ \/ pc' = [pc EXCEPT ![p] = "delete"] /\ cl' = [cl EXCEPT ![p] = seen]
                \/ pc' = pc /\ cl' = [cl EXCEPT ![p] = good]
  BY <1>1, <1>5, <1>9 DEF ResolveRow, PutLease, Goto
<1>11. LeaseMove(p) /\ lease' \in LeasesOrNone
  BY <1>6, <1>10, InvParts, PutMoves
<1>12. /\ Leased(a)' => lease'.phase = "CLEANING" /\ lease'.tried = mine[p].tried
       /\ Steady(p) /\ completion' = completion /\ (p \in Attempts => completion'[p] # "PASS")
  BY <1>1, <1>2, <1>11, FenceKept, SettledSteady, NotYetPassed DEF Cleaning
<1>13. /\ marker' \subseteq Attempts \X Row /\ receipt' \subseteq Attempts \X Row
       /\ proof' \subseteq Attempts \X Row
  BY <1>2, <1>3, InvParts DEF TypeInv
<1>14. /\ pc = [pc EXCEPT ![p] = "resolve"] /\ mine = [mine EXCEPT ![p] = mine[p]]
  BY <1>2, InvParts DEF TypeInv
<1>15. CASE cl' = [cl EXCEPT ![p] = bad] /\ pc' = pc /\ mine' = mine
  <2>1. WorkOf(p)'
    <3>1. cl'[p] = bad
      BY <1>15, InvParts DEF TypeInv
    <3>2. WorkOf(p)
      BY InvParts
    <3> QED BY <1>2, <1>4, <1>8, <1>15, <3>1, <3>2 DEF WorkOf, RowsGrow, Resolved
  <2> QED BY <1>1, <1>2, <1>3, <1>4, <1>8, <1>11, <1>12, <1>13, <1>14, <1>15, <2>1, CleanerStep
          DEF Cleaning
<1>16. ASSUME state \in {"DONE", "UNSUBMITTED"}, mine' = [mine EXCEPT ![p] = val],
              NEW work \in {good, seen}, cl' = [cl EXCEPT ![p] = work],
              NEW where \in {"resolve", "delete"}, pc' = [pc EXCEPT ![p] = where],
              where = "delete" => work = seen
       PROVE  IInv'
  <2>1. WorkOf(p)'
    <3>1. cl'[p] = work /\ mine'[p] = val /\ val # None /\ (pc'[p] = "delete" => work = seen)
      BY <1>6, <1>16, InvParts, LeaseTypes DEF TypeInv
    <3>2. work.resolved = cl[p].resolved \cup {r} /\ ~work.pass
      BY <1>8, <1>16
    <3>3. <<a, r>> \in receipt' \/ <<a, r>> \in proof'
      BY <1>2, <1>16
    <3>4. \A k \in cl[p].resolved : <<a, k>> \in receipt' \/ <<a, k>> \in proof'
      BY <1>1, <1>4, InvParts DEF WorkOf, RowsGrow, Resolved
    <3> QED BY <1>2, <1>6, <1>8, <3>1, <3>2, <3>3, <3>4 DEF WorkOf, Resolved
  <2>2. work \in Work
    BY <1>8, <1>16
  <2> QED BY <1>1, <1>2, <1>4, <1>6, <1>11, <1>12, <1>13, <1>16, <2>1, <2>2, CleanerStep
          DEF Cleaning
<1> QED BY <1>10, <1>14, <1>15, <1>16

\* A step of a cleaner that writes neither the lease nor an object of a row.
LEMMA ProgressStep ==
  ASSUME IInv, NEW p \in Procs, pc[p] \in Cleaning, Steady(p), marker' = marker, proof' = proof,
         receipt' = receipt, cleanups \subseteq cleanups', UNCHANGED <<lease, own, evidence, mine>>,
         NEW where \in Cleaning, pc' = [pc EXCEPT ![p] = where],
         NEW work \in Work, cl' = [cl EXCEPT ![p] = work],
         WorkOf(p)',
         p \in Attempts /\ completion'[p] = "PASS" =>
           /\ where \in {"finish", "release"} /\ evidence[p] = Parts + 1
           /\ <<p, TRUE>> \in cleanups /\ Gone(p)
  PROVE  IInv'
<1>1. LeaseMove(p) /\ lease' \in LeasesOrNone
  BY InvParts DEF LeaseMove, TypeInv
<1>2. PICK val : val = mine[p]
  OBVIOUS
<1>3. /\ val \in Leases /\ val.phase = "CLEANING" /\ mine' = [mine EXCEPT ![p] = val]
      /\ val.own = mine[p].own
  BY ZenonT(30), <1>2, InvParts, Holding DEF MineOf, Cleaning, TypeInv
<1>4. Leased(val.own)' => lease'.phase = "CLEANING" /\ lease'.tried = val.tried
  BY <1>1, <1>2, FenceKept
<1>5. RowsGrow(p)
  BY InvParts DEF RowsGrow, RowOf
<1>6. /\ marker' \subseteq Attempts \X Row /\ receipt' \subseteq Attempts \X Row
      /\ proof' \subseteq Attempts \X Row
  BY InvParts DEF TypeInv
<1> QED BY <1>1, <1>3, <1>4, <1>5, <1>6, CleanerStep

\* The deletion of a row's resource.
LEMMA DeleteRowStep ==
  ASSUME IInv, NEW p \in Procs, DeleteRow(p)
  PROVE  IInv'
<1>1. PICK bad, next : /\ bad = [cl[p] EXCEPT !.row = @ - 1, !.errors = TRUE]
                       /\ next = [cl[p] EXCEPT !.row = @ - 1]
  OBVIOUS
<1>2. /\ [[cl EXCEPT ![p].row = @ - 1] EXCEPT ![p].errors = TRUE] = [cl EXCEPT ![p] = bad]
      /\ [cl EXCEPT ![p].row = @ - 1] = [cl EXCEPT ![p] = next]
  BY <1>1, InvParts DEF TypeInv
<1>3. /\ pc[p] = "delete" /\ pc' = [pc EXCEPT ![p] = "resolve"]
      /\ UNCHANGED <<lease, ledger, marker, proof, receipt, cleanups, completion, evidence,
                     op, mine, own, sealed>>
      /\ live' \subseteq live
      /\ cl' = [cl EXCEPT ![p] = bad] \/ cl' = [cl EXCEPT ![p] = next]
  BY <1>2 DEF DeleteRow, Goto, store
<1>4. cl[p] \in Work /\ cl[p].row > 0 /\ ~cl[p].pass
  BY <1>3, InvParts DEF TypeInv, Work, WorkOf
<1>5. PICK work \in {bad, next} : cl' = [cl EXCEPT ![p] = work]
  BY <1>3
<1>6. work \in Work /\ work.resolved = cl[p].resolved /\ ~work.pass
  <2>1. cl[p].row - 1 \in 0..Rows
    BY <1>4, ControlAssumption DEF Work
  <2>2. /\ bad \in Work /\ bad.resolved = cl[p].resolved /\ ~bad.pass
        /\ next \in Work /\ next.resolved = cl[p].resolved /\ ~next.pass
    BY <1>1, <1>4, <2>1 DEF Work
  <2> QED BY <1>5, <2>2
<1>7. WorkOf(p)'
  <2>1. cl'[p] = work /\ pc'[p] = "resolve" /\ WorkOf(p)
    BY <1>3, <1>5, InvParts DEF TypeInv
  <2> QED BY <1>3, <1>6, <2>1 DEF WorkOf, Resolved
<1>8. Steady(p) /\ (p \in Attempts => completion'[p] # "PASS")
  BY <1>3, InvParts, NotYetPassed DEF Steady, LedgerMove, CompletionMove, TypeInv
<1> QED BY <1>3, <1>5, <1>6, <1>7, <1>8, ProgressStep DEF Cleaning

\* A cleanup that passes left nothing behind, and nothing on its way.
LEMMA PassedIsGone ==
  ASSUME IInv, NEW a \in Attempts, pc[a] = "resolve", CleanupPass(a)
  PROVE  Gone(a)
<1>1. a \in Procs /\ mine[a] \in Leases /\ mine[a].own = a /\ mine[a].tried \in Nat
  BY InvParts, Holding, LeaseTypes
<1>2. SUFFICES ASSUME NEW r \in Row PROVE <<a, r>> \notin live /\ op[a][r] \notin {"sent", "running"}
  BY DEF Gone
<1>3. CASE r <= mine[a].tried
  <2>1. r \in 1..mine[a].tried
    BY <1>1, <1>3, ControlAssumption DEF Row
  <2>2. r \in cl[a].resolved /\ <<a, r>> \notin live
    BY <1>1, <2>1 DEF CleanupPass, Described
  <2>3. <<a, r>> \in receipt \/ <<a, r>> \in proof
    BY <1>1, <2>2, InvParts DEF WorkOf, Resolved
  <2> QED BY <2>2, <2>3, InvParts DEF RowOf
<1>4. CASE ~(r <= mine[a].tried)
  <2>1. Leased(a) => lease.tried = mine[a].tried
    BY <1>1, InvParts DEF MineOf, Cleaning
  <2> QED BY <1>4, <2>1, InvParts DEF NothingLeaks, Leased
<1> QED BY <1>3, <1>4

\* The outcome of the cleanup.
LEMMA CheckAbsenceStep ==
  ASSUME IInv, NEW p \in Procs, CheckAbsence(p)
  PROVE  IInv'
<1>1. PICK work : work = [cl[p] EXCEPT !.pass = CleanupPass(p)]
  OBVIOUS
<1>2. [cl EXCEPT ![p].pass = CleanupPass(p)] = [cl EXCEPT ![p] = work]
  BY <1>1, InvParts DEF TypeInv
<1>3. /\ pc[p] = "resolve" /\ pc' = [pc EXCEPT ![p] = "conclude"] /\ cl' = [cl EXCEPT ![p] = work]
      /\ cleanups' = cleanups \cup {<<mine[p].own, CleanupPass(p)>>}
      /\ UNCHANGED <<lease, ledger, marker, proof, receipt, completion, evidence,
                     op, live, mine, own, sealed>>
  BY <1>2 DEF CheckAbsence, Goto, provider
<1>4. CleanupPass(p) \in BOOLEAN
  BY DEF CleanupPass
<1>5. work \in Work /\ work.resolved = cl[p].resolved /\ (work.pass <=> CleanupPass(p))
  BY ZenonT(30), <1>1, <1>4, InvParts DEF TypeInv, Work
<1>6. WorkOf(p)'
  <2>1. cl'[p] = work /\ pc'[p] = "conclude" /\ WorkOf(p)
    BY <1>3, InvParts DEF TypeInv
  <2>2. p \in Attempts /\ CleanupPass(p) => Gone(p)'
    BY <1>3, PassedIsGone DEF Gone
  <2>3. CleanupPass(p) => <<mine[p].own, TRUE>> \in cleanups'
    BY <1>3, <1>4
  <2> QED BY <1>3, <1>5, <2>1, <2>2, <2>3 DEF WorkOf, Resolved
<1>7. Steady(p) /\ (p \in Attempts => completion'[p] # "PASS") /\ cleanups \subseteq cleanups'
  BY <1>3, InvParts, NotYetPassed DEF Steady, LedgerMove, CompletionMove, TypeInv
<1> QED BY <1>3, <1>5, <1>6, <1>7, ProgressStep DEF Cleaning

\* The completion: PASS only by the owner, with its certificate and a passed
\* cleanup.
LEMMA ConcludeStep ==
  ASSUME IInv, NEW p \in Procs, Conclude(p)
  PROVE  IInv'
<1>1. /\ pc[p] = "conclude"
      /\ UNCHANGED <<lease, ledger, marker, proof, receipt, cleanups, evidence, op, live, sealed>>
      /\ \/ completion' = completion
         \/ /\ completion[mine[p].own] = None
            /\ completion' = [completion EXCEPT ![mine[p].own] = Outcome(p)]
      /\ \/ pc' = [pc EXCEPT ![p] = "finish"] /\ UNCHANGED <<mine, own, cl>>
         \/ Leave(p)
  BY DEF Conclude, Goto, provider
<1>2. mine[p] # None /\ mine[p].own \in Attempts /\ (p \in Attempts => mine[p].own = p)
  BY <1>1, Holding
<1>3. Outcome(p) \in {"PASS", "FAIL"} /\ (Outcome(p) = "PASS" => p \in Attempts /\ own[p].cert /\ cl[p].pass)
  BY DEF Outcome
<1>4. Steady(p)
  BY <1>1, <1>2, <1>3, InvParts DEF Steady, LedgerMove, CompletionMove, TypeInv
<1>5. p \in Attempts /\ completion'[p] = "PASS" =>
        evidence[p] = Parts + 1 /\ <<p, TRUE>> \in cleanups /\ Gone(p)
  <2>1. p \in Attempts => completion[p] # "PASS"
    BY <1>1, NotYetPassed
  <2>2. p \in Attempts /\ completion'[p] = "PASS" => Outcome(p) = "PASS"
    BY <1>1, <1>2, <2>1, InvParts DEF TypeInv
  <2>3. p \in Attempts /\ Outcome(p) = "PASS" =>
          evidence[p] = Parts + 1 /\ <<p, TRUE>> \in cleanups /\ Gone(p)
    BY <1>2, <1>3, InvParts DEF PassOf, WorkOf
  <2> QED BY <2>2, <2>3
<1>6. LeaseMove(p) /\ lease' \in LeasesOrNone
  BY <1>1, InvParts DEF LeaseMove, TypeInv
<1>7. CASE Leave(p)
  BY <1>1, <1>4, <1>5, <1>6, <1>7, LeaveStep
<1>8. CASE pc' = [pc EXCEPT ![p] = "finish"] /\ UNCHANGED <<mine, own, cl>>
  <2>1. PICK work : work = cl[p]
    OBVIOUS
  <2>2. work \in Work /\ cl' = [cl EXCEPT ![p] = work] /\ pc'[p] = "finish"
    BY <1>8, <2>1, InvParts DEF TypeInv, Work
  <2>3. WorkOf(p)'
    BY <1>1, <1>8, <2>2, InvParts DEF WorkOf, Resolved, Gone
  <2> QED BY <1>1, <1>4, <1>5, <1>8, <2>2, <2>3, ProgressStep DEF Cleaning
<1> QED BY <1>1, <1>7, <1>8

\* The terminal ledger event is the retained completion.
LEMMA FinishStep ==
  ASSUME IInv, NEW p \in Procs, Finish(p)
  PROVE  IInv'
<1>1. PICK a : a = mine[p].own
  OBVIOUS
<1>2. /\ pc[p] = "finish"
      /\ UNCHANGED <<lease, marker, proof, receipt, cleanups, completion, evidence, op, live, sealed>>
      /\ \/ ledger' = ledger
         \/ /\ ledger[a] = "PENDING" /\ completion[a] # None
            /\ ledger' = [ledger EXCEPT ![a] = completion[a]]
      /\ \/ pc' = [pc EXCEPT ![p] = "release"] /\ UNCHANGED <<mine, own, cl>>
         \/ Leave(p)
  BY <1>1 DEF Finish, LedgerAdmitted, PutLedger, Goto, provider
<1>3. a \in Attempts
  BY <1>1, <1>2, Holding
<1>4. Steady(p)
  BY <1>2, <1>3, InvParts DEF Steady, LedgerMove, CompletionMove, TypeInv
<1>5. LeaseMove(p) /\ lease' \in LeasesOrNone
  BY <1>2, InvParts DEF LeaseMove, TypeInv
<1>6. CASE Leave(p)
  BY <1>2, <1>4, <1>5, <1>6, LeaveStep
<1>7. CASE pc' = [pc EXCEPT ![p] = "release"] /\ UNCHANGED <<mine, own, cl>>
  <2>1. PICK work : work = cl[p]
    OBVIOUS
  <2>2. work \in Work /\ cl' = [cl EXCEPT ![p] = work] /\ pc'[p] = "release"
    BY <1>7, <2>1, InvParts DEF TypeInv, Work
  <2>3. WorkOf(p)'
    BY <1>2, <1>7, <2>2, InvParts DEF WorkOf, Resolved, Gone
  <2>4. p \in Attempts /\ completion'[p] = "PASS" =>
          evidence[p] = Parts + 1 /\ <<p, TRUE>> \in cleanups /\ Gone(p)
    BY <1>2, InvParts DEF PassOf
  <2> QED BY <1>2, <1>4, <1>7, <2>2, <2>3, <2>4, ProgressStep DEF Cleaning
<1> QED BY <1>2, <1>6, <1>7

\* The release: nothing of the attempt is left, and no insert is on its way.
LEMMA ReleaseStep ==
  ASSUME IInv, NEW p \in Procs, Release(p)
  PROVE  IInv'
<1>1. /\ pc[p] = "release" /\ Leave(p)
      /\ UNCHANGED <<ledger, marker, proof, receipt, cleanups, completion, evidence, op, live>>
      /\ \/ lease' = lease /\ sealed' = sealed
         \/ /\ ReleaseAdmitted(p) /\ lease' = None
            /\ sealed' = sealed \/ (Sealable(p) /\ sealed' = sealed \cup {mine[p].own})
  BY DEF Release, provider
<1>2. CASE lease' = lease /\ sealed' = sealed
  <2>1. LeaseMove(p) /\ lease' \in LeasesOrNone /\ Settled
    BY <1>1, <1>2, InvParts DEF LeaseMove, TypeInv, Settled
  <2> QED BY <1>1, <2>1, LeaveStep, SettledSteady
<1>3. CASE /\ ReleaseAdmitted(p) /\ lease' = None
           /\ sealed' = sealed \/ (Sealable(p) /\ sealed' = sealed \cup {mine[p].own})
  <2>1. PICK a : a = mine[p].own
    OBVIOUS
  <2>2. /\ a \in Attempts /\ Leased(a) /\ \A b \in Attempts : Leased(b) => b = a
        /\ ledger[a] # "PENDING" /\ lease.tried \in Nat
        /\ \A r \in Row : r =< lease.tried => <<a, r>> \notin live /\ Resolved(a, r)
    <3>1. a \in Attempts /\ lease # None /\ lease = mine[p] /\ mine[p] \in Leases
      BY <1>1, <1>3, <2>1, Holding DEF ReleaseAdmitted
    <3>2. lease.tried \in Nat
      BY <3>1, LeaseTypes
    <3>3. \A r \in Row : r =< lease.tried => r \in 1..lease.tried
      BY <3>2, ControlAssumption DEF Row
    <3> QED BY <1>3, <2>1, <3>1, <3>2, <3>3 DEF ReleaseAdmitted, Leased, Described
  <2>3. \A r \in Row : Resolved(a, r) => op[a][r] \notin {"sent", "running"}
    BY <2>2, InvParts DEF Resolved, RowOf
  <2>4. \A b \in Attempts : ledger[b] # "PENDING" /\ Gone(b)
    BY <2>2, <2>3, InvParts DEF NothingLeaks, Leased, Gone
  <2>5. \A b \in Attempts : pc[b] # "send"
    <3>1. ASSUME NEW b \in Attempts, pc[b] = "send" PROVE FALSE
      <4>1. /\ mine[b].tried \in Row /\ op[b][mine[b].tried] = "none" /\ Leased(b)
            /\ mine[b].tried <= lease.tried /\ <<b, mine[b].tried>> \notin proof
        BY <3>1, InvParts DEF InsertOf, Inserting, Unsent
      <4>2. <<b, mine[b].tried>> \in receipt
        BY <2>2, <4>1 DEF Resolved
      <4> QED BY <4>1, <4>2, InvParts DEF RowOf
    <3> QED BY <3>1
  <2>6. /\ pc'[p] = (IF p \in Attempts THEN "ended" ELSE "idle")
        /\ mine'[p] = None /\ cl'[p] = NoWork
        /\ p \in Attempts => own'[p] = NoMemory
        /\ \A q \in Procs : q # p =>
             /\ pc'[q] = pc[q] /\ mine'[q] = mine[q] /\ cl'[q] = cl[q]
             /\ q \in Attempts => own'[q] = own[q]
    BY <1>1, InvParts DEF Leave, Goto, TypeInv
  <2>7. TypeInv'
    <3>1. sealed' \subseteq Attempts
      BY <1>3, <2>1, <2>2, InvParts DEF TypeInv
    <3> QED BY <1>1, <1>3, <3>1, InvParts, MemoryTypes
            DEF TypeInv, Leave, Goto, Stages, LeasesOrNone
  <2>8. \A b \in Attempts : ~Leased(b)' /\ (Begun(b) => Begun(b)') /\ b \in Procs
    BY <1>3, <2>6, InvParts DEF Leased, Begun
  <2>9. NothingLeaks'
    BY <1>1, <2>4 DEF NothingLeaks, Gone
  <2>10. ASSUME NEW q \in Procs PROVE MineOf(q)' /\ WorkOf(q)'
    <3>1. CASE q = p
      BY <2>6, <3>1, MemoryTypes, InvParts DEF MineOf, WorkOf, Cleaning, Procs
    <3>2. CASE q # p
      <4>1. MineOf(q) /\ WorkOf(q) /\ (mine[q] # None => mine[q].own \in Attempts)
        BY InvParts, Holding
      <4>2. MineOf(q)'
        BY <2>6, <2>8, <3>2, <4>1 DEF MineOf, Cleaning
      <4> QED BY <1>1, <2>6, <3>2, <4>1, <4>2 DEF WorkOf, Resolved, Gone
    <3> QED BY <3>1, <3>2
  <2>11. ASSUME NEW b \in Attempts PROVE InsertOf(b)'
    <3>1. CASE b = p
      BY <2>6, <3>1 DEF InsertOf, Inserting, Unsent
    <3>2. CASE b # p
      BY <1>1, <2>5, <2>6, <2>8, <3>2, InvParts DEF InsertOf, Inserting, Unsent
    <3> QED BY <3>1, <3>2
  <2>12. ASSUME NEW b \in Attempts PROVE PassOf(b)'
    <3>1. PassOf(b) /\ Gone(b)' = Gone(b)
      BY <1>1, InvParts DEF Gone
    <3>2. b \in sealed' => ledger[b] = "PASS"
      <4>1. CASE b \in sealed
        BY <4>1, <3>1 DEF PassOf
      <4>2. CASE b \notin sealed /\ b \in sealed'
        <5>1. b = a /\ Sealable(p) /\ b = p
          BY <1>1, <1>3, <2>1, <4>2, Holding DEF Sealable
        <5>2. own[b].cert /\ completion[b] = "PASS"
          BY <5>1 DEF Sealable
        <5>3. ledger[b] \in {None, "PENDING", "PASS", "FAIL"} /\ ledger[b] # None /\ ledger[b] # "PENDING"
          BY <2>2, <3>1, <5>1, <5>2, InvParts DEF PassOf, TypeInv
        <5> QED BY <3>1, <5>2, <5>3 DEF PassOf
      <4> QED BY <4>1, <4>2
    <3>3. CASE b = p
      BY <1>1, <2>6, <2>8, <3>1, <3>2, <3>3, MemoryTypes DEF PassOf
    <3>4. CASE b # p
      BY <1>1, <2>6, <2>8, <3>1, <3>2, <3>4 DEF PassOf
    <3> QED BY <3>3, <3>4
  <2>13. ASSUME NEW b \in Attempts, NEW r \in Row PROVE RowOf(b, r)'
    <3>1. RowOf(b, r)
      BY InvParts
    <3>2. own'[b].tickets = {} \/ own'[b] = own[b]
      BY <2>6, <2>8, MemoryTypes
    <3> QED BY <1>1, <2>8, <3>1, <3>2 DEF RowOf
  <2> QED BY <2>7, <2>9, <2>10, <2>11, <2>12, <2>13 DEF IInv, ProcInv, AttemptInv, RowInv
<1> QED BY <1>1, <1>2, <1>3

-----------------------------------------------------------------------------
(* The environment *)

\* The provider goes on with an operation that was sent.
LEMMA ProviderStepInv ==
  ASSUME IInv, NEW a \in Attempts, NEW r \in Row, ProviderStep(a, r)
  PROVE  IInv'
<1>1. PICK x \in {"running", "dropped", "done", "failed", "partial"} : op' = [op EXCEPT ![a][r] = x]
  BY DEF ProviderStep
<1>2. /\ op[a][r] \in {"sent", "running"}
      /\ live \subseteq live' /\ live' \subseteq live \cup {<<a, r>>}
      /\ UNCHANGED <<lease, ledger, marker, proof, receipt, cleanups, completion, evidence,
                     pc, mine, own, cl, sealed>>
  BY DEF ProviderStep, store
<1>3. /\ op'[a][r] = x
      /\ \A b \in Attempts, k \in Row : <<b, k>> # <<a, r>> => op'[b][k] = op[b][k]
      /\ op' \in [Attempts -> [Row -> OpStates]]
  BY <1>1, InvParts DEF TypeInv, OpStates
<1>4. Leased(a) /\ r =< lease.tried /\ ~Gone(a)
  BY <1>2, InvParts DEF NothingLeaks, Leased, Gone
<1>5. TypeInv'
  BY <1>2, <1>3, InvParts DEF TypeInv
<1>6. NothingLeaks'
  <2>1. \A b \in Attempts, k \in Row :
          <<b, k>> \in live' \/ op'[b][k] \in {"sent", "running"} => Leased(b) /\ k =< lease.tried
    BY <1>2, <1>3, <1>4, InvParts DEF NothingLeaks, Leased
  <2> QED BY <1>2, <2>1, InvParts DEF NothingLeaks, Leased
<1>7. \A b \in Attempts : Begun(b)' = Begun(b) /\ Leased(b)' = Leased(b) /\ (Gone(b) => Gone(b)')
  BY <1>2, <1>3, <1>4 DEF Begun, Leased, Gone
<1>8. ASSUME NEW p \in Procs PROVE MineOf(p)' /\ WorkOf(p)'
  <2>1. MineOf(p) /\ WorkOf(p) /\ (mine[p] # None => mine[p].own \in Attempts)
    BY InvParts, Holding
  <2>2. MineOf(p)'
    BY <1>2, <2>1 DEF MineOf, Begun, Leased
  <2> QED BY <1>2, <1>7, <2>1, <2>2 DEF WorkOf, Resolved
<1>9. ASSUME NEW b \in Attempts PROVE InsertOf(b)' /\ PassOf(b)'
  <2>1. InsertOf(b) /\ PassOf(b)
    BY InvParts
  <2>2. InsertOf(b)'
    <3>1. pc[b] \in Unsent => op'[b][mine[b].tried] = "none"
      BY <1>2, <1>3, <2>1 DEF InsertOf, Inserting
    <3> QED BY <1>2, <1>7, <2>1, <3>1 DEF InsertOf
  <2> QED BY <1>2, <1>7, <2>1, <2>2 DEF PassOf
<1>10. ASSUME NEW b \in Attempts, NEW k \in Row PROVE RowOf(b, k)'
  <2>1. RowOf(b, k)
    BY InvParts
  <2>2. CASE b = a /\ k = r
    BY <1>2, <2>1, <2>2 DEF RowOf
  <2>3. CASE ~(b = a /\ k = r)
    BY <1>2, <1>3, <1>7, <2>1, <2>3 DEF RowOf
  <2> QED BY <2>2, <2>3
<1> QED BY <1>5, <1>6, <1>8, <1>9, <1>10 DEF IInv, ProcInv, AttemptInv, RowInv

\* A step that changes nothing the invariant speaks of.
LEMMA QuietStep ==
  ASSUME IInv, UNCHANGED <<lease, ledger, marker, proof, receipt, cleanups, completion, evidence,
                           op, live, pc, mine, own, cl, sealed>>
  PROVE  IInv'
<1>1. TypeInv' /\ NothingLeaks'
  BY InvParts DEF TypeInv, NothingLeaks
<1>2. ASSUME NEW p \in Procs PROVE MineOf(p)' /\ WorkOf(p)'
  BY InvParts DEF MineOf, WorkOf, Begun, Leased, Gone, Resolved
<1>3. ASSUME NEW a \in Attempts PROVE InsertOf(a)' /\ PassOf(a)'
  BY InvParts DEF InsertOf, PassOf, Begun, Leased, Gone
<1>4. ASSUME NEW a \in Attempts, NEW r \in Row PROVE RowOf(a, r)'
  BY InvParts DEF RowOf, Begun, Leased
<1> QED BY <1>1, <1>2, <1>3, <1>4 DEF IInv, ProcInv, AttemptInv, RowInv

\* A process stops.
LEMMA StopStep ==
  ASSUME IInv, NEW p \in Procs, Stop(p)
  PROVE  IInv'
<1>1. /\ Leave(p) /\ Settled /\ LeaseMove(p) /\ lease' \in LeasesOrNone
      /\ UNCHANGED <<marker, proof, receipt, cleanups, evidence>>
  BY InvParts DEF Stop, Settled, LeaseMove, TypeInv, provider
<1> QED BY <1>1, LeaveStep, SettledSteady

-----------------------------------------------------------------------------
(* The theorems *)

\* The initial state satisfies the invariant.
LEMMA InitInv == ASSUME Init PROVE IInv
<1>1. TypeInv
  <2>1. pc \in [Procs -> Stages]
    BY DEF Init, Stages
  <2> QED BY <2>1, MemoryTypes DEF Init, TypeInv, LeasesOrNone, OpStates
<1>2. NothingLeaks
  BY NoneAssumption DEF Init, NothingLeaks
<1>3. ASSUME NEW p \in Procs PROVE MineOf(p) /\ WorkOf(p)
  BY MemoryTypes DEF Init, MineOf, WorkOf, Cleaning, Procs
<1>4. ASSUME NEW a \in Attempts PROVE InsertOf(a) /\ PassOf(a)
  <2>1. pc[a] = "new"
    BY DEF Init, Procs
  <2> QED BY <2>1, MemoryTypes, NoneAssumption
          DEF Init, InsertOf, PassOf, Inserting, Unsent, Leased
<1>5. ASSUME NEW a \in Attempts, NEW r \in Row PROVE RowOf(a, r)
  BY DEF Init, RowOf
<1> QED BY <1>1, <1>2, <1>3, <1>4, <1>5 DEF IInv, ProcInv, AttemptInv, RowInv

\* Every step preserves it.
LEMMA StepInv == ASSUME IInv, [Next]_vars PROVE IInv'
<1>1. ASSUME NEW a \in Attempts, Owner(a) PROVE IInv'
  BY <1>1, AcquireStep, ReserveStep, ActivateStep, IntendStep, CheckInsertStep, PutMarkerStep,
     ConfirmInsertStep, PostStep, AwaitInsertStep, AdoptStep, RunMemberStep, PublishStep,
     CertifyStep DEF Owner
<1>2. ASSUME NEW p \in Procs, Cleaner(p) PROVE IInv'
  BY <1>2, ClaimCleanupStep, ResolveRowStep, DeleteRowStep, CheckAbsenceStep, ConcludeStep,
     FinishStep, ReleaseStep DEF Cleaner
<1>3. ASSUME UNCHANGED vars \/ Tick PROVE IInv'
  BY <1>3, QuietStep DEF vars, store, provider, Tick
<1> QED BY <1>1, <1>2, <1>3, AdmitStep, RenewStep, ReconcileStep, StopStep, ProviderStepInv DEF Next

\* The invariant holds of every state that the control plane can reach.
THEOREM Inductive == Spec => []IInv
<1>1. Init => IInv
  BY InitInv
<1>2. IInv /\ [Next]_vars => IInv'
  BY StepInv
<1> QED BY <1>1, <1>2, PTL DEF Spec

\* No resource, no insert on its way and no pending charge is ever without the
\* lease that names it (create() against clean() and release()), however many
\* runners stall or stop and however many reconcilers run.
THEOREM NothingEverLeaks == Spec => []NothingLeaks
<1>1. IInv => NothingLeaks
  BY DEF IInv
<1> QED BY <1>1, Inductive, PTL

\* An attempt that counts as passed retained its evidence, had a passed
\* cleanup and owns nothing; a sealed one also gave its lease back
\* (completion(), clean() and cloud_member_seal.capture()).
THEOREM PassesAreQualified == Spec => []PassIsQualified
<1>1. IInv => PassIsQualified
  <2> SUFFICES ASSUME IInv PROVE PassIsQualified
    OBVIOUS
  <2>1. ASSUME NEW a \in Attempts, ledger[a] = "PASS"
        PROVE  /\ evidence[a] = Parts + 1 /\ <<a, TRUE>> \in cleanups
               /\ \A r \in Row : <<a, r>> \notin live
    BY <2>1, InvParts DEF PassOf, Gone
  <2>2. ASSUME NEW a \in sealed
        PROVE  ledger[a] = "PASS" /\ (lease # None => lease.own # a)
    BY <2>2, InvParts DEF TypeInv, PassOf, Leased
  <2> QED BY <2>1, <2>2 DEF PassIsQualified
<1> QED BY <1>1, Inductive, PTL
=============================================================================
