--------------------------- MODULE BenchmarkProofs ---------------------------
(***************************************************************************)
(* The benchmark desk for every choice of its constants.                    *)
(*                                                                         *)
(* BenchmarkSet (any plans, faults and exits, any number of attempts and of *)
(* times the driver is killed): AuditComplete and NeverRerunsResult.  The   *)
(* files tell the story: what the checkpoint says of a slot is backed by    *)
(* the immutable records of its attempts, also by the checkpoint that a     *)
(* command is about to save, so that a driver killed between its two writes *)
(* comes back to a checkpoint that still knows the attempt as running.      *)
(*                                                                         *)
(* BenchmarkPublication (any evidence, requests, names and registrars, any  *)
(* number of faults and writes): ReceiptsAuthentic, GreenIsRetained and     *)
(* VerdictsAgree.  An upload carries what it has verified, version by       *)
(* version, and what it has left; a registration carries the whole registry *)
(* it is going to write; the job carries what its recorded steps say.       *)
(***************************************************************************)
EXTENDS BenchmarkSet, BenchmarkPublication, FiniteSetTheorems, WellFoundedInduction, TLAPS

\* The set driver as a specification.
SetSpec == SInit /\ [][SNext]_setVars

\* The classifications of an attempt: none of them is the state of a slot that
\* is still to be run or running.
Verdicts == {"VALID_MEMBER", "INFRASTRUCTURE_INVALID", "BENCHMARK_FAILURE",
             "CONFIGURATION_FAILURE", "EVIDENCE_INVALID", "UNRESOLVED"}

Slots == [state : Verdicts \cup {"PENDING", "RUNNING"}, 
          attempts : Nat, selected : Nat \cup {None}]
SlotTables == UNION {[1..n -> Slots] : n \in 0..10}

IsCheckpoint(cp) ==
  /\ cp = [state |-> cp.state, current |-> cp.current, next |-> cp.next,
           final |-> cp.final, slots |-> cp.slots]
  /\ cp.slots \in SlotTables

\* The checkpoint's current attempt is the last one of a slot that is RUNNING.
Running(cp) ==
  \E s \in DOMAIN cp.slots :
    /\ cp.current = <<s, cp.slots[s].attempts>>
    /\ cp.slots[s].state = "RUNNING" /\ cp.slots[s].attempts >= 1

\* An attempt that was set aside: a recorded failure of the infrastructure
\* with an authorized replacement.
SetAside(id, done, replaced) ==
  /\ id \in DOMAIN done /\ done[id].classification = "INFRASTRUCTURE_INVALID"
  /\ id \in replaced

\* The records behind a slot: all attempts but the last were set aside, and a
\* verdict on the last one is in its record.
Backed(cp, s, done, replaced) ==
  LET slot == cp.slots[s] IN
  /\ slot.state = "PENDING" => slot.attempts = 0
  /\ \A a \in 1..(slot.attempts - 1) : SetAside(<<s, a>>, done, replaced)
  /\ slot.state \in {"INFRASTRUCTURE_INVALID", "VALID_MEMBER"} =>
       /\ slot.attempts >= 1 /\ <<s, slot.attempts>> \in DOMAIN done
       /\ done[<<s, slot.attempts>>].classification = slot.state
  /\ slot.state = "VALID_MEMBER" => slot.selected = slot.attempts

\* A run belongs to an attempt that the checkpoint counted before it started.
Counted(cp, started) ==
  \A id \in started : \E s \in DOMAIN cp.slots : \E a \in 1..cp.slots[s].attempts :
    id = <<s, a>>

CheckpointInv(cp, done, replaced, started) ==
  /\ IsCheckpoint(cp)
  /\ cp.current # None => Running(cp)
  /\ cp.next # None => cp.next \in DOMAIN cp.slots
  /\ \A s \in DOMAIN cp.slots : Backed(cp, s, done, replaced)
  /\ Counted(cp, started)

\* A checkpoint from which a set was published: nothing can run any more.
Over(cp) ==
  /\ cp.current = None /\ cp.next = None
  /\ \A s \in DOMAIN cp.slots : cp.slots[s].state = "VALID_MEMBER"

PublishedInv ==
  published # {} =>
    /\ Over(checkpoint)
    /\ driver = "saving" => Over(write) /\ write.slots = checkpoint.slots
    /\ \A set \in published : set.identity = SetIdentity

\* The inductive invariant.
SetInv ==
  /\ CheckpointInv(checkpoint, attempts, replacements, Started)
  /\ driver = "saving" => CheckpointInv(write, attempts, replacements, Started)
  /\ driver \in {"begun", "running"} => Running(checkpoint)
  /\ plan = None => driver = "down" /\ published = {} /\ DOMAIN checkpoint.slots = {}
  /\ PublishedInv

-----------------------------------------------------------------------------
(* Helpers *)

\* A set of natural numbers that is not empty has a minimum.
LEMMA MinIsLeast ==
  ASSUME NEW S \in SUBSET Nat, S # {}
  PROVE  Min(S) \in S /\ \A y \in S : Min(S) =< y
<1>1. PICK x \in S : \A y \in S : ~(<<y, x>> \in OpToRel(<, Nat))
  BY NatLessThanWellFounded, WFMin
<1>2. \A y \in S : ~(y < x)
  BY <1>1 DEF OpToRel
<1>3. \A y \in S : x =< y
  BY <1>2
<1> QED BY <1>3 DEF Min

\* The first of the slots that are left is one of them.
LEMMA MinIn ==
  ASSUME NEW S \in SUBSET (1..10), S # {}
  PROVE  Min(S) \in S
<1>1. S \in SUBSET Nat OBVIOUS
<1> QED BY <1>1, MinIsLeast

\* The parts of a slot table.
LEMMA TableParts ==
  ASSUME NEW t \in SlotTables
  PROVE  /\ DOMAIN t \subseteq 1..10
         /\ \A s \in DOMAIN t : /\ t[s] \in Slots /\ t[s].attempts \in Nat
         /\ \A s \in DOMAIN t, v \in Slots : [t EXCEPT ![s] = v] \in SlotTables
<1>1. PICK n \in 0..10 : t \in [1..n -> Slots]
  BY DEF SlotTables
<1>2. DOMAIN t = 1..n /\ DOMAIN t \subseteq 1..10
  BY <1>1
<1>3. \A s \in DOMAIN t : t[s] \in Slots /\ t[s].attempts \in Nat
  BY <1>1 DEF Slots
<1>4. ASSUME NEW s \in DOMAIN t, NEW v \in Slots
      PROVE  [t EXCEPT ![s] = v] \in SlotTables
  <2>1. [t EXCEPT ![s] = v] \in [1..n -> Slots]
    BY <1>1, <1>4
  <2> QED BY <2>1 DEF SlotTables
<1> QED BY <1>2, <1>3, <1>4

\* How attempts are classified.
LEMMA Classified ==
  ASSUME NEW exit
  PROVE  ClassifyAttemptExit(exit) \in Verdicts
  BY DEF ClassifyAttemptExit, Verdicts, InfrastructureExits, EvidenceExits, Invalid,
         Unsupported, Contradiction

LEMMA JudgedVerdict ==
  ASSUME NEW id, NEW exit
  PROVE  JudgeAttempt(id, exit).classification \in Verdicts
<1>1. "UNRESOLVED" \in Verdicts /\ "EVIDENCE_INVALID" \in Verdicts
      /\ "VALID_MEMBER" \in Verdicts /\ ClassifyAttemptExit(exit) \in Verdicts
  BY Classified DEF Verdicts
<1>2. \E c \in Verdicts : \E m, o, p : JudgeAttempt(id, exit) = AttemptRecord(c, m, o, p, exit)
  BY <1>1 DEF JudgeAttempt
<1> QED BY <1>2 DEF AttemptRecord

LEMMA UnresolvedVerdict == UnresolvedRecord.classification \in Verdicts
  BY DEF UnresolvedRecord, AttemptRecord, Verdicts

\* What AdvanceCheckpoint makes of a checkpoint.
LEMMA Advanced ==
  ASSUME NEW cp, IsCheckpoint(cp), NEW s \in DOMAIN cp.slots, NEW a \in Nat,
         NEW outcome \in Verdicts,
         NEW new, new = AdvanceCheckpoint(cp, <<s, a>>, outcome)
  PROVE  /\ IsCheckpoint(new) /\ DOMAIN new.slots = DOMAIN cp.slots
         /\ new.current = None /\ (new.next # None => new.next \in DOMAIN cp.slots)
         /\ \A t \in DOMAIN cp.slots : t # s => new.slots[t] = cp.slots[t]
         /\ new.slots[s].state = outcome /\ new.slots[s].attempts = cp.slots[s].attempts
         /\ outcome = "VALID_MEMBER" => new.slots[s].selected = a
<1> DEFINE valid == outcome = "VALID_MEMBER"
           slot == [cp.slots[s] EXCEPT !.state = outcome, !.selected = IF valid THEN a ELSE @]
           judged == [cp EXCEPT !.slots[s] = slot, !.current = None, !.next = None]
           fits == Compatible(judged) /\ DistinctMembers(judged)
           pending == {t \in DOMAIN cp.slots : judged.slots[t].state = "PENDING"}
           state == CASE valid                              -> IF fits THEN "READY" ELSE "INCOMPATIBLE"
                      [] outcome = "INFRASTRUCTURE_INVALID" -> "BLOCKED_INFRASTRUCTURE"
                      [] outcome = "UNRESOLVED"             -> "UNRESOLVED"
                      [] OTHER                              -> "BLOCKED_FAILURE"
<1>1. new = [judged EXCEPT !.state = state,
                           !.next = IF valid /\ fits /\ pending # {} THEN Min(pending) ELSE None]
  BY DEF AdvanceCheckpoint
<1>2. cp.slots \in SlotTables /\ DOMAIN cp.slots \subseteq 1..10
  BY TableParts DEF IsCheckpoint
<1>3. pending \subseteq 1..10 /\ (pending # {} => Min(pending) \in DOMAIN cp.slots)
  BY <1>2, MinIn
<1>4. slot \in Slots /\ slot.state = outcome /\ slot.attempts = cp.slots[s].attempts
      /\ (valid => slot.selected = a)
  <2>1. cp.slots[s] \in Slots
    BY <1>2, TableParts
  <2>2. outcome \in Verdicts \cup {"PENDING", "RUNNING"}
    OBVIOUS
  <2>3. (IF valid THEN a ELSE cp.slots[s].selected) \in Nat \cup {None}
    BY <2>1 DEF Slots
  <2>4. PICK x \in Nat \cup {None} : x = IF valid THEN a ELSE cp.slots[s].selected
    BY <2>3
  <2>5. slot = [cp.slots[s] EXCEPT !.state = outcome, !.selected = x]
    BY <2>4
  <2> HIDE DEF slot
  <2>6. PICK v \in Slots : v = cp.slots[s]
    BY <2>1
  <2>7. slot = [v EXCEPT !.state = outcome, !.selected = x]
    BY <2>5, <2>6
  <2>8. slot \in Slots /\ slot.state = outcome /\ slot.attempts = v.attempts /\ slot.selected = x
    BY <2>2, <2>4, <2>7 DEF Slots
  <2> QED BY <2>4, <2>6, <2>8
<1> HIDE DEF slot, pending, state, fits
<1>5. /\ new.slots = [cp.slots EXCEPT ![s] = slot] /\ new.current = None
      /\ new.next = (IF valid /\ fits /\ pending # {} THEN Min(pending) ELSE None)
      /\ new = [state |-> new.state, current |-> new.current, next |-> new.next,
                final |-> new.final, slots |-> new.slots]
  BY <1>1 DEF IsCheckpoint
<1>6. new.slots \in SlotTables
  BY <1>2, <1>4, <1>5, TableParts
<1> QED BY <1>3, <1>4, <1>5, <1>6 DEF IsCheckpoint

-----------------------------------------------------------------------------
(* The steps *)

\* A slot that is as it was stays backed: records are only added, and the one
\* that may be written again is that of a RUNNING slot's last attempt.
LEMMA BackedKept ==
  ASSUME NEW cp, NEW new, NEW s, NEW done, NEW done2, NEW replaced, NEW replaced2,
         Backed(cp, s, done, replaced), new.slots[s] = cp.slots[s],
         replaced \subseteq replaced2,
         \A id \in DOMAIN done : \/ id \in DOMAIN done2 /\ done2[id] = done[id]
                                 \/ /\ cp.slots[s].state = "RUNNING"
                                    /\ \A a \in 1..(cp.slots[s].attempts - 1) : id # <<s, a>>
                                 \/ \A a : id # <<s, a>>
  PROVE  Backed(new, s, done2, replaced2)
  BY DEF Backed, SetAside

\* Nothing of the set's files changes.
LEMMA QuietStep ==
  ASSUME SetInv, DOMAIN runs' = DOMAIN runs,
         UNCHANGED <<plan, checkpoint, attempts, replacements, published, driver, write>>
  PROVE  SetInv'
<1>1. Started' = Started /\ SetIdentity' = SetIdentity
  BY DEF Started, SetIdentity
<1>2. PublishedInv'
  BY <1>1 DEF SetInv, PublishedInv
<1> QED BY <1>1, <1>2 DEF SetInv

\* The driver stops, is killed or is resumed.
LEMMA DriverStep ==
  ASSUME SetInv, runs' = runs, driver' \in {"down", "next"}, plan # None \/ driver' = "down",
         UNCHANGED <<plan, checkpoint, attempts, replacements, published>>
  PROVE  SetInv'
<1>1. Started' = Started /\ SetIdentity' = SetIdentity
  BY DEF Started, SetIdentity
<1>2. PublishedInv'
  BY <1>1 DEF SetInv, PublishedInv
<1> QED BY <1>1, <1>2 DEF SetInv

LEMMA InitializeStep ==
  ASSUME SetInv, NEW p \in Plans, InitializeSet(p)
  PROVE  SetInv'
<1>1. /\ plan = None /\ driver' = "next" /\ checkpoint' = InitialCheckpoint(p)
      /\ UNCHANGED <<attempts, replacements, published, runs>>
      /\ plan' = p /\ ValidSetPlan(p)
  BY DEF InitializeSet
<1>2. p.repeats \in 1..10
  <2>1. MinimumMembers(p.profile) \in {1, 3}
    BY DEF MinimumMembers
  <2> QED BY <1>1, <2>1 DEF ValidSetPlan
<1>3. p # None
  BY PlansAssumption
<1>4. Started = {} /\ Started' = {} /\ published' = {}
  BY <1>1 DEF SetInv, CheckpointInv, Counted, Started
<1>5. /\ IsCheckpoint(checkpoint') /\ checkpoint'.current = None
      /\ checkpoint'.next = 1 /\ DOMAIN checkpoint'.slots = 1..p.repeats
      /\ \A s \in 1..p.repeats : /\ checkpoint'.slots[s].state = "PENDING"
                                 /\ checkpoint'.slots[s].attempts = 0
  <2>1. checkpoint'.slots \in [1..p.repeats -> Slots]
    BY <1>1 DEF InitialCheckpoint, Slots
  <2>2. p.repeats \in 0..10
    BY <1>2
  <2>3. checkpoint'.slots \in SlotTables
    BY <2>1, <2>2 DEF SlotTables
  <2> QED BY <1>1, <2>3 DEF InitialCheckpoint, IsCheckpoint
<1>6. CheckpointInv(checkpoint, attempts, replacements, Started)'
  BY <1>2, <1>4, <1>5 DEF CheckpointInv, Backed, Counted
<1> QED BY <1>1, <1>3, <1>4, <1>6 DEF SetInv, PublishedInv

LEMMA BeginStep ==
  ASSUME SetInv, BeginSetAttempt
  PROVE  SetInv'
<1> DEFINE s == checkpoint.next
           slot == checkpoint.slots[s]
           new == [slot EXCEPT !.state = "RUNNING", !.attempts = slot.attempts + 1]
<1>1. /\ driver = "next" /\ checkpoint.current = None /\ s # None
      /\ slot.state \in {"PENDING", "INFRASTRUCTURE_INVALID"}
      /\ slot.state = "INFRASTRUCTURE_INVALID" => <<s, slot.attempts>> \in replacements
      /\ checkpoint' = [checkpoint EXCEPT !.state = "RUNNING", !.current = <<s, slot.attempts + 1>>,
                                          !.slots[s] = new]
      /\ driver' = "begun"
      /\ UNCHANGED <<plan, attempts, replacements, published, runs, write>>
  BY DEF BeginSetAttempt
<1>2. /\ CheckpointInv(checkpoint, attempts, replacements, Started)
      /\ s \in DOMAIN checkpoint.slots /\ IsCheckpoint(checkpoint)
      /\ checkpoint.slots \in SlotTables /\ slot \in Slots /\ slot.attempts \in Nat
  BY <1>1, TableParts DEF SetInv, CheckpointInv, IsCheckpoint
<1>3. published = {} /\ plan # None
  BY <1>1, <1>2 DEF SetInv, PublishedInv, Over
<1>4. new \in Slots /\ new.state = "RUNNING" /\ new.attempts = slot.attempts + 1
  <2>1. PICK n \in Nat : n = slot.attempts + 1
    BY <1>2
  <2>2. new = [slot EXCEPT !.state = "RUNNING", !.attempts = n]
    BY <2>1
  <2>3. PICK v \in Slots : v = slot
    BY <1>2
  <2> HIDE DEF new, slot
  <2>4. new = [v EXCEPT !.state = "RUNNING", !.attempts = n]
    BY <2>2, <2>3
  <2>5. new \in Slots /\ new.state = "RUNNING" /\ new.attempts = n
    BY <2>4 DEF Slots
  <2> QED BY <2>1, <2>5
<1> HIDE DEF new
<1>5. /\ checkpoint'.slots = [checkpoint.slots EXCEPT ![s] = new]
      /\ checkpoint'.current = <<s, slot.attempts + 1>> /\ checkpoint'.next = s
      /\ checkpoint' = [state |-> checkpoint'.state, current |-> checkpoint'.current,
                        next |-> checkpoint'.next, final |-> checkpoint'.final,
                        slots |-> checkpoint'.slots]
  BY <1>1, <1>2 DEF IsCheckpoint
<1> HIDE DEF s, slot
<1>6. /\ IsCheckpoint(checkpoint') /\ DOMAIN checkpoint'.slots = DOMAIN checkpoint.slots
      /\ checkpoint'.slots[s] = new
      /\ \A t \in DOMAIN checkpoint.slots : t # s => checkpoint'.slots[t] = checkpoint.slots[t]
  BY <1>2, <1>4, <1>5, TableParts DEF IsCheckpoint
<1>7. Running(checkpoint')
  BY <1>2, <1>4, <1>5, <1>6 DEF Running
<1>8. Backed(checkpoint', s, attempts, replacements)
  <2>1. Backed(checkpoint, s, attempts, replacements) /\ slot = checkpoint.slots[s]
    BY <1>2 DEF CheckpointInv, slot
  <2>2. ASSUME NEW a \in 1..(new.attempts - 1)
        PROVE  SetAside(<<s, a>>, attempts, replacements)
    <3>1. CASE a \in 1..(slot.attempts - 1)
      BY <2>1, <3>1 DEF Backed
    <3>2. CASE a = slot.attempts
      BY <1>1, <1>2, <2>1, <2>2, <3>2 DEF Backed, SetAside
    <3> QED BY <1>2, <1>4, <2>2, <3>1, <3>2
  <2> QED BY <1>4, <1>6, <2>2 DEF Backed
<1>9. \A t \in DOMAIN checkpoint.slots : Backed(checkpoint', t, attempts, replacements)
  <2>1. ASSUME NEW t \in DOMAIN checkpoint.slots, t # s
        PROVE  Backed(checkpoint', t, attempts, replacements)
    BY <1>2, <1>6, <2>1, BackedKept DEF CheckpointInv
  <2> QED BY <1>8, <2>1
<1>10. Counted(checkpoint', Started)
  <2>1. ASSUME NEW id \in Started
        PROVE  \E t \in DOMAIN checkpoint'.slots : \E a \in 1..checkpoint'.slots[t].attempts :
                 id = <<t, a>>
    <3>1. PICK t \in DOMAIN checkpoint.slots :
            \E a \in 1..checkpoint.slots[t].attempts : id = <<t, a>>
      BY <1>2, <2>1 DEF CheckpointInv, Counted
    <3>2. PICK a \in 1..checkpoint.slots[t].attempts : id = <<t, a>>
      BY <3>1
    <3>3. a \in 1..checkpoint'.slots[t].attempts
      <4>1. CASE t = s  BY <4>1, <1>2, <1>4, <1>6, <3>2 DEF slot
      <4>2. CASE t # s  BY <4>2, <1>6, <3>2
      <4> QED BY <4>1, <4>2
    <3> QED BY <1>6, <3>1, <3>2, <3>3
  <2> QED BY <2>1 DEF Counted
<1>11. CheckpointInv(checkpoint, attempts, replacements, Started)'
  BY <1>1, <1>2, <1>5, <1>6, <1>7, <1>9, <1>10 DEF CheckpointInv, Started
<1> QED BY <1>1, <1>3, <1>7, <1>11 DEF SetInv, PublishedInv

LEMMA LaunchStep ==
  ASSUME SetInv, LaunchRun
  PROVE  SetInv'
<1>1. /\ driver = "begun" /\ runs' = StartRun(checkpoint.current) /\ driver' = "running"
      /\ UNCHANGED <<plan, checkpoint, attempts, replacements, published, write>>
  BY DEF LaunchRun, Attempt
<1>2. Running(checkpoint) /\ plan # None
  BY <1>1 DEF SetInv
<1>3. published = {}
  BY <1>2 DEF SetInv, PublishedInv, Over, Running
<1>4. Started' = Started \cup {checkpoint.current}
  BY <1>1 DEF Started, StartRun
<1>5. Counted(checkpoint, Started')
  <2>1. PICK s \in DOMAIN checkpoint.slots : /\ checkpoint.current = <<s, checkpoint.slots[s].attempts>>
                                             /\ checkpoint.slots[s].attempts >= 1
    BY <1>2 DEF Running
  <2>2. checkpoint.slots[s].attempts \in 1..checkpoint.slots[s].attempts
    BY <2>1, TableParts DEF SetInv, CheckpointInv, IsCheckpoint
  <2> QED BY <1>4, <2>1, <2>2 DEF SetInv, CheckpointInv, Counted
<1>6. CheckpointInv(checkpoint, attempts, replacements, Started)'
  BY <1>1, <1>5 DEF SetInv, CheckpointInv
<1> QED BY <1>1, <1>2, <1>3, <1>6 DEF SetInv, PublishedInv

\* The first of two writes: the record of the current attempt.
LEMMA StoreStep ==
  ASSUME SetInv, Running(checkpoint), NEW record, record.classification \in Verdicts,
         StoreAttempt(checkpoint.current, record), driver \in {"next", "running"},
         UNCHANGED <<plan, checkpoint, replacements, published, runs>>
  PROVE  SetInv'
<1>1. PICK s \in DOMAIN checkpoint.slots :
        /\ checkpoint.current = <<s, checkpoint.slots[s].attempts>>
        /\ checkpoint.slots[s].state = "RUNNING" /\ checkpoint.slots[s].attempts >= 1
  BY DEF Running
<1> DEFINE a == checkpoint.slots[s].attempts
           outcome == record.classification
<1>2. /\ CheckpointInv(checkpoint, attempts, replacements, Started) /\ IsCheckpoint(checkpoint)
      /\ a \in Nat /\ a >= 1 /\ plan # None
      /\ checkpoint.slots[s].state # "VALID_MEMBER"
  BY <1>1, TableParts DEF SetInv, CheckpointInv, IsCheckpoint
<1>3. published = {}
  BY <1>2 DEF SetInv, PublishedInv, Over
<1>4. /\ write' = AdvanceCheckpoint(checkpoint, <<s, a>>, outcome) /\ driver' = "saving"
      /\ DOMAIN attempts' = DOMAIN attempts \cup {<<s, a>>} /\ attempts'[<<s, a>>] = record
      /\ \A id \in DOMAIN attempts : id # <<s, a>> => attempts'[id] = attempts[id]
  BY <1>1 DEF StoreAttempt, WithRecord
<1>5. /\ IsCheckpoint(write') /\ DOMAIN write'.slots = DOMAIN checkpoint.slots
      /\ write'.current = None /\ (write'.next # None => write'.next \in DOMAIN checkpoint.slots)
      /\ \A t \in DOMAIN checkpoint.slots : t # s => write'.slots[t] = checkpoint.slots[t]
      /\ write'.slots[s].state = outcome /\ write'.slots[s].attempts = a
      /\ outcome = "VALID_MEMBER" => write'.slots[s].selected = a
  <2>1. PICK b \in Nat : b = a
    BY <1>2
  <2>2. PICK o \in Verdicts : o = outcome
    OBVIOUS
  <2>3. write' = AdvanceCheckpoint(checkpoint, <<s, b>>, o)
    BY <1>4, <2>1, <2>2
  <2> QED BY <1>2, <2>1, <2>2, <2>3, Advanced
<1> HIDE DEF a, outcome
<1>6. \A t \in DOMAIN checkpoint.slots : Backed(checkpoint, t, attempts', replacements)
  <2>1. ASSUME NEW t \in DOMAIN checkpoint.slots
        PROVE  Backed(checkpoint, t, attempts', replacements)
    <3>1. Backed(checkpoint, t, attempts, replacements)
      BY <1>2 DEF CheckpointInv
    <3>2. ASSUME NEW id \in DOMAIN attempts
          PROVE  \/ id \in DOMAIN attempts' /\ attempts'[id] = attempts[id]
                 \/ /\ checkpoint.slots[t].state = "RUNNING"
                    /\ \A b \in 1..(checkpoint.slots[t].attempts - 1) : id # <<t, b>>
                 \/ \A b : id # <<t, b>>
      <4>1. CASE id # <<s, a>>
        BY <1>4, <4>1
      <4>2. CASE id = <<s, a>> /\ t = s
        BY <1>1, <1>2, <4>2 DEF a
      <4>3. CASE id = <<s, a>> /\ t # s
        BY <4>3
      <4> QED BY <4>1, <4>2, <4>3
    <3> QED BY <3>1, <3>2, BackedKept
  <2> QED BY <2>1
<1>7. ASSUME NEW t \in DOMAIN checkpoint.slots
      PROVE  Backed(write', t, attempts', replacements)
  <2>1. CASE t # s
    <3>1. Backed(checkpoint, t, attempts', replacements) /\ write'.slots[t] = checkpoint.slots[t]
      BY <1>5, <1>6, <2>1
    <3> QED BY <3>1, BackedKept
  <2>2. CASE t = s
    <3>1. Backed(checkpoint, s, attempts', replacements)
      BY <1>6
    <3>2. outcome # "PENDING" /\ <<s, a>> \in DOMAIN attempts'
          /\ attempts'[<<s, a>>].classification = outcome
      BY <1>4 DEF outcome, Verdicts
    <3> QED BY <1>2, <1>5, <2>2, <3>1, <3>2 DEF Backed, a
  <2> QED BY <2>1, <2>2
<1>8. Counted(write', Started)
  <2>1. \A t \in DOMAIN checkpoint.slots : write'.slots[t].attempts = checkpoint.slots[t].attempts
    BY <1>5 DEF a
  <2> QED BY <1>2, <1>5, <2>1 DEF CheckpointInv, Counted
<1>9. Started' = Started
  BY DEF Started
<1>10. CheckpointInv(checkpoint, attempts, replacements, Started)'
  BY <1>2, <1>6, <1>9 DEF CheckpointInv
<1>11. CheckpointInv(write, attempts, replacements, Started)'
  BY <1>5, <1>7, <1>8, <1>9 DEF CheckpointInv
<1> QED BY <1>2, <1>3, <1>4, <1>10, <1>11 DEF SetInv, PublishedInv

LEMMA RecordStep ==
  ASSUME SetInv, RecordSetAttempt \/ ReconcileRunningAttempt
  PROVE  SetInv'
<1>1. PICK record : /\ record.classification \in Verdicts
                    /\ \/ StoreAttempt(checkpoint.current, record)
                       \/ Stop /\ UNCHANGED attempts
  <2>1. CASE RecordSetAttempt
    BY <2>1, JudgedVerdict DEF RecordSetAttempt, Attempt
  <2>2. CASE ReconcileRunningAttempt
    BY <2>2, JudgedVerdict, UnresolvedVerdict DEF ReconcileRunningAttempt, Attempt
  <2> QED BY <2>1, <2>2
<1>2. /\ UNCHANGED <<plan, checkpoint, replacements, published, runs>>
      /\ driver \in {"next", "running"}
  BY DEF RecordSetAttempt, ReconcileRunningAttempt
<1>3. Running(checkpoint)
  BY DEF RecordSetAttempt, ReconcileRunningAttempt, SetInv, CheckpointInv
<1>4. CASE StoreAttempt(checkpoint.current, record)
  BY <1>1, <1>2, <1>3, <1>4, StoreStep
<1>5. CASE Stop /\ UNCHANGED attempts
  BY <1>2, <1>5, DriverStep DEF Stop
<1> QED BY <1>1, <1>4, <1>5

\* The second of two writes.
LEMMA SaveStep ==
  ASSUME SetInv, SaveCheckpoint
  PROVE  SetInv'
<1>1. /\ driver = "saving" /\ checkpoint' = write /\ driver' = "next"
      /\ UNCHANGED <<plan, attempts, replacements, published, runs>>
  BY DEF SaveCheckpoint
<1>2. Started' = Started /\ plan # None
  BY <1>1 DEF Started, SetInv
<1>3. CheckpointInv(checkpoint, attempts, replacements, Started)'
  BY <1>1, <1>2 DEF SetInv
<1>4. PublishedInv'
  <2>1. SUFFICES ASSUME published # {}
                 PROVE  Over(checkpoint)' /\ SetIdentity' = SetIdentity
    BY <1>1, <2>1 DEF SetInv, PublishedInv
  <2>2. Over(checkpoint') /\ checkpoint'.slots = checkpoint.slots
    BY <1>1, <2>1 DEF SetInv, PublishedInv
  <2> QED BY <1>1, <2>2 DEF SetIdentity
<1> QED BY <1>1, <1>2, <1>3, <1>4 DEF SetInv

LEMMA FinalizeStep ==
  ASSUME SetInv, FinalizeBenchmarkSet
  PROVE  SetInv'
<1>1. /\ driver = "next" /\ checkpoint.current = None /\ checkpoint.next = None
      /\ Selected(checkpoint) = DOMAIN checkpoint.slots
      /\ write' = [checkpoint EXCEPT !.state = "COMPLETE", !.final = SetIdentity]
      /\ driver' = "saving"
      /\ UNCHANGED <<plan, checkpoint, attempts, replacements, runs>>
  BY DEF FinalizeBenchmarkSet
<1>2. PICK aggregate : published' = published \cup {[identity |-> SetIdentity, aggregate |-> aggregate]}
  BY DEF FinalizeBenchmarkSet
<1>3. Started' = Started /\ plan # None /\ SetIdentity' = SetIdentity
  BY <1>1 DEF Started, SetInv, SetIdentity
<1>4. CheckpointInv(checkpoint, attempts, replacements, Started) /\ IsCheckpoint(checkpoint)
  BY DEF SetInv, CheckpointInv
<1>5. /\ write'.slots = checkpoint.slots /\ write'.current = None /\ write'.next = None
      /\ write' = [state |-> write'.state, current |-> write'.current, next |-> write'.next,
                   final |-> write'.final, slots |-> write'.slots]
  <2> HIDE DEF SetIdentity
  <2>1. PICK f : f = SetIdentity
    OBVIOUS
  <2> QED BY <1>1, <1>4, <2>1 DEF IsCheckpoint
<1>6. Over(checkpoint) /\ Over(write')
  BY <1>1, <1>5 DEF Over, Selected
<1>7. CheckpointInv(write', attempts, replacements, Started)
  BY <1>4, <1>5 DEF CheckpointInv, IsCheckpoint, Backed, Counted
<1>8. \A set \in published' : set.identity = SetIdentity
  BY <1>2 DEF SetInv, PublishedInv
<1>9. PublishedInv'
  BY <1>1, <1>3, <1>5, <1>6, <1>8 DEF PublishedInv
<1> QED BY <1>1, <1>3, <1>4, <1>7, <1>9 DEF SetInv

LEMMA AuthorizeStep ==
  ASSUME SetInv, NEW s \in DOMAIN checkpoint.slots, AuthorizeSetReplacement(s)
  PROVE  SetInv'
<1>1. /\ checkpoint.slots[s].state = "INFRASTRUCTURE_INVALID"
      /\ replacements \subseteq replacements'
      /\ write' = [checkpoint EXCEPT !.state = "READY", !.next = s] /\ driver' = "saving"
      /\ UNCHANGED <<plan, checkpoint, attempts, published, runs>>
  BY DEF AuthorizeSetReplacement
<1>2. Started' = Started /\ plan # None /\ published = {}
  BY <1>1 DEF Started, SetInv, PublishedInv, Over
<1>3. CheckpointInv(checkpoint, attempts, replacements, Started) /\ IsCheckpoint(checkpoint)
  BY DEF SetInv, CheckpointInv
<1>4. /\ write'.slots = checkpoint.slots /\ write'.current = checkpoint.current /\ write'.next = s
      /\ write' = [state |-> write'.state, current |-> write'.current, next |-> write'.next,
                   final |-> write'.final, slots |-> write'.slots]
  BY <1>1, <1>3 DEF IsCheckpoint
<1>5. \A t \in DOMAIN checkpoint.slots : /\ Backed(checkpoint, t, attempts, replacements')
                                         /\ Backed(write', t, attempts, replacements')
  <2>1. ASSUME NEW t \in DOMAIN checkpoint.slots, NEW new, new.slots[t] = checkpoint.slots[t]
        PROVE  Backed(new, t, attempts, replacements')
    <3>1. Backed(checkpoint, t, attempts, replacements)
      BY <1>3 DEF CheckpointInv
    <3> QED BY <1>1, <2>1, <3>1, BackedKept
  <2> QED BY <1>4, <2>1
<1>6. CheckpointInv(checkpoint, attempts, replacements, Started)'
  BY <1>1, <1>2, <1>3, <1>5 DEF CheckpointInv
<1>7. CheckpointInv(write, attempts, replacements, Started)'
  BY <1>1, <1>2, <1>3, <1>4, <1>5 DEF CheckpointInv, IsCheckpoint, Running, Counted
<1> QED BY <1>1, <1>2, <1>6, <1>7 DEF SetInv, PublishedInv

LEMMA InitSet ==
  ASSUME SInit
  PROVE  SetInv
<1>1. /\ checkpoint = [state |-> "READY", current |-> None, next |-> None, final |-> None,
                       slots |-> <<>>]
      /\ driver = "down" /\ published = {} /\ runs = <<>>
  BY DEF SInit
<1>2. Started = {} /\ checkpoint.slots = <<>> /\ DOMAIN checkpoint.slots = {}
  BY <1>1 DEF Started
<1>3. checkpoint.slots \in SlotTables
  <2>1. checkpoint.slots \in [1..0 -> Slots]
    BY <1>2
  <2> QED BY <2>1 DEF SlotTables
<1>4. CheckpointInv(checkpoint, attempts, replacements, Started)
  BY <1>1, <1>2, <1>3 DEF CheckpointInv, IsCheckpoint, Counted
<1> QED BY <1>1, <1>2, <1>4 DEF SetInv, PublishedInv

LEMMA StepSet ==
  ASSUME SetInv, [SNext]_setVars
  PROVE  SetInv'
<1>1. ASSUME NEW id \in Live, WritePointer(id) \/ WriteRecord(id) \/ KillRun(id) PROVE SetInv'
  <2>1. /\ DOMAIN runs' = DOMAIN runs
        /\ UNCHANGED <<plan, checkpoint, attempts, replacements, published, driver, write>>
    BY <1>1 DEF WritePointer, WriteRecord, KillRun
  <2> QED BY <2>1, QuietStep
<1>2. ASSUME NEW id \in Live, NEW exit \in RunExits, NEW fault \in Faults[plan],
             NEW recorded \in BOOLEAN, FinishRun(id, exit, fault, recorded)
      PROVE  SetInv'
  <2>1. /\ DOMAIN runs' = DOMAIN runs
        /\ UNCHANGED <<plan, checkpoint, attempts, replacements, published, driver, write>>
    BY <1>2 DEF FinishRun
  <2> QED BY <2>1, QuietStep
<1>3. CASE StopDriver \/ CrashDriver \/ (plan # None /\ Resume)
  BY <1>3, DriverStep DEF StopDriver, CrashDriver, Resume, Stop
<1>4. CASE UNCHANGED setVars
  BY <1>4, QuietStep DEF setVars
<1> QED BY <1>1, <1>2, <1>3, <1>4, InitializeStep, BeginStep, LaunchStep, RecordStep, SaveStep,
           FinalizeStep, AuthorizeStep DEF SNext

-----------------------------------------------------------------------------
(* Theorems *)

\* The inductive invariant holds: what the checkpoint on disk, and one about to
\* be saved, say of a slot is backed by the records of its attempts; whatever
\* is running was counted first; a set is published from final records.
THEOREM SetInductive == SetSpec => []SetInv
<1>1. SInit => SetInv
  BY InitSet
<1>2. SetInv /\ [SNext]_setVars => SetInv'
  BY StepSet
<1> QED BY <1>1, <1>2, PTL DEF SetSpec

\* Every run that was started is in the audit of a published set, and those
\* that are not members failed for the infrastructure's sake and were replaced
\* by an authorization.
THEOREM EveryRunAudited == SetSpec => []AuditComplete
<1>1. SetInv => AuditComplete
  <2>1. SUFFICES ASSUME SetInv, NEW set \in published, NEW id \in Started
                 PROVE  LET slot == set.identity.slots[id[1]]
                        IN  /\ <<id[2], attempts[id]>> \in slot.attempts
                            /\ id[2] # slot.selected =>
                                 /\ attempts[id].classification = "INFRASTRUCTURE_INVALID"
                                 /\ id \in slot.replacements
    BY DEF AuditComplete
  <2>2. /\ set.identity = SetIdentity /\ Over(checkpoint)
        /\ CheckpointInv(checkpoint, attempts, replacements, Started)
    BY <2>1 DEF SetInv, PublishedInv
  <2>3. PICK s \in DOMAIN checkpoint.slots :
          \E a \in 1..checkpoint.slots[s].attempts : id = <<s, a>>
    BY <2>1, <2>2 DEF CheckpointInv, Counted
  <2>4. PICK a \in 1..checkpoint.slots[s].attempts : id = <<s, a>>
    BY <2>3
  <2>5. /\ Backed(checkpoint, s, attempts, replacements)
        /\ checkpoint.slots[s].state = "VALID_MEMBER" /\ checkpoint.slots[s].attempts \in Nat
    BY <2>2, TableParts DEF CheckpointInv, IsCheckpoint, Over
  <2>6. checkpoint.slots[s].selected = checkpoint.slots[s].attempts /\ id \in DOMAIN attempts
    BY <2>4, <2>5 DEF Backed, SetAside
  <2>7. a # checkpoint.slots[s].selected => SetAside(id, attempts, replacements)
    BY <2>4, <2>5, <2>6 DEF Backed
  <2>8. /\ set.identity.slots[s].selected = checkpoint.slots[s].selected
        /\ set.identity.slots[s].attempts
             = {<<i[2], attempts[i]>> : i \in {j \in DOMAIN attempts : j[1] = s}}
        /\ set.identity.slots[s].replacements = {r \in replacements : r[1] = s}
    BY <2>2 DEF SetIdentity
  <2>9. id[1] = s /\ id[2] = a
    BY <2>4
  <2>10. <<id[2], attempts[id]>> \in set.identity.slots[s].attempts
    BY <2>6, <2>8, <2>9
  <2> QED BY <2>7, <2>8, <2>9, <2>10 DEF SetAside
<1> QED BY <1>1, SetInductive, PTL

\* A run is started only for a slot whose earlier attempts all were set aside,
\* also after the driver was killed between its two writes.
THEOREM ResultsAreFinal == SetSpec => NeverRerunsResult
<1>1. ASSUME SetInv, [SNext]_setVars, NEW id \in DOMAIN runs' \ Started,
             NEW earlier \in {i \in Started : i[1] = id[1]}
      PROVE  SetAside(earlier, attempts, replacements)
  <2>1. LaunchRun
    <3>1. ASSUME NEW x \in Live, WritePointer(x) \/ WriteRecord(x) \/ KillRun(x)
          PROVE  DOMAIN runs' = DOMAIN runs
      BY <3>1 DEF WritePointer, WriteRecord, KillRun
    <3>2. ASSUME NEW x \in Live, NEW exit \in RunExits, NEW fault \in Faults[plan],
                 NEW recorded \in BOOLEAN, FinishRun(x, exit, fault, recorded)
          PROVE  DOMAIN runs' = DOMAIN runs
      BY <3>2 DEF FinishRun
    <3>3. CASE \/ \E p \in Plans : InitializeSet(p)
               \/ BeginSetAttempt \/ RecordSetAttempt \/ ReconcileRunningAttempt
               \/ SaveCheckpoint \/ FinalizeBenchmarkSet \/ StopDriver \/ CrashDriver
               \/ plan # None /\ Resume
               \/ \E s \in DOMAIN checkpoint.slots : AuthorizeSetReplacement(s)
               \/ UNCHANGED setVars
      <4>1. runs' = runs
        BY <3>3 DEF setVars, InitializeSet, BeginSetAttempt, RecordSetAttempt,
           ReconcileRunningAttempt, SaveCheckpoint, FinalizeBenchmarkSet, StopDriver, CrashDriver,
           Resume, AuthorizeSetReplacement
      <4> QED BY <1>1, <4>1 DEF Started
    <3>4. LaunchRun \/ DOMAIN runs' = DOMAIN runs
      BY <1>1, <3>1, <3>2, <3>3 DEF SNext
    <3> QED BY <1>1, <3>4 DEF Started
  <2>2. id = checkpoint.current /\ id \notin Started
    BY <1>1, <2>1 DEF LaunchRun, StartRun, Started, Attempt
  <2>3. Running(checkpoint) /\ CheckpointInv(checkpoint, attempts, replacements, Started)
    BY <1>1, <2>1 DEF LaunchRun, SetInv
  <2>4. PICK s \in DOMAIN checkpoint.slots : id = <<s, checkpoint.slots[s].attempts>>
    BY <2>2, <2>3 DEF Running
  <2>5. PICK t \in DOMAIN checkpoint.slots :
          \E a \in 1..checkpoint.slots[t].attempts : earlier = <<t, a>>
    BY <1>1, <2>3 DEF CheckpointInv, Counted
  <2>6. PICK a \in 1..checkpoint.slots[t].attempts : earlier = <<t, a>>
    BY <2>5
  <2>7. t = s /\ checkpoint.slots[s].attempts \in Nat /\ a # checkpoint.slots[s].attempts
    BY <1>1, <2>2, <2>3, <2>4, <2>6, TableParts DEF CheckpointInv, IsCheckpoint
  <2>8. a \in 1..(checkpoint.slots[s].attempts - 1) /\ earlier = <<s, a>>
    BY <2>6, <2>7
  <2>9. Backed(checkpoint, s, attempts, replacements)
    BY <2>3 DEF CheckpointInv
  <2> QED BY <2>8, <2>9 DEF Backed
<1>2. SetInv /\ [SNext]_setVars =>
        [\A id \in DOMAIN runs' \ Started : \A earlier \in {i \in Started : i[1] = id[1]} :
           /\ earlier \in DOMAIN attempts
           /\ attempts[earlier].classification = "INFRASTRUCTURE_INVALID"
           /\ earlier \in replacements]_setVars
  BY <1>1 DEF SetAside
<1> QED BY <1>2, SetInductive, PTL DEF SetSpec, NeverRerunsResult

-----------------------------------------------------------------------------
(* Publication *)

\* Upload, registry, comparison and workflow as a specification.
PublicationSpec == PInit /\ [][PNext]_publicationVars

\* Authentic, against any set of object versions.
AuthenticIn(entry, seen) ==
  <<entry[1], [content |-> ContentOf(entry[1]), generation |-> entry[2]]>> \in seen

Contents == {<<k, o>> : k \in {"bytes", "foreign"}, o \in ObjectNames}
Versions == [content : Contents, generation : Nat]
Entries == ObjectNames \X Nat
Ids == {e.id : e \in Evidence}

\* The bucket holds only versions that were stored.
StoreInv ==
  /\ IsFiniteSet(stored)
  /\ store \in [ObjectNames -> Versions \cup {None}]
  /\ \A o \in ObjectNames : store[o] # None => <<o, store[o]>> \in stored

\* The object is among those listed.
Listed(o, objects) == \E i \in DOMAIN objects : objects[i][1] = o

\* Each object of the set is verified or still to be uploaded.
Covers(e, verified, left) == e.kind = "set" => \A o \in SetUploadPlan(e) : o \in left \/ Listed(o, verified)

AuthenticList(objects, seen) == \A i \in DOMAIN objects : AuthenticIn(objects[i], seen)

Uploading == {"describe", "create", "confirm"}

\* An upload record.
IsWork(w) == w = [phase |-> w.phase, evidence |-> w.evidence, objects |-> w.objects,
                  verified |-> w.verified, exit |-> w.exit]

\* An upload in progress.
WorkInv(w, seen) ==
  /\ IsWork(w)
  /\ w.exit \in Int
  /\ w.objects \subseteq ObjectNames /\ w.verified \in Seq(Entries)
  /\ AuthenticList(w.verified, seen)
  /\ w.phase \in Uploading => w.objects # {}
  /\ w.phase = "receipt" => w.objects = {}
  /\ w.phase \in Uploading \cup {"receipt"} =>
       w.evidence \in Ids /\ Covers(EvidenceNamed(w.evidence), w.verified, w.objects)

ReceiptInv(r, seen) ==
  /\ AuthenticList(r.objects, seen)
  /\ Covers(EvidenceNamed(r.source), r.objects, {})
  /\ r.kind = EvidenceNamed(r.source).kind

UploadInv ==
  /\ upload = [u \in Uploaders |-> upload[u]]
  /\ receipts = [u \in Uploaders |-> receipts[u]]
  /\ \A u \in Uploaders : WorkInv(upload[u], stored) /\ \A r \in receipts[u] : ReceiptInv(r, stored)

\* An entry of the registry and the receipt behind it.
Bound(entry, all, seen) ==
  /\ entry.receipt \in all
  /\ entry.generation = RecordedGeneration(entry.receipt, <<"manifest", entry.set>>)
  /\ AuthenticIn(<<<<"manifest", entry.set>>, entry.generation>>, seen)

TableInv(table, all, seen) ==
  /\ table = [n \in Names |-> table[n]]
  /\ \A n \in Names : table[n] # None => Bound(table[n], all, seen)

IsDesk(d) == d = [phase |-> d.phase, name |-> d.name, receipt |-> d.receipt, at |-> d.at,
                  candidate |-> d.candidate]

\* The registry, and the registry that each registrar is about to write.
RegistryInv ==
  /\ TableInv(registry, AllReceipts, stored)
  /\ desk = [r \in Registrars |-> desk[r]]
  /\ \A r \in Registrars :
       /\ IsDesk(desk[r])
       /\ desk[r].phase # "idle" => TableInv(desk[r].candidate, AllReceipts, stored)

\* A result whose primary exit is 0 names the set that was asked for.
ResultInv(result, q) ==
  /\ result = [primary |-> result.primary, upload |-> result.upload, set |-> result.set]
  /\ result.primary = Ok =>
       /\ result.set \in Ids
       /\ EvidenceNamed(result.set).kind = "set"
       /\ EvidenceNamed(result.set).profile = q.profile
       /\ Len(EvidenceNamed(result.set).members) = q.repeats

Retained(result, mine) == \E r \in mine : r.kind = "set" /\ r.source = result.set

\* What a recorded retention says happened.
RetentionInv(result, q, mine) ==
  result.primary = Ok /\ q.retention = "gcs" /\ result.upload.exit \in {None, Ok} => Retained(result, mine)

IsJob(j) ==
  /\ j = [phase |-> j.phase, request |-> j.request, result |-> j.result, outcome |-> j.outcome, exit |-> j.exit]
  /\ j.outcome \in [Steps -> {"skipped", "success", "failure"}]

JobInv(j, mine) ==
  /\ IsJob(j)
  /\ j.phase \in {"upload", "record"} => ResultInv(j.result, j.request)
  /\ j.outcome["retention"] = "success" =>
       /\ j.phase \in {"report", "done"}
       /\ ResultInv(j.result, j.request) /\ RetentionInv(j.result, j.request, mine)
  /\ j.phase = "done" /\ j.exit = Ok =>
       /\ j.result.primary = Ok /\ j.result.upload.exit \in {None, Ok}
       /\ j.outcome["retention"] = "success"

\* The inductive invariant.
PublicationInv ==
  /\ StoreInv /\ UploadInv /\ RegistryInv
  /\ JobInv(job, receipts["job"])
  /\ VerdictsAgree

-----------------------------------------------------------------------------
(* Exit codes *)

\* An exit code is an integer.
LEMMA RaiseInt == ASSUME NEW bad, NEW code \in Int PROVE Raise(bad, code) \in Int
BY DEF Raise, Ok

\* The exit of the validation of evidence is an integer.
LEMMA ValidateInt == ASSUME NEW e PROVE ValidateEvidence(e) \in Int
<1> USE DEF Invalid, Unsupported, Contradiction
<1>1. VerifyExactChecksumFile(e) \in Int
  BY RaiseInt DEF VerifyExactChecksumFile
<1>2. ValidateSetEvidence(e) \in Int
  <2> DEFINE unsound == \/ e.repository = None \/ e.status # StatusOf(e.profile)
                        \/ Len(e.members) < MinimumOf(e) \/ e.aggregated # Len(e.members)
             known   == e.status \in {StatusOf(p) : p \in {"canonical", "experiment"}}
  <2>1. ValidateSetEvidence(e)
          = IF VerifyExactChecksumFile(e) # Ok THEN VerifyExactChecksumFile(e)
            ELSE IF ~known THEN Unsupported ELSE Raise(unsound, Contradiction)
    BY Zenon DEF ValidateSetEvidence
  <2> HIDE DEF unsound, known
  <2>2. Raise(unsound, Contradiction) \in Int
    BY DEF Raise, Ok
  <2> QED BY <1>1, <2>1, <2>2
<1>3. ValidateRunEvidence(e) \in Int
  BY <1>1, RaiseInt DEF ValidateRunEvidence
<1> QED BY <1>2, <1>3 DEF ValidateEvidence

-----------------------------------------------------------------------------
(* Comparison *)

\* The greater of two natural numbers.
LEMMA MaxOfTwo ==
  ASSUME NEW a \in Nat, NEW b \in Nat
  PROVE  Max({a, b}) \in {a, b} /\ Max({a, b}) >= a /\ Max({a, b}) >= b
<1>1. \E x \in {a, b} : \A y \in {a, b} : x >= y
  <2>1. CASE a >= b BY <2>1
  <2>2. CASE b >= a BY <2>2
  <2> QED BY <2>1, <2>2
<1> QED BY <1>1 DEF Max

\* A metric that a comparison orders.
Ordered(m) == m.value \in Nat /\ m.variation \in Nat \cup {None}

\* The benefit changes its sign when baseline and candidate are exchanged.
LEMMA BenefitIsAntisymmetric ==
  ASSUME NEW b, NEW c, Ordered(b), Ordered(c), b.direction = c.direction
  PROVE  Benefit(b, c) \in Int /\ Benefit(c, b) = -Benefit(b, c)
BY DEF Ordered, Benefit

\* An improvement has a benefit above 0 and a deterioration one below 0.
LEMMA ContinuousSign ==
  ASSUME NEW b, NEW c, Ordered(b), Ordered(c), b.direction = c.direction
  PROVE  /\ ClassifyContinuous(b, c) \in Better => Benefit(b, c) > 0
         /\ ClassifyContinuous(b, c) \in Worse => Benefit(b, c) < 0
<1> DEFINE variation == Max({b.variation, c.variation})
           neutral == Max({5, variation})
           material == Max({10, 2 * variation})
           benefit == 100 * Benefit(b, c)
           size == IF benefit < 0 THEN -benefit ELSE benefit
           class == IF size <= neutral * b.value THEN "NEUTRAL"
                    ELSE IF benefit > 0
                    THEN IF size >= material * b.value THEN "MATERIAL_IMPROVEMENT" ELSE "IMPROVEMENT"
                    ELSE IF size >= material * b.value THEN "POSSIBLE_REGRESSION" ELSE "WARNING"
<1>1. Benefit(b, c) \in Int BY BenefitIsAntisymmetric
<1>2. CASE b.value = 0
  <2>1. ClassifyContinuous(b, c) = "unclassified" BY <1>2 DEF ClassifyContinuous
  <2> QED BY <2>1 DEF Better, Worse
<1>3. CASE b.value # 0 /\ None \in {b.variation, c.variation}
  <2>1. ClassifyContinuous(b, c) = "unclassified" BY <1>3 DEF ClassifyContinuous
  <2> QED BY <2>1 DEF Better, Worse
<1>4. CASE b.value # 0 /\ None \notin {b.variation, c.variation}
  <2>1. ClassifyContinuous(b, c) = class BY <1>4 DEF ClassifyContinuous
  <2>2. variation \in Nat
    <3>1. b.variation \in Nat /\ c.variation \in Nat BY <1>4 DEF Ordered
    <3> QED BY <3>1, MaxOfTwo
  <2>3. neutral \in Nat
    <3> HIDE DEF variation
    <3>1. 5 \in Nat OBVIOUS
    <3>2. Max({5, variation}) \in {5, variation} BY <2>2, <3>1, MaxOfTwo
    <3> QED BY <2>2, <3>2
  <2> HIDE DEF variation, neutral, material
  <2>4. b.value \in Nat BY DEF Ordered
  <2>5. neutral * b.value \in Nat BY <2>3, <2>4
  <2>6. benefit \in Int /\ size \in Nat BY <1>1
  <2>7. class \in Better => benefit > 0
    BY DEF Better
  <2>8. class \in Worse => ~(size <= neutral * b.value) /\ ~(benefit > 0)
    BY DEF Worse
  <2>9. class \in Worse => size > 0 /\ ~(benefit > 0)
    BY <2>5, <2>6, <2>8
  <2>10. (benefit > 0 => Benefit(b, c) > 0) /\ (size > 0 /\ ~(benefit > 0) => Benefit(b, c) < 0)
    BY <1>1
  <2> HIDE DEF class, benefit, size
  <2> QED BY <2>1, <2>7, <2>9, <2>10
<1> QED BY <1>2, <1>3, <1>4

\* Improved, a metric does not improve again when it is compared the other way
\* round, and one that got worse does not get worse again.
ConverseAgrees(b, c) ==
  /\ ClassifyMetric(b, c) \in Better => ClassifyMetric(c, b) \notin Better
  /\ ClassifyMetric(b, c) \in Worse => ClassifyMetric(c, b) \notin Worse

\* Every two metrics that can be compared agree in this way.
LEMMA ConverseOfMetric ==
  ASSUME NEW b, NEW c, Signature(b) = Signature(c),
         b.statistic = "mean_time" => Ordered(b) /\ Ordered(c)
  PROVE  ConverseAgrees(b, c)
<1>1. b.statistic = c.statistic /\ b.direction = c.direction BY DEF Signature
<1>2. CASE b.statistic = "mean_time"
  <2>1. ClassifyMetric(b, c) = ClassifyContinuous(b, c) /\ ClassifyMetric(c, b) = ClassifyContinuous(c, b)
    BY <1>1, <1>2 DEF ClassifyMetric
  <2>2. Benefit(b, c) \in Int /\ Benefit(c, b) = -Benefit(b, c)
    BY <1>1, <1>2, BenefitIsAntisymmetric
  <2>3. /\ ClassifyContinuous(b, c) \in Better => Benefit(b, c) > 0
        /\ ClassifyContinuous(b, c) \in Worse => Benefit(b, c) < 0
        /\ ClassifyContinuous(c, b) \in Better => Benefit(c, b) > 0
        /\ ClassifyContinuous(c, b) \in Worse => Benefit(c, b) < 0
    BY <1>1, <1>2, ContinuousSign
  <2> QED BY <2>1, <2>2, <2>3 DEF ConverseAgrees
<1>3. CASE b.statistic = "health"
  <2>1. ClassifyMetric(b, c) = ClassifyHealth(b, c) /\ ClassifyMetric(c, b) = ClassifyHealth(c, b)
    BY <1>1, <1>3 DEF ClassifyMetric
  <2>2. ClassifyHealth(b, c) \notin Better /\ ClassifyHealth(c, b) \notin Better
    BY DEF ClassifyHealth, Better, HealthyConsensus
  <2>3. ClassifyHealth(b, c) \in Worse => ~HealthyConsensus(c.value)
    BY DEF ClassifyHealth, Worse, HealthyConsensus
  <2>4. ~HealthyConsensus(c.value) => ClassifyHealth(c, b) \notin Worse
    BY DEF ClassifyHealth, Worse
  <2> QED BY <2>1, <2>2, <2>3, <2>4 DEF ConverseAgrees
<1>4. CASE b.statistic \notin {"mean_time", "health"}
  <2>1. ClassifyMetric(b, c) \in {"NEUTRAL", "unclassified"}
    BY <1>4 DEF ClassifyMetric
  <2> QED BY <2>1 DEF ConverseAgrees, Better, Worse
<1> QED BY <1>2, <1>3, <1>4

\* What VerdictsAgree says of one comparison document.
AgreesWithConverse(v) ==
  v # None /\ v.status # "INCOMPARABLE" =>
    \E b, c \in Evidence :
      /\ ComparisonIdentity(b, c, v.id[3]) = v.id
      /\ \A m \in DOMAIN v.metrics :
           LET back == ClassifyMetric(c.metrics[m], b.metrics[m])
           IN  /\ v.metrics[m] \in Better => back \notin Better
               /\ v.metrics[m] \in Worse => back \notin Worse

\* Every document that a comparison writes agrees with its converse.
LEMMA ComparisonAgrees ==
  ASSUME NEW b \in Evidence, NEW c \in Evidence, NEW x
  PROVE  AgreesWithConverse(CompareBenchmarks(b, c, x))
<1> DEFINE v == CompareBenchmarks(b, c, x)
           status == CompatibilityDecision(b, c, x)
<1>1. SUFFICES ASSUME v.status # "INCOMPARABLE"
      PROVE  AgreesWithConverse(v)
  BY DEF AgreesWithConverse
<1>2. v.status = status /\ v.id = <<b.id, c.id, x>>
  BY DEF CompareBenchmarks, ComparisonIdentity
<1>3. v.metrics = [m \in DOMAIN b.metrics |-> ClassifyMetric(b.metrics[m], c.metrics[m])]
  BY <1>1, <1>2 DEF CompareBenchmarks
<1>4. /\ DOMAIN b.metrics = DOMAIN c.metrics
      /\ \A m \in DOMAIN b.metrics : Signature(b.metrics[m]) = Signature(c.metrics[m])
  BY <1>1, <1>2 DEF CompatibilityDecision
<1>5. ComparisonIdentity(b, c, v.id[3]) = v.id
  BY <1>2 DEF ComparisonIdentity
<1>6. ASSUME NEW m \in DOMAIN v.metrics
      PROVE  /\ v.metrics[m] \in Better => ClassifyMetric(c.metrics[m], b.metrics[m]) \notin Better
             /\ v.metrics[m] \in Worse => ClassifyMetric(c.metrics[m], b.metrics[m]) \notin Worse
  <2>1. m \in DOMAIN b.metrics /\ m \in DOMAIN c.metrics /\ Signature(b.metrics[m]) = Signature(c.metrics[m])
    BY <1>3, <1>4, <1>6
  <2>2. b.metrics[m].statistic = "mean_time" => Ordered(b.metrics[m]) /\ Ordered(c.metrics[m])
    BY <2>1, EvidenceAssumption DEF Signature, Ordered
  <2>3. ConverseAgrees(b.metrics[m], c.metrics[m])
    BY <2>1, <2>2, ConverseOfMetric
  <2>4. v.metrics[m] = ClassifyMetric(b.metrics[m], c.metrics[m])
    BY <1>3, <2>1
  <2> QED BY <2>3, <2>4 DEF ConverseAgrees
<1> HIDE DEF v
<1> QED BY <1>5, <1>6 DEF AgreesWithConverse

-----------------------------------------------------------------------------
(* What grows keeps what was established *)

\* Evidence is found under its identity.
LEMMA NamedEvidence ==
  ASSUME NEW id \in Ids
  PROVE  EvidenceNamed(id) \in Evidence /\ EvidenceNamed(id).id = id
BY DEF Ids, EvidenceNamed

\* Evidence found under the identity of evidence is that evidence.
LEMMA NamedIsUnique ==
  ASSUME NEW e \in Evidence
  PROVE  e.id \in Ids /\ EvidenceNamed(e.id) = e
<1>1. e.id \in Ids BY DEF Ids
<1>2. EvidenceNamed(e.id) \in Evidence /\ EvidenceNamed(e.id).id = e.id BY <1>1, NamedEvidence
<1> QED BY <1>1, <1>2, EvidenceAssumption

\* An upload stays as it is when more was stored.
LEMMA WorkKept ==
  ASSUME NEW w, NEW seen, NEW more, seen \subseteq more, WorkInv(w, seen)
  PROVE  WorkInv(w, more)
<1>1. AuthenticList(w.verified, more) BY DEF WorkInv, AuthenticList, AuthenticIn
<1> QED BY <1>1 DEF WorkInv

\* And so does a receipt.
LEMMA ReceiptKept ==
  ASSUME NEW r, NEW seen, NEW more, seen \subseteq more, ReceiptInv(r, seen)
  PROVE  ReceiptInv(r, more)
<1>1. AuthenticList(r.objects, more) BY DEF ReceiptInv, AuthenticList, AuthenticIn
<1> QED BY <1>1 DEF ReceiptInv

\* And a registry, also when more receipts were written.
LEMMA TableKept ==
  ASSUME NEW table, NEW all, NEW seen, NEW allMore, NEW more,
         all \subseteq allMore, seen \subseteq more, TableInv(table, all, seen)
  PROVE  TableInv(table, allMore, more)
<1>1. ASSUME NEW n \in Names, table[n] # None
      PROVE  Bound(table[n], allMore, more)
  <2>1. Bound(table[n], all, seen) BY <1>1 DEF TableInv
  <2> QED BY <2>1 DEF Bound, AuthenticIn
<1> QED BY <1>1 DEF TableInv

\* And a job.
LEMMA JobKept ==
  ASSUME NEW j, NEW mine, NEW more, mine \subseteq more, JobInv(j, mine)
  PROVE  JobInv(j, more)
<1>1. RetentionInv(j.result, j.request, mine) => RetentionInv(j.result, j.request, more)
  BY DEF RetentionInv, Retained
<1> QED BY <1>1 DEF JobInv

\* The uploads when one of them took a step and more was stored.
LEMMA OneUpload ==
  ASSUME UploadInv, stored \subseteq stored', UNCHANGED receipts,
         NEW u \in Uploaders, NEW w, WorkInv(w, stored'), upload' = [upload EXCEPT ![u] = w]
  PROVE  UploadInv'
<1>1. upload' = [v \in Uploaders |-> IF v = u THEN w ELSE upload[v]]
  BY DEF UploadInv
<1>2. upload' = [v \in Uploaders |-> upload'[v]] BY <1>1
<1>3. ASSUME NEW v \in Uploaders PROVE WorkInv(upload'[v], stored')
  <2>1. CASE v = u BY <1>1, <2>1
  <2>2. CASE v # u
    <3>1. upload'[v] = upload[v] BY <1>1, <2>2
    <3>2. WorkInv(upload[v], stored) BY DEF UploadInv
    <3> QED BY <3>1, <3>2, WorkKept
  <2> QED BY <2>1, <2>2
<1>4. ASSUME NEW v \in Uploaders, NEW r \in receipts'[v] PROVE ReceiptInv(r, stored')
  <2>1. ReceiptInv(r, stored) BY <1>4 DEF UploadInv
  <2> QED BY <2>1, ReceiptKept
<1>5. receipts' = [v \in Uploaders |-> receipts'[v]] BY DEF UploadInv
<1> QED BY <1>2, <1>3, <1>4, <1>5 DEF UploadInv

\* The uploads when none of them took a step and more was stored.
LEMMA NoUploads ==
  ASSUME UploadInv, stored \subseteq stored', UNCHANGED <<receipts, upload>>
  PROVE  UploadInv'
<1>1. ASSUME NEW v \in Uploaders PROVE WorkInv(upload'[v], stored')
  <2>1. WorkInv(upload[v], stored) BY DEF UploadInv
  <2> QED BY <2>1, WorkKept
<1>2. ASSUME NEW v \in Uploaders, NEW r \in receipts'[v] PROVE ReceiptInv(r, stored')
  <2>1. ReceiptInv(r, stored) BY <1>2 DEF UploadInv
  <2> QED BY <2>1, ReceiptKept
<1> QED BY <1>1, <1>2 DEF UploadInv

\* The registry and the job when they were left alone.
Rest == RegistryInv /\ JobInv(job, receipts["job"]) /\ VerdictsAgree

LEMMA RestKept ==
  ASSUME Rest, UploadInv, stored \subseteq stored', \A u \in Uploaders : receipts[u] \subseteq receipts'[u],
         UNCHANGED <<registry, desk, job, verdict>>
  PROVE  Rest'
<1>1. AllReceipts \subseteq AllReceipts' BY DEF AllReceipts
<1>2. RegistryInv'
  <2>1. TableInv(registry, AllReceipts', stored')
    <3>1. TableInv(registry, AllReceipts, stored) BY DEF Rest, RegistryInv
    <3> QED BY <1>1, <3>1, TableKept
  <2>2. ASSUME NEW r \in Registrars, desk[r].phase # "idle"
        PROVE  TableInv(desk[r].candidate, AllReceipts', stored')
    <3>1. TableInv(desk[r].candidate, AllReceipts, stored) BY <2>2 DEF Rest, RegistryInv
    <3> QED BY <1>1, <3>1, TableKept
  <2>3. desk = [r \in Registrars |-> desk[r]] /\ \A r \in Registrars : IsDesk(desk[r])
    BY DEF Rest, RegistryInv
  <2> QED BY <2>1, <2>2, <2>3 DEF RegistryInv
<1>3. JobInv(job, receipts["job"])'
  <2>1. JobInv(job, receipts["job"]) BY DEF Rest
  <2>2. receipts["job"] \subseteq receipts'["job"] BY DEF Uploaders
  <2>3. JobInv(job, receipts'["job"]) BY <2>1, <2>2, JobKept
  <2> QED BY <2>3
<1>4. VerdictsAgree' BY DEF Rest, VerdictsAgree
<1> QED BY <1>2, <1>3, <1>4 DEF Rest

\* The store when an object was written.
LEMMA PutKeeps ==
  ASSUME StoreInv, NEW o \in ObjectNames, NEW content \in Contents, PutObject(o, content)
  PROVE  StoreInv' /\ stored \subseteq stored'
<1> DEFINE version == [content |-> content, generation |-> Generation]
<1>1. Generation \in Nat BY FS_CardinalityType DEF StoreInv, Generation
<1>2. version \in Versions BY <1>1 DEF Versions
<1> HIDE DEF version
<1>3. store' = [store EXCEPT ![o] = version] /\ stored' = stored \cup {<<o, version>>}
  BY DEF PutObject, version
<1>4. IsFiniteSet(stored') BY <1>3, FS_AddElement DEF StoreInv
<1>5. store' \in [ObjectNames -> Versions \cup {None}] BY <1>2, <1>3 DEF StoreInv
<1>6. \A p \in ObjectNames : store'[p] # None => <<p, store'[p]>> \in stored'
  BY <1>3 DEF StoreInv
<1> QED BY <1>3, <1>4, <1>5, <1>6 DEF StoreInv

-----------------------------------------------------------------------------
(* Uploads *)

\* An upload record with these fields.
HasFields(w, p, e, o, v, x) ==
  IsWork(w) /\ w.phase = p /\ w.evidence = e /\ w.objects = o /\ w.verified = v /\ w.exit = x

\* What a step may set of an upload.
LEMMA WorkFields ==
  ASSUME NEW w, IsWork(w), NEW p, NEW e, NEW o, NEW v, NEW x
  PROVE  /\ \A z : z = [w EXCEPT !.phase = p, !.exit = x] =>
                     HasFields(z, p, w.evidence, w.objects, w.verified, x)
         /\ \A z : z = [w EXCEPT !.phase = p] =>
                     HasFields(z, p, w.evidence, w.objects, w.verified, w.exit)
         /\ \A z : z = [w EXCEPT !.verified = v, !.objects = o, !.phase = p] =>
                     HasFields(z, p, w.evidence, o, v, w.exit)
         /\ \A z : z = [w EXCEPT !.phase = p, !.evidence = e, !.exit = x] =>
                     HasFields(z, p, e, w.objects, w.verified, x)
         /\ \A z : z = [w EXCEPT !.phase = p, !.evidence = e, !.objects = o] =>
                     HasFields(z, p, e, o, w.verified, w.exit)
<1>1. ASSUME NEW z, z = [w EXCEPT !.phase = p, !.exit = x]
      PROVE  HasFields(z, p, w.evidence, w.objects, w.verified, x)
  BY <1>1 DEF IsWork, HasFields
<1>2. ASSUME NEW z, z = [w EXCEPT !.phase = p]
      PROVE  HasFields(z, p, w.evidence, w.objects, w.verified, w.exit)
  BY <1>2 DEF IsWork, HasFields
<1>3. ASSUME NEW z, z = [w EXCEPT !.verified = v, !.objects = o, !.phase = p]
      PROVE  HasFields(z, p, w.evidence, o, v, w.exit)
  BY <1>3 DEF IsWork, HasFields
<1>4. ASSUME NEW z, z = [w EXCEPT !.phase = p, !.evidence = e, !.exit = x]
      PROVE  HasFields(z, p, e, w.objects, w.verified, x)
  BY <1>4 DEF IsWork, HasFields
<1>5. ASSUME NEW z, z = [w EXCEPT !.phase = p, !.evidence = e, !.objects = o]
      PROVE  HasFields(z, p, e, o, w.verified, w.exit)
  BY <1>5 DEF IsWork, HasFields
<1> QED BY <1>1, <1>2, <1>3, <1>4, <1>5

\* Nothing is under way.
LEMMA IdleWork == ASSUME NEW seen PROVE WorkInv(Idle, seen)
<1>1. <<>> \in Seq(Entries) /\ DOMAIN <<>> = {} OBVIOUS
<1> QED BY <1>1 DEF WorkInv, IsWork, Idle, AuthenticList, Uploading

\* What can be planned for evidence.
LEMMA PlanOf ==
  ASSUME NEW e \in Evidence
  PROVE  /\ PlanEvidenceUpload(e).error \in Int
         /\ PlanEvidenceUpload(e).objects \subseteq ObjectNames
         /\ PlanEvidenceUpload(e).objects # {}
         /\ Covers(e, <<>>, PlanEvidenceUpload(e).objects)
<1> DEFINE planned == PlanEvidenceUpload(e)
<1>1. planned.error \in Int BY ValidateInt DEF PlanEvidenceUpload
<1>2. planned.objects = IF e.kind = "set" THEN SetUploadPlan(e) ELSE RunUploadPlan(e.id)
  BY DEF PlanEvidenceUpload
<1>3. SetUploadPlan(e) # {} /\ RunUploadPlan(e.id) # {}
  <2>1. <<"manifest", e.id>> \in SetUploadPlan(e)
    <3>1. PICK members : members = UNION {RunUploadPlan(e.members[i]) : i \in DOMAIN e.members} OBVIOUS
    <3>2. SetUploadPlan(e) = members \cup {<<"manifest", e.id>>} BY <3>1 DEF SetUploadPlan
    <3> QED BY <3>2
  <2>2. <<"run", e.id>> \in RunUploadPlan(e.id) BY Zenon DEF RunUploadPlan
  <2> QED BY <2>1, <2>2
<1>4. SetUploadPlan(e) \subseteq ObjectNames /\ RunUploadPlan(e.id) \subseteq ObjectNames
  <2>1. RunUploadPlan(e.id) \cup SetUploadPlan(e) \in {RunUploadPlan(f.id) \cup SetUploadPlan(f) : f \in Evidence}
    OBVIOUS
  <2> QED BY <2>1, Zenon DEF ObjectNames
<1> QED BY <1>1, <1>2, <1>3, <1>4 DEF Covers

\* An upload that starts.
LEMMA StartKeeps ==
  ASSUME UploadInv, NEW u \in Uploaders, NEW e \in Evidence, StartUpload(u, e),
         UNCHANGED <<stored, receipts>>
  PROVE  UploadInv'
<1> DEFINE planned == PlanEvidenceUpload(e)
<1>1. IsWork(Idle) /\ Idle.objects = {} /\ Idle.verified = <<>> /\ Idle.exit = 0
  BY DEF IsWork, Idle
<1>2. <<>> \in Seq(Entries) /\ DOMAIN <<>> = {} OBVIOUS
<1>3. PICK bad : bad = [Idle EXCEPT !.phase = "ended", !.evidence = e.id, !.exit = planned.error] OBVIOUS
<1>4. PICK good : good = [Idle EXCEPT !.phase = "describe", !.evidence = e.id, !.objects = planned.objects] OBVIOUS
<1>5. PICK w : w = IF planned.error # Ok THEN bad ELSE good OBVIOUS
<1>6. upload' = [upload EXCEPT ![u] = w]
  BY <1>3, <1>4, <1>5 DEF StartUpload
<1>7. planned.error \in Int /\ planned.objects \subseteq ObjectNames /\ planned.objects # {} /\ Covers(e, <<>>, planned.objects)
  BY PlanOf
<1> HIDE DEF planned
<1>8. HasFields(bad, "ended", e.id, {}, <<>>, planned.error) BY <1>1, <1>3, WorkFields
<1>9. HasFields(good, "describe", e.id, planned.objects, <<>>, 0) BY <1>1, <1>4, WorkFields
<1>10. WorkInv(bad, stored')
  BY <1>2, <1>7, <1>8 DEF WorkInv, HasFields, AuthenticList, Uploading
<1>11. WorkInv(good, stored')
  BY <1>2, <1>7, <1>9, NamedIsUnique DEF WorkInv, HasFields, AuthenticList, Uploading
<1>12. WorkInv(w, stored') BY <1>5, <1>10, <1>11
<1> QED BY <1>6, <1>12, OneUpload

\* An upload that fails.
LEMMA FailKeeps ==
  ASSUME UploadInv, NEW u \in Uploaders, NEW code \in Int, FailUpload(u, code),
         UNCHANGED <<stored, receipts>>
  PROVE  UploadInv'
<1> DEFINE w == upload[u]
<1>1. WorkInv(w, stored) BY DEF UploadInv
<1>2. PICK z : z = [w EXCEPT !.phase = "ended", !.exit = code] OBVIOUS
<1>3. upload' = [upload EXCEPT ![u] = z] BY <1>2 DEF FailUpload, UploadInv
<1>4. HasFields(z, "ended", w.evidence, w.objects, w.verified, code)
  BY <1>1, <1>2, WorkFields DEF WorkInv
<1>5. WorkInv(z, stored')
  BY <1>1, <1>4 DEF WorkInv, HasFields, Uploading
<1> QED BY <1>3, <1>5, OneUpload

\* An upload that goes on to the next call for the same object.
LEMMA PhaseKeeps ==
  ASSUME UploadInv, NEW u \in Uploaders, upload[u].phase \in Uploading,
         NEW p \in Uploading, upload' = [upload EXCEPT ![u].phase = p],
         UNCHANGED receipts, stored \subseteq stored'
  PROVE  UploadInv'
<1> DEFINE w == upload[u]
<1>1. WorkInv(w, stored') BY WorkKept DEF UploadInv
<1>2. PICK z : z = [w EXCEPT !.phase = p] OBVIOUS
<1>3. upload' = [upload EXCEPT ![u] = z] BY <1>2 DEF UploadInv
<1>4. HasFields(z, p, w.evidence, w.objects, w.verified, w.exit)
  BY <1>1, <1>2, WorkFields DEF WorkInv
<1>5. WorkInv(z, stored')
  BY <1>1, <1>4 DEF WorkInv, HasFields, Uploading
<1> QED BY <1>3, <1>5, OneUpload

\* The object an upload is at is one of those still to be uploaded.
LEMMA CurrentIsLeft ==
  ASSUME UploadInv, NEW u \in Uploaders, upload[u].phase \in Uploading
  PROVE  CurrentObject(u) \in upload[u].objects /\ CurrentObject(u) \in ObjectNames
<1>1. upload[u].objects # {} /\ upload[u].objects \subseteq ObjectNames BY DEF UploadInv, WorkInv
<1>2. CurrentObject(u) = FirstByUri(upload[u].objects) BY DEF CurrentObject, Uploading
<1>3. ASSUME NEW S, S # {} PROVE FirstByUri(S) \in S
  <2> DEFINE raw == {o \in S : o[1] = "run"}
  <2>1. \E o \in S : raw # {} => o \in raw BY <1>3
  <2> QED BY <2>1 DEF FirstByUri
<1> QED BY <1>1, <1>2, <1>3

\* An object that was verified.
LEMMA VerifyKeeps ==
  ASSUME StoreInv, UploadInv, NEW u \in Uploaders, upload[u].phase \in Uploading,
         store[CurrentObject(u)] # None, VerifyCurrent(u, store[CurrentObject(u)]),
         UNCHANGED <<stored, receipts>>
  PROVE  UploadInv'
<1> DEFINE w == upload[u]
           object == CurrentObject(u)
           remote == store[object]
           entry == <<object, remote.generation>>
           p == IF w.objects = {object} THEN "receipt" ELSE "describe"
<1>1. WorkInv(w, stored) BY DEF UploadInv
<1>2. object \in w.objects /\ object \in ObjectNames BY CurrentIsLeft
<1>3. remote \in Versions /\ <<object, remote>> \in stored BY <1>2 DEF StoreInv
<1>4. CASE ~VerifyRemoteUploadObject(ContentOf(object), remote)
  <2>1. FailUpload(u, UploadError) BY <1>4 DEF VerifyCurrent
  <2> QED BY <2>1, FailKeeps DEF UploadError
<1>5. CASE VerifyRemoteUploadObject(ContentOf(object), remote)
  <2>1. remote = [content |-> ContentOf(object), generation |-> remote.generation]
    BY <1>3, <1>5 DEF VerifyRemoteUploadObject, Versions
  <2>2. entry \in Entries BY <1>2, <1>3 DEF Entries, Versions
  <2>3. AuthenticIn(entry, stored) BY <1>3, <2>1 DEF AuthenticIn
  <2> DEFINE v == Append(w.verified, entry)
  <2>4. PICK z : z = [w EXCEPT !.verified = v, !.objects = w.objects \ {object}, !.phase = p] OBVIOUS
  <2>5. upload' = [upload EXCEPT ![u] = z]
    BY <1>5, <2>4 DEF VerifyCurrent, UploadInv
  <2>6. HasFields(z, p, w.evidence, w.objects \ {object}, v, w.exit)
    <3> HIDE DEF p, object, v
    <3> QED BY <1>1, <2>4, WorkFields DEF WorkInv
  <2>7. w.verified \in Seq(Entries) /\ AuthenticList(w.verified, stored) BY <1>1 DEF WorkInv
  <2> HIDE DEF entry
  <2>8. /\ v \in Seq(Entries) /\ Len(v) = Len(w.verified) + 1 /\ v[Len(v)] = entry
        /\ \A i \in 1..Len(w.verified) : v[i] = w.verified[i]
        /\ DOMAIN v = 1..(Len(w.verified) + 1) /\ DOMAIN w.verified = 1..Len(w.verified)
        /\ Len(w.verified) \in Nat
    BY <2>2, <2>7
  <2>9. AuthenticList(v, stored) BY <2>3, <2>7, <2>8 DEF AuthenticList
  <2> HIDE DEF v, object
  <2>10. Listed(object, v)
    <3>1. Len(v) \in DOMAIN v /\ v[Len(v)] = entry BY <2>8
    <3>2. entry[1] = object BY DEF entry
    <3> QED BY <3>1, <3>2 DEF Listed
  <2>11. \A o : Listed(o, w.verified) => Listed(o, v) BY <2>8 DEF Listed
  <2>12. w.evidence \in Ids /\ Covers(EvidenceNamed(w.evidence), v, w.objects \ {object})
    <3>1. w.evidence \in Ids /\ Covers(EvidenceNamed(w.evidence), w.verified, w.objects)
      BY <1>1 DEF WorkInv
    <3> QED BY <3>1, <2>10, <2>11 DEF Covers
  <2>13. WorkInv(z, stored')
    <3>1. (p = "receipt" => w.objects \ {object} = {}) /\ (p \in Uploading => w.objects \ {object} # {})
      BY <1>2 DEF Uploading, p
    <3>2. w.objects \subseteq ObjectNames /\ w.exit \in Int BY <1>1 DEF WorkInv
    <3> HIDE DEF p
    <3> QED BY <2>6, <2>8, <2>9, <2>12, <3>1, <3>2 DEF WorkInv, HasFields, Uploading
  <2> QED BY <2>5, <2>13, OneUpload
<1> QED BY <1>4, <1>5

-----------------------------------------------------------------------------
(* One lemma per action *)

\* What every step of an upload leaves alone.
LEMMA AfterUpload ==
  ASSUME PublicationInv, StoreInv', UploadInv', stored \subseteq stored', UNCHANGED <<receipts, registry, desk, job, verdict>>
  PROVE  PublicationInv'
<1>1. Rest' BY RestKept DEF PublicationInv, Rest
<1> QED BY <1>1 DEF PublicationInv, Rest

\* upload_and_verify_object up to its first describe.
LEMMA DescribeKeeps ==
  ASSUME PublicationInv, NEW u \in Uploaders, DescribeObject(u)
  PROVE  PublicationInv'
<1>1. upload[u].phase = "describe" /\ UNCHANGED <<store, stored, receipts, registry, desk, job, verdict>>
  BY DEF DescribeObject
<1>2. StoreInv /\ UploadInv BY DEF PublicationInv
<1>3. StoreInv' BY <1>1, <1>2 DEF StoreInv
<1>4. CASE upload[u].evidence \notin disk
  <2>1. FailUpload(u, Contradiction) BY <1>4 DEF DescribeObject
  <2>2. UploadInv' BY <1>1, <1>2, <2>1, FailKeeps DEF Contradiction
  <2> QED BY <1>1, <1>3, <2>2, AfterUpload
<1>5. CASE upload[u].evidence \in disk /\ store[CurrentObject(u)] = None
  <2>1. upload' = [upload EXCEPT ![u].phase = "create"] BY <1>5 DEF DescribeObject
  <2>2. UploadInv' BY <1>1, <1>2, <2>1, PhaseKeeps DEF Uploading
  <2> QED BY <1>1, <1>3, <2>2, AfterUpload
<1>6. CASE upload[u].evidence \in disk /\ store[CurrentObject(u)] # None
  <2>1. VerifyCurrent(u, store[CurrentObject(u)]) BY <1>6 DEF DescribeObject
  <2>2. UploadInv' BY <1>1, <1>2, <1>6, <2>1, VerifyKeeps DEF Uploading
  <2> QED BY <1>1, <1>3, <2>2, AfterUpload
<1> QED BY <1>4, <1>5, <1>6

\* The planner's bytes of an object.
LEMMA PlannedContent == ASSUME NEW o \in ObjectNames PROVE ContentOf(o) \in Contents
BY DEF ContentOf, Contents

\* create, whatever it reports: the object was written or nothing was.
LEMMA CreateKeeps ==
  ASSUME PublicationInv, NEW u \in Uploaders, CreateObject(u) \/ CreateFails(u)
  PROVE  PublicationInv'
<1>1. /\ upload[u].phase = "create" /\ UNCHANGED <<receipts, registry, desk, job, verdict>>
      /\ upload' = [upload EXCEPT ![u].phase = "confirm"]
      /\ UNCHANGED <<store, stored>> \/ PutObject(CurrentObject(u), ContentOf(CurrentObject(u)))
  BY DEF CreateObject, CreateFails
<1>2. StoreInv /\ UploadInv BY DEF PublicationInv
<1>3. CurrentObject(u) \in ObjectNames BY <1>1, <1>2, CurrentIsLeft DEF Uploading
<1>4. StoreInv' /\ stored \subseteq stored'
  <2>1. CASE UNCHANGED <<store, stored>> BY <1>2, <2>1 DEF StoreInv
  <2>2. CASE PutObject(CurrentObject(u), ContentOf(CurrentObject(u)))
    BY <1>2, <1>3, <2>2, PlannedContent, PutKeeps
  <2> QED BY <1>1, <2>1, <2>2
<1>5. UploadInv' BY <1>1, <1>2, <1>4, PhaseKeeps DEF Uploading
<1> QED BY <1>1, <1>4, <1>5, AfterUpload

\* The second describe.
LEMMA ConfirmKeeps ==
  ASSUME PublicationInv, NEW u \in Uploaders, ConfirmObject(u)
  PROVE  PublicationInv'
<1>1. upload[u].phase = "confirm" /\ UNCHANGED <<store, stored, receipts, registry, desk, job, verdict>>
  BY DEF ConfirmObject
<1>2. StoreInv /\ UploadInv BY DEF PublicationInv
<1>3. StoreInv' BY <1>1, <1>2 DEF StoreInv
<1>4. CASE store[CurrentObject(u)] = None
  <2>1. FailUpload(u, UploadError) BY <1>4 DEF ConfirmObject
  <2>2. UploadInv' BY <1>1, <1>2, <2>1, FailKeeps DEF UploadError
  <2> QED BY <1>1, <1>3, <2>2, AfterUpload
<1>5. CASE store[CurrentObject(u)] # None
  <2>1. VerifyCurrent(u, store[CurrentObject(u)]) BY <1>5 DEF ConfirmObject
  <2>2. UploadInv' BY <1>1, <1>2, <1>5, <2>1, VerifyKeeps DEF Uploading
  <2> QED BY <1>1, <1>3, <2>2, AfterUpload
<1> QED BY <1>4, <1>5

\* The receipt of an upload that verified all its objects.
LEMMA FinishKeeps ==
  ASSUME PublicationInv, NEW u \in Uploaders, FinishUpload(u)
  PROVE  PublicationInv'
<1> DEFINE w == upload[u]
<1>1. /\ w.phase = "receipt" /\ UNCHANGED <<store, stored, registry, desk, job, verdict>>
      /\ receipts' = [receipts EXCEPT ![u] = receipts[u] \cup {ReceiptOf(u)}]
      /\ upload' = [upload EXCEPT ![u].phase = "ended", ![u].exit = Ok]
  BY DEF FinishUpload
<1>2. StoreInv /\ UploadInv BY DEF PublicationInv
<1>3. StoreInv' BY <1>1, <1>2 DEF StoreInv
<1>4. WorkInv(w, stored) BY <1>2 DEF UploadInv
<1>5. ReceiptInv(ReceiptOf(u), stored)
  BY <1>1, <1>4 DEF WorkInv, ReceiptInv, ReceiptOf
<1>6. \A v \in Uploaders : receipts'[v] = IF v = u THEN receipts[u] \cup {ReceiptOf(u)} ELSE receipts[v]
  BY <1>1, <1>2 DEF UploadInv
<1>7. receipts' = [v \in Uploaders |-> receipts'[v]]
  <2>1. receipts = [v \in Uploaders |-> receipts[v]] BY <1>2 DEF UploadInv
  <2> QED BY <1>1, <2>1
<1>8. PICK z : z = [w EXCEPT !.phase = "ended", !.exit = Ok] OBVIOUS
<1>9. upload' = [upload EXCEPT ![u] = z] BY <1>1, <1>2, <1>8 DEF UploadInv
<1>10. HasFields(z, "ended", w.evidence, w.objects, w.verified, Ok)
  BY <1>4, <1>8, WorkFields DEF WorkInv
<1>11. WorkInv(z, stored) BY <1>4, <1>10 DEF WorkInv, HasFields, Uploading, Ok
<1>12. upload' = [v \in Uploaders |-> upload'[v]] /\ \A v \in Uploaders : upload'[v] = IF v = u THEN z ELSE upload[v]
  <2>1. upload = [v \in Uploaders |-> upload[v]] BY <1>2 DEF UploadInv
  <2> QED BY <1>9, <2>1
<1>13. UploadInv'
  <2>1. ASSUME NEW v \in Uploaders PROVE WorkInv(upload'[v], stored)
    BY <1>2, <1>11, <1>12 DEF UploadInv
  <2>2. ASSUME NEW v \in Uploaders, NEW r \in receipts'[v] PROVE ReceiptInv(r, stored)
    BY <1>2, <1>5, <1>6, <2>2 DEF UploadInv
  <2> QED BY <1>1, <1>7, <1>12, <2>1, <2>2 DEF UploadInv
<1>14. \A v \in Uploaders : receipts[v] \subseteq receipts'[v] BY <1>6
<1>15. Rest' BY <1>1, <1>2, <1>14, RestKept DEF PublicationInv, Rest
<1> QED BY <1>3, <1>13, <1>15 DEF PublicationInv, Rest

\* The upload of the receipt fails.
LEMMA ReceiptFailKeeps ==
  ASSUME PublicationInv, NEW u \in Uploaders, ReceiptUploadFails(u)
  PROVE  PublicationInv'
<1>1. FailUpload(u, UploadError) /\ UNCHANGED <<store, stored, receipts, registry, desk, job, verdict>>
  BY DEF ReceiptUploadFails
<1>2. StoreInv' BY <1>1 DEF PublicationInv, StoreInv
<1>3. UploadInv' BY <1>1, FailKeeps DEF UploadError, PublicationInv
<1> QED BY <1>1, <1>2, <1>3, AfterUpload

\* An upload by hand.
LEMMA OperatorKeeps ==
  ASSUME PublicationInv, NEW e \in Evidence, OperatorUploads(e)
  PROVE  PublicationInv'
<1>1. StartUpload("operator", e) /\ UNCHANGED <<store, stored, receipts, registry, desk, job, verdict>>
  BY DEF OperatorUploads
<1>2. StoreInv' BY <1>1 DEF PublicationInv, StoreInv
<1>3. UploadInv' BY <1>1, StartKeeps DEF Uploaders, PublicationInv
<1> QED BY <1>1, <1>2, <1>3, AfterUpload

\* Somebody else's write or deletion.
LEMMA ForeignKeeps ==
  ASSUME PublicationInv, NEW o \in DOMAIN store, ForeignWrite(o)
  PROVE  PublicationInv'
<1>1. /\ UNCHANGED <<receipts, upload, registry, desk, job, verdict>>
      /\ \/ PutObject(o, <<"foreign", o>>)
         \/ store' = [store EXCEPT ![o] = None] /\ UNCHANGED stored
  BY DEF ForeignWrite
<1>2. StoreInv /\ UploadInv /\ o \in ObjectNames BY DEF PublicationInv, StoreInv
<1>3. StoreInv' /\ stored \subseteq stored'
  <2>1. CASE PutObject(o, <<"foreign", o>>)
    <3>1. <<"foreign", o>> \in Contents BY <1>2 DEF Contents
    <3> QED BY <1>2, <2>1, <3>1, PutKeeps
  <2>2. CASE store' = [store EXCEPT ![o] = None] /\ UNCHANGED stored
    BY <1>2, <2>2 DEF StoreInv
  <2> QED BY <1>1, <2>1, <2>2
<1>4. UploadInv' BY <1>1, <1>2, <1>3, NoUploads
<1> QED BY <1>1, <1>3, <1>4, AfterUpload

\* A local edit.
LEMMA EditKeeps ==
  ASSUME PublicationInv, NEW e \in Evidence, LocalEdit(e)
  PROVE  PublicationInv'
<1>1. UNCHANGED <<store, stored, receipts, upload, registry, desk, job, verdict>> BY DEF LocalEdit
<1>2. StoreInv' BY <1>1 DEF PublicationInv, StoreInv
<1>3. UploadInv' BY <1>1, NoUploads DEF PublicationInv
<1> QED BY <1>1, <1>2, <1>3, AfterUpload

\* The registry when one registrar took a step.
LEMMA OneDesk ==
  ASSUME PublicationInv, NEW r \in Registrars, NEW d, desk' = [desk EXCEPT ![r] = d],
         IsDesk(d), d.phase # "idle" => TableInv(d.candidate, AllReceipts, stored),
         UNCHANGED <<store, stored, receipts, upload, job, verdict>>,
         TableInv(registry', AllReceipts, stored)
  PROVE  PublicationInv'
<1>1. StoreInv' BY DEF PublicationInv, StoreInv
<1>2. UploadInv' BY NoUploads DEF PublicationInv
<1>3. AllReceipts' = AllReceipts BY DEF AllReceipts
<1>4. desk = [q \in Registrars |-> desk[q]] BY DEF PublicationInv, RegistryInv
<1>5. desk' = [q \in Registrars |-> desk'[q]] /\ \A q \in Registrars : desk'[q] = IF q = r THEN d ELSE desk[q]
  BY <1>4
<1>6. ASSUME NEW q \in Registrars
      PROVE  IsDesk(desk'[q]) /\ (desk'[q].phase # "idle" => TableInv(desk'[q].candidate, AllReceipts, stored))
  BY <1>5 DEF PublicationInv, RegistryInv
<1>7. RegistryInv' BY <1>3, <1>5, <1>6 DEF RegistryInv
<1>8. JobInv(job, receipts["job"])' /\ VerdictsAgree' BY DEF PublicationInv, VerdictsAgree
<1> QED BY <1>1, <1>2, <1>7, <1>8 DEF PublicationInv

\* register_cloud_baseline up to its first look at the bucket.
LEMMA BeginKeeps ==
  ASSUME PublicationInv, NEW r \in Registrars, NEW name \in Names, NEW e \in Evidence,
         NEW receipt \in AllReceipts, BeginRegistration(r, name, e, receipt)
  PROVE  PublicationInv'
<1> DEFINE entry == RegistryEntry(e, receipt)
           table == [registry EXCEPT ![name] = entry]
           manifest == <<"manifest", e.id>>
<1>1. PICK d : d = [phase |-> "verify", name |-> name, receipt |-> receipt, at |-> 1, candidate |-> table]
  OBVIOUS
<1>2. /\ desk' = [desk EXCEPT ![r] = d] /\ RecordedGeneration(receipt, manifest) # None
      /\ UNCHANGED <<store, stored, receipts, upload, registry, job, verdict>>
  BY <1>1 DEF BeginRegistration
<1>3. TableInv(registry, AllReceipts, stored) /\ UploadInv BY DEF PublicationInv, RegistryInv
<1>4. AuthenticList(receipt.objects, stored)
  <2>1. PICK u \in Uploaders : receipt \in receipts[u] BY DEF AllReceipts
  <2> QED BY <1>3, <2>1 DEF UploadInv, ReceiptInv
<1>5. AuthenticIn(<<manifest, RecordedGeneration(receipt, manifest)>>, stored)
  <2> DEFINE entries == {i \in DOMAIN receipt.objects : receipt.objects[i][1] = manifest}
             i == CHOOSE j \in entries : TRUE
  <2>1. entries # {} BY <1>2 DEF RecordedGeneration
  <2>2. i \in entries BY <2>1
  <2>3. RecordedGeneration(receipt, manifest) = receipt.objects[i][2] BY <2>1 DEF RecordedGeneration
  <2> HIDE DEF i, manifest
  <2>4. AuthenticIn(receipt.objects[i], stored) /\ receipt.objects[i][1] = manifest BY <1>4, <2>2 DEF AuthenticList
  <2> QED BY <2>3, <2>4 DEF AuthenticIn
<1>6. Bound(entry, AllReceipts, stored)
  <2>1. entry.set = e.id /\ entry.receipt = receipt /\ entry.generation = RecordedGeneration(receipt, manifest)
    BY DEF RegistryEntry
  <2> HIDE DEF entry
  <2> QED BY <1>5, <2>1 DEF Bound
<1> HIDE DEF entry
<1>7. TableInv(table, AllReceipts, stored)
  <2>1. registry = [n \in Names |-> registry[n]] BY <1>3 DEF TableInv
  <2>2. table = [n \in Names |-> table[n]] /\ \A n \in Names : table[n] = IF n = name THEN entry ELSE registry[n]
    BY <2>1
  <2> HIDE DEF table
  <2> QED BY <1>3, <1>6, <2>2 DEF TableInv
<1> HIDE DEF table
<1>8. IsDesk(d) /\ d.candidate = table BY <1>1 DEF IsDesk
<1> QED BY <1>2, <1>3, <1>7, <1>8, OneDesk

\* One more object of the receipt is looked up.
LEMMA VerifyNextKeeps ==
  ASSUME PublicationInv, NEW r \in Registrars, VerifyNext(r)
  PROVE  PublicationInv'
<1> DEFINE d == desk[r]
           good == VerifyRecordedRemoteObject(d.receipt.objects[d.at][1], d.receipt.objects[d.at][2])
           p == IF d.at = Len(d.receipt.objects) THEN "replace" ELSE "verify"
<1>1. PICK stop : stop = [d EXCEPT !.phase = "idle"] OBVIOUS
<1>2. PICK on : on = [d EXCEPT !.at = d.at + 1, !.phase = p] OBVIOUS
<1>3. PICK z : z = IF ~good THEN stop ELSE on OBVIOUS
<1>4. /\ desk' = [desk EXCEPT ![r] = z] /\ d.phase = "verify"
      /\ UNCHANGED <<store, stored, receipts, upload, registry, job, verdict>>
  BY <1>1, <1>2, <1>3 DEF VerifyNext
<1>5. /\ TableInv(registry, AllReceipts, stored) /\ IsDesk(d)
      /\ TableInv(d.candidate, AllReceipts, stored)
  BY <1>4 DEF PublicationInv, RegistryInv
<1> HIDE DEF d, p, good
<1>6. IsDesk(stop) /\ stop.phase = "idle" BY <1>1, <1>5 DEF IsDesk
<1>7. IsDesk(on) /\ on.candidate = d.candidate BY <1>2, <1>5 DEF IsDesk
<1>8. IsDesk(z) /\ (z.phase # "idle" => TableInv(z.candidate, AllReceipts, stored))
  BY <1>3, <1>5, <1>6, <1>7
<1> QED BY <1>4, <1>5, <1>8, OneDesk

\* The registry is replaced by the one made when the registration began.
LEMMA ReplaceKeeps ==
  ASSUME PublicationInv, NEW r \in Registrars, AtomicReplaceRegistry(r)
  PROVE  PublicationInv'
<1> DEFINE d == desk[r]
<1>1. PICK z : z = [d EXCEPT !.phase = "idle"] OBVIOUS
<1>2. /\ desk' = [desk EXCEPT ![r] = z] /\ d.phase = "replace" /\ registry' = d.candidate
      /\ UNCHANGED <<store, stored, receipts, upload, job, verdict>>
  BY <1>1 DEF AtomicReplaceRegistry, PublicationInv, RegistryInv
<1>3. IsDesk(d) /\ TableInv(d.candidate, AllReceipts, stored)
  BY <1>2 DEF PublicationInv, RegistryInv
<1> HIDE DEF d
<1>4. IsDesk(z) /\ z.phase = "idle" BY <1>1, <1>3 DEF IsDesk
<1> QED BY <1>2, <1>3, <1>4, OneDesk

\* A comparison document is written.
LEMMA CompareKeeps ==
  ASSUME PublicationInv, ComparePaths \/ CompareNamed
  PROVE  PublicationInv'
<1>1. PICK b \in Evidence, c \in Evidence : \E x : Compare(b, c, x)
  <2>1. CASE ComparePaths
    <3>1. PICK q \in Comparisons : Compare(q.baseline, q.candidate, q.exploratory) BY <2>1 DEF ComparePaths
    <3>2. q.baseline \in Evidence /\ q.candidate \in Evidence BY EvidenceAssumption
    <3> QED BY <3>1, <3>2
  <2>2. CASE CompareNamed
    <3>1. PICK name \in Names, q \in Comparisons :
            \E b \in ResolveRegistryBaseline(name) : Compare(b, q.candidate, q.exploratory)
      BY <2>2 DEF CompareNamed
    <3>2. q.candidate \in Evidence BY EvidenceAssumption
    <3>3. ResolveRegistryBaseline(name) \subseteq Evidence BY DEF ResolveRegistryBaseline
    <3> QED BY <3>1, <3>2, <3>3
  <2> QED BY <2>1, <2>2
<1>2. PICK x : Compare(b, c, x) BY <1>1
<1>3. /\ verdict' = CompareBenchmarks(b, c, x)
      /\ UNCHANGED <<disk, store, stored, receipts, upload, registry, desk, job, faults>>
  BY <1>2 DEF Compare
<1>4. AgreesWithConverse(verdict') BY <1>3, ComparisonAgrees
<1>5. VerdictsAgree' BY <1>4 DEF AgreesWithConverse, VerdictsAgree
<1>6. StoreInv' BY <1>3 DEF PublicationInv, StoreInv
<1>7. UploadInv' BY <1>3, NoUploads DEF PublicationInv
<1>8. RegistryInv' BY <1>3 DEF PublicationInv, RegistryInv, AllReceipts
<1>9. JobInv(job, receipts["job"])' BY <1>3 DEF PublicationInv
<1> QED BY <1>5, <1>6, <1>7, <1>8, <1>9 DEF PublicationInv

-----------------------------------------------------------------------------
(* The workflow *)

\* What a step of the job leaves alone.
LEMMA AfterJob ==
  ASSUME PublicationInv, UploadInv', UNCHANGED <<store, stored, receipts, registry, desk, verdict>>,
         JobInv(job', receipts["job"])
  PROVE  PublicationInv'
<1>1. StoreInv' BY DEF PublicationInv, StoreInv
<1>2. RegistryInv' BY DEF PublicationInv, RegistryInv, AllReceipts
<1>3. VerdictsAgree' BY DEF PublicationInv, VerdictsAgree
<1> QED BY <1>1, <1>2, <1>3 DEF PublicationInv

\* The outcome of one step of the job.
LEMMA OutcomeOf ==
  ASSUME IsJob(job), NEW step \in Steps, NEW ok
  PROVE  /\ Outcome(step, ok) \in [Steps -> {"skipped", "success", "failure"}]
         /\ Outcome(step, ok)[step] = IF ok THEN "success" ELSE "failure"
         /\ \A s \in Steps : s # step => Outcome(step, ok)[s] = job.outcome[s]
BY DEF IsJob, Outcome

\* A workflow is dispatched.
LEMMA DispatchKeeps ==
  ASSUME PublicationInv, NEW q, Dispatch(q)
  PROVE  PublicationInv'
<1>1. /\ job.phase = "idle" /\ job' = [job EXCEPT !.phase = "config", !.request = q]
      /\ UNCHANGED <<store, stored, receipts, upload, registry, desk, verdict>>
  BY DEF Dispatch
<1>2. JobInv(job, receipts["job"]) BY DEF PublicationInv
<1>3. IsJob(job') /\ job'.phase = "config" /\ job'.result = job.result /\ job'.outcome = job.outcome
  BY <1>1, <1>2 DEF JobInv, IsJob
<1>4. JobInv(job', receipts["job"]) BY <1>1, <1>2, <1>3 DEF JobInv
<1>5. UploadInv' BY <1>1, NoUploads DEF PublicationInv
<1> QED BY <1>1, <1>4, <1>5, AfterJob

\* Configuration succeeds or only the steps marked always() run.
LEMMA ConfigureKeeps ==
  ASSUME PublicationInv, NEW configured, Configure(configured)
  PROVE  PublicationInv'
<1> DEFINE ok == ValidateConfig(job.request, configured)
<1>1. /\ job.phase = "config"
      /\ job' = [job EXCEPT !.outcome = Outcome("config", ok), !.phase = IF ok THEN "execute" ELSE "report"]
      /\ UNCHANGED <<store, stored, receipts, upload, registry, desk, verdict>>
  BY DEF Configure
<1>2. JobInv(job, receipts["job"]) BY DEF PublicationInv
<1>3. PICK o : o = Outcome("config", ok) OBVIOUS
<1>4. o \in [Steps -> {"skipped", "success", "failure"}] /\ o["retention"] = job.outcome["retention"]
  BY <1>2, <1>3, OutcomeOf DEF Steps, JobInv
<1>5. PICK p : p = IF ok THEN "execute" ELSE "report" OBVIOUS
<1>6. job' = [job EXCEPT !.outcome = o, !.phase = p] BY <1>1, <1>3, <1>5
<1>7. IsJob(job') /\ job'.phase = p /\ job'.result = job.result /\ job'.outcome = o
  BY <1>2, <1>4, <1>6 DEF JobInv, IsJob
<1>8. p \in {"execute", "report"} BY <1>5
<1>9. JobInv(job', receipts["job"]) BY <1>1, <1>2, <1>4, <1>7, <1>8 DEF JobInv
<1>10. UploadInv' BY <1>1, NoUploads DEF PublicationInv
<1> QED BY <1>1, <1>9, <1>10, AfterJob

\* A set that was located is the one asked for.
LEMMA LocatedSet ==
  ASSUME NEW q, NEW root \in SUBSET Evidence, LocateSet(q, root) = Ok
  PROVE  LocatedSets(q, root) # {}
<1>1. Cardinality(LocatedSets(q, root)) = 1 BY DEF LocateSet, Raise, Ok, Contradiction
<1> QED BY <1>1, FS_EmptySet

\* What benchmark-result records.
LEMMA ResultOf ==
  ASSUME NEW q, NEW root \in SUBSET Evidence, NEW d, NEW b
  PROVE  /\ ResultInv(BenchmarkResult(q, root, d, b), q)
         /\ BenchmarkResult(q, root, d, b).primary = Ok => BenchmarkResult(q, root, d, b).set \in Ids
<1> DEFINE exit == IF d # Ok THEN d ELSE b
           primary == IF exit # Ok THEN exit ELSE LocateSet(q, root)
           chosen == CHOOSE e \in LocatedSets(q, root) : TRUE
           result == BenchmarkResult(q, root, d, b)
<1>1. result = [primary |-> primary, upload |-> NoUpload("pending"), set |-> IF primary = Ok THEN chosen.id ELSE None]
  BY DEF BenchmarkResult
<1>2. primary = Ok => LocateSet(q, root) = Ok BY Zenon
<1>3. primary = Ok => chosen \in LocatedSets(q, root) BY <1>2, LocatedSet
<1> HIDE DEF primary, chosen
<1>4. /\ result = [primary |-> result.primary, upload |-> result.upload, set |-> result.set]
      /\ result.primary = primary /\ (primary = Ok => result.set = chosen.id)
  BY <1>1
<1>5. primary = Ok => /\ chosen \in Evidence /\ chosen.kind = "set" /\ chosen.profile = q.profile
                      /\ Len(chosen.members) = q.repeats
  BY <1>3 DEF LocatedSets
<1>6. primary = Ok => result.set \in Ids /\ EvidenceNamed(result.set) = chosen
  BY <1>4, <1>5, NamedIsUnique
<1> HIDE DEF result
<1>7. ResultInv(result, q) BY <1>4, <1>5, <1>6 DEF ResultInv
<1>8. result.primary = Ok => result.set \in Ids BY <1>4, <1>6
<1> QED BY <1>7, <1>8 DEF result

\* The set is run, and its upload started.
LEMMA ExecuteKeeps ==
  ASSUME PublicationInv, NEW d, NEW b, NEW root \in SUBSET Evidence, Execute(d, b, root)
  PROVE  PublicationInv'
<1>1. PICK result : result = BenchmarkResult(job.request, root, d, b) OBVIOUS
<1> DEFINE uploads == result.primary = Ok /\ job.request.retention = "gcs"
<1>2. PICK p : p = IF uploads THEN "upload" ELSE "record" OBVIOUS
<1>3. PICK o : o = Outcome("execute", TRUE) OBVIOUS
<1>5. /\ job.phase = "execute" /\ job' = [job EXCEPT !.result = result, !.outcome = o, !.phase = p]
      /\ IF uploads THEN StartUpload("job", EvidenceNamed(result.set)) ELSE UNCHANGED upload
      /\ UNCHANGED <<store, stored, receipts, registry, desk, verdict>>
  BY <1>1, <1>2, <1>3 DEF Execute
<1>6. JobInv(job, receipts["job"]) BY DEF PublicationInv
<1>7. o \in [Steps -> {"skipped", "success", "failure"}] /\ o["retention"] = job.outcome["retention"]
  BY <1>3, <1>6, OutcomeOf DEF Steps, JobInv
<1>8. IsJob(job') /\ job'.phase = p /\ job'.result = result /\ job'.outcome = o /\ job'.request = job.request
  BY <1>5, <1>6, <1>7 DEF JobInv, IsJob
<1>9. ResultInv(result, job.request) /\ (result.primary = Ok => result.set \in Ids) BY <1>1, ResultOf
<1>10. job.outcome["retention"] # "success" BY <1>5, <1>6 DEF JobInv
<1>11. p \in {"upload", "record"} BY <1>2
<1>12. JobInv(job', receipts["job"]) BY <1>7, <1>8, <1>9, <1>10, <1>11 DEF JobInv
<1>13. UploadInv'
  <2>1. UploadInv BY DEF PublicationInv
  <2>2. CASE uploads
    <3>1. EvidenceNamed(result.set) \in Evidence BY <1>9, <2>2, NamedEvidence
    <3> QED BY <1>5, <2>1, <2>2, <3>1, StartKeeps DEF Uploaders
  <2>3. CASE ~uploads BY <1>5, <2>1, <2>3, NoUploads
  <2> QED BY <2>2, <2>3
<1> QED BY <1>5, <1>12, <1>13, AfterJob

\* With GCS retention the recorded exit is 0 only when there is a receipt.
LEMMA UpdateOf ==
  ASSUME NEW q, NEW result, NEW x \in Int, NEW updated, updated = UpdateUpload(q, result, x),
         result.primary = Ok, q.retention = "gcs", updated.exit \in {None, Ok}
  PROVE  Retained(result, receipts["job"])
<1>1. None \notin Int BY EvidenceAssumption
<1>2. \A y : [NoUpload("failed") EXCEPT !.exit = y].exit = y BY DEF NoUpload
<1>3. CASE x # Ok
  <2>1. updated = [NoUpload("failed") EXCEPT !.exit = x] BY <1>3 DEF UpdateUpload
  <2> QED BY <1>1, <1>2, <1>3, <2>1
<1>4. CASE x = Ok /\ Cardinality(ReceiptsForSet(result.set)) # 1
  <2>1. updated = [NoUpload("failed") EXCEPT !.exit = Contradiction] BY <1>4 DEF UpdateUpload
  <2>2. Contradiction \in Int /\ Contradiction # Ok BY DEF Contradiction, Ok
  <2> QED BY <1>1, <1>2, <2>1, <2>2
<1>5. CASE Cardinality(ReceiptsForSet(result.set)) = 1
  <2>1. ReceiptsForSet(result.set) # {} BY <1>5, FS_EmptySet
  <2> QED BY <2>1 DEF ReceiptsForSet, Retained
<1> QED BY <1>3, <1>4, <1>5

\* record-upload.
LEMMA RecordKeeps ==
  ASSUME PublicationInv, RecordUpload
  PROVE  PublicationInv'
<1> DEFINE x == upload["job"].exit
<1>1. PICK updated : updated = UpdateUpload(job.request, job.result, x) OBVIOUS
<1>2. PICK o : o = Outcome("retention", TRUE) OBVIOUS
<1>3. PICK result : result = [job.result EXCEPT !.upload = updated] OBVIOUS
<1>4. JobInv(job, receipts["job"]) BY DEF PublicationInv
<1>5. /\ job.phase \in {"record", "upload"}
      /\ job' = [job EXCEPT !.result.upload = updated, !.outcome = o, !.phase = "report"]
      /\ UNCHANGED <<store, stored, receipts, upload, registry, desk, verdict>>
  BY <1>1, <1>2 DEF RecordUpload
<1>6. o \in [Steps -> {"skipped", "success", "failure"}]
  BY <1>2, <1>4, OutcomeOf DEF Steps, JobInv
<1>7. IsJob(job') /\ job'.phase = "report" /\ job'.result = result /\ job'.outcome = o /\ job'.request = job.request
  BY <1>3, <1>4, <1>5, <1>6 DEF JobInv, IsJob
<1>8. ResultInv(job.result, job.request) BY <1>4, <1>5 DEF JobInv
<1>9. /\ result = [primary |-> result.primary, upload |-> result.upload, set |-> result.set]
      /\ result.primary = job.result.primary /\ result.set = job.result.set /\ result.upload = updated
  BY <1>3, <1>8 DEF ResultInv
<1>10. ResultInv(result, job.request) BY <1>8, <1>9 DEF ResultInv
<1>11. x \in Int BY DEF PublicationInv, UploadInv, WorkInv, Uploaders
<1>12. RetentionInv(result, job.request, receipts["job"])
  <2> SUFFICES ASSUME result.primary = Ok, job.request.retention = "gcs", result.upload.exit \in {None, Ok}
               PROVE  Retained(result, receipts["job"])
    BY DEF RetentionInv
  <2>1. Retained(job.result, receipts["job"])
    <3> HIDE DEF x
    <3> QED BY <1>1, <1>9, <1>11, UpdateOf
  <2> QED BY <1>9, <2>1 DEF Retained
<1>13. JobInv(job', receipts["job"]) BY <1>7, <1>10, <1>12 DEF JobInv
<1>14. UploadInv' BY <1>5, NoUploads DEF PublicationInv
<1> QED BY <1>5, <1>13, <1>14, AfterJob

\* The retention step is killed.
LEMMA KilledKeeps ==
  ASSUME PublicationInv, RetentionKilled
  PROVE  PublicationInv'
<1>1. PICK o : o = Outcome("retention", FALSE) OBVIOUS
<1>2. JobInv(job, receipts["job"]) BY DEF PublicationInv
<1>3. /\ job' = [job EXCEPT !.outcome = o, !.phase = "report"]
      /\ upload' = [upload EXCEPT !["job"] = Idle]
      /\ UNCHANGED <<store, stored, receipts, registry, desk, verdict>>
  BY <1>1 DEF RetentionKilled
<1>4. o \in [Steps -> {"skipped", "success", "failure"}] /\ o["retention"] = "failure"
  BY <1>1, <1>2, OutcomeOf DEF Steps, JobInv
<1>5. IsJob(job') /\ job'.phase = "report" /\ job'.outcome = o
  BY <1>2, <1>3, <1>4 DEF JobInv, IsJob
<1>6. JobInv(job', receipts["job"]) BY <1>4, <1>5 DEF JobInv
<1>7. WorkInv(Idle, stored') BY IdleWork
<1>8. "job" \in Uploaders BY DEF Uploaders
<1>9. UploadInv BY DEF PublicationInv
<1>10. UploadInv' BY <1>3, <1>7, <1>8, <1>9, OneUpload
<1> QED BY <1>3, <1>6, <1>10, AfterJob

\* The final exit is 0 only when every step of the job succeeded.
LEMMA GreenExit ==
  ASSUME NEW result, NEW outcomes, FinalExit(result, outcomes) = Ok
  PROVE  result.primary = Ok /\ result.upload.exit \in {None, Ok} /\ outcomes = {"success"}
BY DEF FinalExit, Config, Ok

\* Summary, staging and the final exit.
LEMMA ReportKeeps ==
  ASSUME PublicationInv, NEW reported \in BOOLEAN, Report(reported)
  PROVE  PublicationInv'
<1>1. PICK o : o = Outcome("report", reported /\ StageArtifact(job.result)) OBVIOUS
<1>2. PICK x : x = FinalExit(job.result, Range(o)) OBVIOUS
<1>3. JobInv(job, receipts["job"]) BY DEF PublicationInv
<1>4. /\ job.phase = "report" /\ job' = [job EXCEPT !.outcome = o, !.phase = "done", !.exit = x]
      /\ UNCHANGED <<store, stored, receipts, upload, registry, desk, verdict>>
  BY <1>1, <1>2 DEF Report
<1>5. o \in [Steps -> {"skipped", "success", "failure"}] /\ o["retention"] = job.outcome["retention"]
  BY <1>1, <1>3, OutcomeOf DEF Steps, JobInv
<1>6. /\ IsJob(job') /\ job'.phase = "done" /\ job'.outcome = o /\ job'.exit = x
      /\ job'.result = job.result /\ job'.request = job.request
  BY <1>3, <1>4, <1>5 DEF JobInv, IsJob
<1>7. x = Ok => /\ job.result.primary = Ok /\ job.result.upload.exit \in {None, Ok}
                /\ o["retention"] = "success"
  <2>1. o["retention"] \in Range(o) BY <1>5 DEF Range, Steps
  <2> QED BY <1>2, <2>1, GreenExit
<1>8. JobInv(job', receipts["job"]) BY <1>3, <1>5, <1>6, <1>7 DEF JobInv
<1>9. UploadInv' BY <1>4, NoUploads DEF PublicationInv
<1> QED BY <1>4, <1>8, <1>9, AfterJob

-----------------------------------------------------------------------------
(* The invariant and what follows from it *)

\* The initial states satisfy the invariant.
LEMMA PublicationStarts == PInit => PublicationInv
<1> SUFFICES ASSUME PInit PROVE PublicationInv
  OBVIOUS
<1>1. StoreInv
  <2>1. IsFiniteSet(stored) BY FS_EmptySet DEF PInit
  <2>2. store = [o \in ObjectNames |-> None] BY DEF PInit
  <2> QED BY <2>1, <2>2 DEF StoreInv
<1>2. UploadInv
  <2>1. upload = [u \in Uploaders |-> Idle] /\ receipts = [u \in Uploaders |-> {}] BY DEF PInit
  <2> QED BY <2>1, IdleWork DEF UploadInv
<1>3. RegistryInv
  <2>1. registry = [n \in Names |-> None] BY DEF PInit
  <2>2. TableInv(registry, AllReceipts, stored) BY <2>1 DEF TableInv
  <2>3. PICK d : d = [phase |-> "idle", name |-> None, receipt |-> None, at |-> 0, candidate |-> None] OBVIOUS
  <2>4. desk = [r \in Registrars |-> d] BY <2>3 DEF PInit
  <2>5. IsDesk(d) /\ d.phase = "idle" BY <2>3 DEF IsDesk
  <2> QED BY <2>2, <2>4, <2>5 DEF RegistryInv
<1>4. JobInv(job, receipts["job"])
  <2>1. /\ job = [phase |-> job.phase, request |-> job.request, result |-> job.result, outcome |-> job.outcome, exit |-> job.exit]
        /\ job.phase = "idle" /\ job.outcome = [s \in Steps |-> "skipped"]
    BY DEF PInit, JobIdle
  <2>2. job.outcome \in [Steps -> {"skipped", "success", "failure"}] /\ job.outcome["retention"] = "skipped"
    BY <2>1 DEF Steps
  <2> QED BY <2>1, <2>2 DEF JobInv, IsJob
<1>5. VerdictsAgree BY DEF PInit, VerdictsAgree
<1> QED BY <1>1, <1>2, <1>3, <1>4, <1>5 DEF PublicationInv

\* Every step preserves the invariant.
LEMMA PublicationStep == PublicationInv /\ [PNext]_publicationVars => PublicationInv'
<1> SUFFICES ASSUME PublicationInv, [PNext]_publicationVars PROVE PublicationInv'
  OBVIOUS
<1>1. CASE UNCHANGED publicationVars
  <2>1. UNCHANGED <<store, stored, receipts, upload, registry, desk, job, verdict>> BY <1>1 DEF publicationVars
  <2>2. StoreInv' BY <2>1 DEF PublicationInv, StoreInv
  <2>3. UploadInv' BY <2>1, NoUploads DEF PublicationInv
  <2> QED BY <2>1, <2>2, <2>3, AfterUpload
<1>2. CASE ComparePaths \/ CompareNamed BY <1>2, CompareKeeps
<1>3. CASE \E u \in Uploaders : UploadStep(u)
  BY <1>3, DescribeKeeps, CreateKeeps, ConfirmKeeps, FinishKeeps, ReceiptFailKeeps DEF UploadStep
<1>4. CASE \E e \in Evidence : OperatorUploads(e) \/ LocalEdit(e) BY <1>4, OperatorKeeps, EditKeeps
<1>5. CASE \E o \in DOMAIN store : ForeignWrite(o) BY <1>5, ForeignKeeps
<1>6. CASE \E r \in Registrars :
             \/ \E n \in Names, e \in Evidence, receipt \in AllReceipts : BeginRegistration(r, n, e, receipt)
             \/ VerifyNext(r) \/ AtomicReplaceRegistry(r)
  BY <1>6, BeginKeeps, VerifyNextKeeps, ReplaceKeeps
<1>7. CASE \E q \in Requests : Dispatch(q) BY <1>7, DispatchKeeps
<1>8. CASE \E configured \in SUBSET {"identity", "bucket"} : Configure(configured) BY <1>8, ConfigureKeeps
<1>9. CASE \E reported \in BOOLEAN : Report(reported) BY <1>9, ReportKeeps
<1>10. CASE \E d, b \in {Ok, 20}, root \in SUBSET Evidence : Execute(d, b, root) BY <1>10, ExecuteKeeps
<1>11. CASE RecordUpload BY <1>11, RecordKeeps
<1>12. CASE RetentionKilled BY <1>12, KilledKeeps
<1> QED BY <1>1, <1>2, <1>3, <1>4, <1>5, <1>6, <1>7, <1>8, <1>9, <1>10, <1>11, <1>12 DEF PNext

\* The invariant implies the three properties.
LEMMA PublicationSafe == PublicationInv => ReceiptsAuthentic /\ GreenIsRetained /\ VerdictsAgree
<1> SUFFICES ASSUME PublicationInv PROVE ReceiptsAuthentic /\ GreenIsRetained /\ VerdictsAgree
  OBVIOUS
<1>1. ASSUME NEW entry PROVE Authentic(entry) = AuthenticIn(entry, stored) BY DEF Authentic, AuthenticIn
<1>2. \A r \in AllReceipts : ReceiptInv(r, stored) BY DEF PublicationInv, UploadInv, AllReceipts
<1>3. ReceiptsAuthentic
  <2>1. \A r \in AllReceipts : \A i \in DOMAIN r.objects : Authentic(r.objects[i])
    BY <1>1, <1>2 DEF ReceiptInv, AuthenticList
  <2>2. ASSUME NEW n \in Names, registry[n] # None
        PROVE  /\ registry[n].receipt \in AllReceipts
               /\ registry[n].generation = RecordedGeneration(registry[n].receipt, <<"manifest", registry[n].set>>)
               /\ Authentic(<<<<"manifest", registry[n].set>>, registry[n].generation>>)
    <3>1. Bound(registry[n], AllReceipts, stored) BY <2>2 DEF PublicationInv, RegistryInv, TableInv
    <3> QED BY <1>1, <3>1 DEF Bound
  <2> QED BY <2>1, <2>2 DEF ReceiptsAuthentic
<1>4. GreenIsRetained
  <2> SUFFICES ASSUME job.phase = "done" /\ job.exit = Ok
               PROVE  /\ job.result.set # None
                      /\ LET e == EvidenceNamed(job.result.set)
                         IN  /\ e.profile = job.request.profile /\ Len(e.members) = job.request.repeats
                             /\ job.request.retention = "gcs" =>
                                  \E r \in receipts["job"] :
                                    /\ r.source = e.id
                                    /\ \A o \in SetUploadPlan(e) :
                                         \E i \in DOMAIN r.objects : r.objects[i][1] = o /\ Authentic(r.objects[i])
    BY DEF GreenIsRetained
  <2> DEFINE e == EvidenceNamed(job.result.set)
  <2>1. /\ job.result.primary = Ok /\ job.result.upload.exit \in {None, Ok}
        /\ ResultInv(job.result, job.request) /\ RetentionInv(job.result, job.request, receipts["job"])
    BY DEF PublicationInv, JobInv
  <2>2. job.result.set \in Ids /\ e.kind = "set" /\ e.profile = job.request.profile /\ Len(e.members) = job.request.repeats
    BY <2>1 DEF ResultInv
  <2>3. e \in Evidence /\ e.id = job.result.set BY <2>2, NamedEvidence
  <2>4. job.result.set # None BY <2>3, EvidenceAssumption
  <2>5. ASSUME job.request.retention = "gcs"
        PROVE  \E r \in receipts["job"] :
                 /\ r.source = e.id
                 /\ \A o \in SetUploadPlan(e) :
                      \E i \in DOMAIN r.objects : r.objects[i][1] = o /\ Authentic(r.objects[i])
    <3>1. PICK r \in receipts["job"] : r.kind = "set" /\ r.source = job.result.set
      BY <2>1, <2>5 DEF RetentionInv, Retained
    <3>2. ReceiptInv(r, stored) BY <1>2, <3>1 DEF AllReceipts, Uploaders
    <3> HIDE DEF e
    <3>3. EvidenceNamed(r.source) = e /\ r.source = e.id BY <2>3, <3>1 DEF e
    <3>4. AuthenticList(r.objects, stored) /\ \A o \in SetUploadPlan(e) : Listed(o, r.objects)
      BY <2>2, <3>2, <3>3 DEF ReceiptInv, Covers
    <3>5. \A o \in SetUploadPlan(e) : \E i \in DOMAIN r.objects : r.objects[i][1] = o /\ Authentic(r.objects[i])
      BY <1>1, <3>4 DEF AuthenticList, Listed
    <3> QED BY <3>3, <3>5
  <2> QED BY <2>2, <2>4, <2>5
<1> QED BY <1>3, <1>4 DEF PublicationInv

\* The invariant holds in every reachable state.
THEOREM PublicationInductive == PublicationSpec => []PublicationInv
<1> QED BY PublicationStarts, PublicationStep, PTL DEF PublicationSpec

\* Every receipt, and every registered baseline, names object versions that
\* were stored with the bytes of the evidence (upload_evidence,
\* register_cloud_baseline).
THEOREM ReceiptsStayAuthentic == PublicationSpec => []ReceiptsAuthentic
<1> QED BY PublicationInductive, PublicationSafe, PTL

\* A workflow that ends with exit 0 has the set it was asked for and, with GCS
\* retention, a receipt for every object of it (final_exit, update_upload).
THEOREM GreenWasRetained == PublicationSpec => []GreenIsRetained
<1> QED BY PublicationInductive, PublicationSafe, PTL

\* No metric of a comparison is better, or worse, in both directions
\* (classify_metric).
THEOREM VerdictsHaveConverses == PublicationSpec => []VerdictsAgree
<1> QED BY PublicationInductive, PublicationSafe, PTL
=============================================================================
