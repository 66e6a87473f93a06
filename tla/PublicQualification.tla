------------------------ MODULE PublicQualification ------------------------
(***************************************************************************)
(* The public qualification harnesses of V5.1: Python controllers that own  *)
(* three JVM voters, drive them through scripted faults (kills at declared  *)
(* cuts, partitions, restarts, cancellations), record every client call,    *)
(* and then judge the run with independent oracles (client history, quorum  *)
(* records, the case's own schedule) before a receipt says PASS.            *)
(*                                                                          *)
(* The cluster under test is external: it is modelled by what the harness   *)
(* can see of it.  It may also lie (at most MaxLies times) in the ways the  *)
(* oracles exist to catch.  A document bulk is the pair of keys its tag     *)
(* names; a trace row is the node, its process generation and the event.    *)
(***************************************************************************)
EXTENDS EvidenceBase, TLC

LOCAL INSTANCE SequencesExt
LOCAL INSTANCE FiniteSetsExt

CONSTANTS
    Nodes,      \* the three voters
    QCases,     \* the cases this instance runs
    Seeds,      \* bound: seed writes of a case (3 in the harnesses)
    Waves,      \* bound: recovery waves (3 in the harnesses)
    WaveCalls,  \* bound: overlapping calls of a wave (4 in the harnesses)
    MaxDowns,   \* bound: spontaneous leader changes
    MaxLies     \* bound: violations of its contract by the cluster

VARIABLES
    qcase,     \* the case that runs
    qpc,       \* the position in its script
    qsys,      \* the cluster: processes, isolation, leader, log, minority tail
    qbind,     \* the nodes the script's names stand for
    qhist,     \* Worker.history: every client call, recorded before it is sent
    qtrace,    \* the observers' rows, one sequence for each node
    qarm,      \* the armed cut and the call it is meant for, or None
    qexp,      \* the documents the controller expects
    qtry,      \* the call the controller waits for, and the attempts made
    qverdict,  \* "RUN", "PASS", "FAIL" in the case, "REJECTED" by an oracle
    qlied,     \* the violation the cluster committed, or None
    qdowns     \* spontaneous leader changes so far

qualVars == <<qcase, qpc, qsys, qbind, qhist, qtrace, qarm, qexp, qtry,
              qverdict, qlied, qdowns>>

-----------------------------------------------------------------------------
(* Scripts: one verb per controller statement, in the order of the code. *)

Do(verb)          == [do |-> verb, who |-> "act", arg |-> "none", mode |-> "none", n |-> 0]
DoAt(verb, who)   == [Do(verb) EXCEPT !.who = who]
DoArg(verb, arg)  == [Do(verb) EXCEPT !.arg = arg]
DoN(verb, n)      == [Do(verb) EXCEPT !.n = n]
Arm(who, cut, mode) == [DoAt("arm", who) EXCEPT !.arg = cut, !.mode = mode]
Repeat(k, step)   == [i \in 1..k |-> step]

\* concurrent_wave: every call is submitted before any answer is collected.
WaveKinds == SubSeq(<<"addAll", "read", "addAll", "read">>, 1, WaveCalls)
ConcurrentWave == [i \in 1..Len(WaveKinds) |-> DoArg("send", WaveKinds[i])]
Boot == <<Do("startAll"), DoAt("lead", "old")>>

ReadCuts == {"READ_BEFORE_CAPTURE", "READ_CAPTURED", "READ_RELEASED"}
MutationCuts ==
    <<"ACCEPT_BEFORE_WRITE", "ACCEPT_AFTER_FORCE", "ACCEPT_ACK_RECEIVED",
      "PROOF_BEFORE_WRITE", "PROOF_AFTER_FORCE", "PROOF_ACK_RECEIVED",
      "BEFORE_PUBLISH", "PUBLISHED">>

\* scenario: seed, overlap four calls, kill the leader at the cut while a
\* follower refuses a call, recover with fresh waves, restart the old leader.
CutScript(cut, mode) ==
    Boot \o Repeat(Seeds, Do("write")) \o ConcurrentWave \o <<Do("settled")>>
      \o <<Arm("old", cut, mode),
           DoArg("send", IF cut \in ReadCuts THEN "read" ELSE "addAll"),
           DoAt("follower", "old"), DoArg("reach", cut), DoAt("crash", "old"),
           Do("collect"), DoN("wave", Waves), DoAt("other", "old"),
           DoAt("start", "old"), Do("readAny")>>

\* fenced: the old leader is isolated, by itself or with a read held at the
\* boundary until a higher promise crosses it.
FencedScript(boundary) ==
    Boot \o Repeat(Seeds, Do("write"))
      \o (IF boundary = "none" THEN <<>>
          ELSE <<Arm("old", boundary, "pause"), DoArg("send", "read"),
                 DoArg("reach", boundary)>>)
      \o <<DoAt("part", "old"), DoAt("lead", "new"), Do("write"), Do("read")>>
      \o (IF boundary = "none" THEN <<>>
          ELSE <<Do("heal"), DoAt("promise", "old"), DoAt("part", "old"),
                 DoArg("release", boundary)>>)
      \o <<DoAt("denied", "old"), DoAt("stop", "old"), Do("heal"),
           DoAt("start", "old"), DoN("readTry", 3)>>

\* process_case: an imported base and a kill before publication, cancellation
\* of a queued or of a forced mutation, and a close while a read is pinned.
QImportScript(mode) ==
    <<Do("import")>> \o Boot \o Repeat(Seeds, Do("write"))
      \o <<Do("read"), Arm("old", "BEFORE_PUBLISH", mode), DoArg("send", "addAll"),
           DoArg("reach", "BEFORE_PUBLISH"), DoAt("crash", "old"),
           DoAt("lead", "new"), DoAt("other", "old"), Do("expect"), Do("read"),
           Do("write"), DoAt("start", "old"), DoAt("lead", "final"), Do("read")>>

CancelScript(cut) ==
    Boot \o Repeat(Seeds, Do("write")) \o <<Do("read"), Arm("old", cut, "pause")>>
      \o (IF cut = "READ_CAPTURED"
          THEN <<DoArg("send", "read"), DoArg("reach", cut), DoArg("send", "addAll")>>
          ELSE <<DoArg("send", "addAll"), DoArg("reach", cut)>>)
      \o <<Do("cancel"), DoArg("release", cut)>>
      \o (IF cut = "READ_CAPTURED" THEN <<>> ELSE <<Do("expect")>>)
      \o <<Do("write"), Do("read"), DoAt("stop", "old"), DoAt("start", "old"),
           DoAt("lead", "final"), Do("read")>>

ClosePinnedScript ==
    Boot \o Repeat(Seeds, Do("write"))
      \o <<Do("read"), Arm("old", "READ_CAPTURED", "pause"), DoArg("send", "read"),
           DoArg("reach", "READ_CAPTURED"), Do("closePinned"),
           DoArg("release", "READ_CAPTURED"), Do("closeHandle"), DoAt("stop", "old"),
           DoAt("start", "old"), DoAt("lead", "final"), Do("read")>>

\* The network cases: every voter campaigns alone, or one direction is lost.
NetworkScript(isolated) ==
    <<DoArg("partSet", isolated), Do("startAll"), DoArg("campaign", isolated),
      Do("heal"), DoAt("lead", "old")>> \o Repeat(Seeds, Do("write"))
      \o <<Do("read"), DoAt("stop", "old"), DoAt("start", "old"),
           DoN("readTry", 4)>>

\* A minority tail: the kill follows the leader's own force and precedes every
\* send; the retained voter is kept out of the next quorum, or is part of it.
TailScript(selected) ==
    Boot \o Repeat(Seeds, Do("write"))
      \o <<Do("read"), Arm("old", "ACCEPT_AFTER_FORCE", "kill"),
           DoArg("send", "addAll"), DoArg("reach", "ACCEPT_AFTER_FORCE"),
           DoAt("crash", "old")>>
      \o (IF selected
          THEN <<DoAt("dropOne", "old"), DoAt("start", "old"), Do("expect"),
                 DoN("readTry", 4), Do("write"), Do("heal"), DoAt("start", "gone")>>
          ELSE <<DoN("readTry", 4), Do("write"), DoAt("start", "old")>>)
      \o <<DoN("readTry", 4)>>

\* Interrupted recovery: the source of a basis, or the target of a snapshot,
\* is killed inside the transfer and restarted from what it had retained.
BasisScript(cut, mode) ==
    Boot \o Repeat(Seeds, Do("write"))
      \o <<Do("read"), DoAt("choosePeer", "old"), Arm("peer", cut, mode),
           DoAt("stop", "old"), DoArg("reach", cut), DoAt("crash", "peer"),
           DoAt("start", "peer"), DoN("readTry", 4), Do("write"),
           DoAt("start", "old"), DoN("readTry", 4)>>

SnapshotScript(cut, mode) ==
    <<Do("startTwo"), DoAt("lead", "old")>> \o Repeat(Seeds, Do("write"))
      \o <<Do("read"), DoAt("chooseAbsent", "old"), Arm("peer", cut, mode),
           DoAt("start", "peer"), DoArg("reach", cut), DoAt("crash", "peer"),
           DoAt("start", "peer"), DoAt("stop", "old"), DoN("readTry", 4),
           Do("write"), DoAt("start", "old"), DoN("readTry", 4)>>

-----------------------------------------------------------------------------
(* The cases, by the matrix that runs them. *)

Modes == {"halt", "kill"}
ClientCuts == {"READ_CAPTURED", "READ_RELEASED", "BEFORE_CLIENT_RESPONSE"}
RecoveryCuts == [basis |-> "BASIS_CHUNK", progress |-> "TRANSFER_PROGRESS",
                 selector |-> "SELECTOR"]

\* run (qualification): the client cuts; run (fault): isolation and the
\* mutation cuts; run (protocol), run (recovery): campaigns, tails, transfers,
\* imports, cancellations and closes.
QualificationMatrix == {[kind |-> "cut", cut |-> c, mode |-> m] : c \in ClientCuts, m \in Modes}
FaultMatrix ==
    {[kind |-> "fenced", cut |-> c, mode |-> "pause"] :
        c \in {"none", "READ_BEFORE_CAPTURE", "READ_CAPTURED"}}
      \cup {[kind |-> "cut", cut |-> c, mode |-> m] : c \in ToSet(MutationCuts), m \in Modes}
ProtocolMatrix ==
    {[kind |-> "network", cut |-> c, mode |-> "none"] : c \in {"campaigns", "requests", "responses"}}
      \cup {[kind |-> "tail", cut |-> c, mode |-> "kill"] : c \in {"discarded", "selected"}}
      \cup {[kind |-> IF k = "basis" THEN "basis" ELSE "snapshot", cut |-> RecoveryCuts[k], mode |-> m] :
               k \in DOMAIN RecoveryCuts, m \in Modes}
RecoveryMatrix ==
    {[kind |-> "import", cut |-> "BEFORE_PUBLISH", mode |-> m] : m \in Modes}
      \cup {[kind |-> "cancel", cut |-> c, mode |-> "pause"] : c \in {"READ_CAPTURED", "ACCEPT_AFTER_FORCE"}}
      \cup {[kind |-> "close", cut |-> "READ_CAPTURED", mode |-> "pause"]}

Script(c) ==
    CASE c.kind = "cut"      -> CutScript(c.cut, c.mode)
      [] c.kind = "fenced"   -> FencedScript(c.cut)
      [] c.kind = "import"   -> QImportScript(c.mode)
      [] c.kind = "cancel"   -> CancelScript(c.cut)
      [] c.kind = "close"    -> ClosePinnedScript
      [] c.kind = "network"  -> NetworkScript(c.cut)
      [] c.kind = "tail"     -> TailScript(c.cut = "selected")
      [] c.kind = "basis"    -> BasisScript(c.cut, c.mode)
      [] c.kind = "snapshot" -> SnapshotScript(c.cut, c.mode)

ScriptTable == [c \in QCases |-> Script(c)]

Stage(cut) ==   \* how far a mutation is when its leader stops
    IF \E i \in DOMAIN MutationCuts : MutationCuts[i] = cut
    THEN CHOOSE i \in DOMAIN MutationCuts : MutationCuts[i] = cut
    ELSE Len(MutationCuts)

-----------------------------------------------------------------------------
(* State. *)

Docs(t) == <<2 * t, 2 * t + 1>>            \* one atomic bulk
Projection(log) == FlattenSeq([i \in DOMAIN log |-> Docs(log[i])])

QInit ==
    /\ qcase \in QCases
    /\ qpc = 1
    /\ qsys = [gen |-> [n \in Nodes |-> 0], last |-> [n \in Nodes |-> 0],
               iso |-> {}, ldr |-> None, chosen |-> <<>>, ever |-> <<>>,
               tail |-> None, base |-> 0, rechosen |-> FALSE]
    /\ qbind = [w \in {"act", "old", "new", "peer", "gone", "final"} |-> None]
    /\ qhist = <<>>
    /\ qtrace = [n \in Nodes |-> <<>>]
    /\ qarm = None
    /\ qexp = <<>>
    /\ qtry = [op |-> 0, n |-> 0]
    /\ qverdict = "RUN"
    /\ qlied = None
    /\ qdowns = 0

ScriptStep == ScriptTable[qcase][qpc]
StepIs(verb) == qverdict = "RUN" /\ qpc <= Len(ScriptTable[qcase]) /\ ScriptStep.do = verb
Advance == qpc' = qpc + 1
Named == qbind[ScriptStep.who]

Live(n) == qsys.gen[n] > 0
HasQuorum(n) ==
    Live(n) /\ n \notin qsys.iso /\ \E m \in Nodes \ {n} : Live(m) /\ m \notin qsys.iso

Row(n, ev, detail) == [gen |-> qsys.last[n], ev |-> ev, detail |-> detail, torn |-> FALSE]
Observe(n, ev, detail) == qtrace' = [qtrace EXCEPT ![n] = Append(@, Row(n, ev, detail))]

Pending(i) == qhist[i].out = "PENDING"
Connected(i) == qsys.gen[qhist[i].node] = qhist[i].gen
Held(i) == qarm # None /\ qarm.reached /\ qarm.op = i
Pinned(n) == qarm # None /\ qarm.reached /\ ~qarm.done /\ qarm.node = n
NextTag == 1 + Cardinality({i \in DOMAIN qhist : qhist[i].kind = "addAll"})

\* Worker.send: the call is recorded, as PENDING, before it is written.
NewCall(kind, n) ==
    [kind |-> kind, tag |-> IF kind = "addAll" THEN NextTag ELSE 0, node |-> n,
     gen |-> qsys.gen[n], out |-> "PENDING", docs |-> <<>>, cap |-> None,
     led |-> qsys.ldr = n, open |-> {i \in DOMAIN qhist : Pending(i) /\ Connected(i)},
     pred |-> {i \in DOMAIN qhist : qhist[i].out = "SUCCESS"}]

Fail == /\ qverdict' = "FAIL"
        /\ UNCHANGED <<qcase, qpc, qsys, qbind, qhist, qtrace, qarm, qexp, qtry,
                       qlied, qdowns>>

Rest == UNCHANGED <<qcase, qverdict, qlied, qdowns>>

-----------------------------------------------------------------------------
(* The cluster under test: elections, answers, and its possible lies. *)

\* A quorum accepts the mutations of tags, or an activation or a barrier of its
\* own when there are none, at the first index that is free: one that a lost
\* record had already taken is chosen a second time.
Chose(sys, tags) ==
    [sys EXCEPT !.chosen = @ \o tags, !.ever = @ \o tags, !.tail = None,
                !.rechosen = @ \/ Len(sys.ever) > Len(sys.chosen)]

\* A candidate with one reachable peer becomes leader, and proves an activation
\* before it says so; the minority tail is selected exactly when its holder is
\* in that quorum, and otherwise the activation takes its place.
Elect(n, m) ==
    /\ qverdict = "RUN" /\ n # m
    /\ n \notin qsys.iso /\ m \notin qsys.iso /\ Live(n) /\ Live(m)
    /\ qsys.ldr # None => ~HasQuorum(qsys.ldr)
    /\ LET keep == qsys.tail # None /\ qsys.tail.node \in {n, m}
       IN qsys' = [Chose(qsys, IF keep THEN <<qsys.tail.tag>> ELSE <<>>) EXCEPT !.ldr = n]
    /\ UNCHANGED <<qcase, qpc, qbind, qhist, qtrace, qarm, qexp, qtry, qverdict, qlied, qdowns>>

StepDown ==
    /\ qverdict = "RUN" /\ qsys.ldr # None /\ qdowns < MaxDowns
    /\ qdowns' = qdowns + 1
    /\ qsys' = [qsys EXCEPT !.ldr = None]
    /\ UNCHANGED <<qcase, qpc, qbind, qhist, qtrace, qarm, qexp, qtry, qverdict, qlied>>

Answerable(i) ==
    /\ qverdict = "RUN" /\ Pending(i) /\ Connected(i) /\ ~Held(i)
    /\ qarm # None /\ qarm.op = i /\ ~qarm.done => qhist[i].node # qsys.ldr

AnswerFrame == UNCHANGED <<qcase, qpc, qbind, qtrace, qarm, qexp, qtry, qverdict, qdowns>>

Capture(fresh) == [len |-> Len(qsys.chosen), fresh |-> fresh]

\* Every call of the leader needs its own quorum: a write appends, a read
\* captures the log at a barrier of its own.
Serve(i) ==
    /\ Answerable(i) /\ qhist[i].node = qsys.ldr /\ HasQuorum(qsys.ldr) /\ ~Pinned(qsys.ldr)
    /\ IF qhist[i].kind = "addAll"
       THEN /\ qsys' = Chose(qsys, <<qhist[i].tag>>)
            /\ qhist' = [qhist EXCEPT ![i].out = "SUCCESS", ![i].docs = Docs(qhist[i].tag)]
       ELSE /\ qsys' = Chose(qsys, <<>>)
            /\ qhist' = [qhist EXCEPT ![i].out = "SUCCESS", ![i].cap = Capture(TRUE),
                                      ![i].docs = Projection(qsys.chosen)]
    /\ qlied' = qlied
    /\ AnswerFrame

Refuse(i) ==
    /\ Answerable(i)
    /\ qhist[i].node # qsys.ldr \/ ~HasQuorum(qhist[i].node)
    /\ qhist' = [qhist EXCEPT ![i].out = IF qhist[i].kind = "addAll"
                                         THEN "NOT_SUBMITTED" ELSE "NOT_APPLICABLE"]
    /\ UNCHANGED <<qsys, qlied>>
    /\ AnswerFrame

\* A leader that lost its role after admitting a write cannot tell its fate: it
\* may have forced its own acceptance, which the next election finds, or nothing.
Unsure(i) ==
    /\ Answerable(i) /\ qhist[i].kind = "addAll" /\ qhist[i].led
    /\ qhist[i].node # qsys.ldr
    /\ qhist' = [qhist EXCEPT ![i].out = "INDETERMINATE"]
    /\ \/ qsys' = qsys
       \/ /\ qsys.tail = None /\ qsys.ldr = None
          /\ qsys' = [qsys EXCEPT !.tail = [node |-> qhist[i].node, tag |-> qhist[i].tag]]
    /\ qlied' = qlied
    /\ AnswerFrame

Lie(kind) == Cardinality({qlied} \ {None}) < MaxLies /\ qlied' = kind

\* The last chosen write, acknowledged or not, disappears from every voter while
\* there is no leader.
LoseWrite ==
    /\ qverdict = "RUN" /\ qsys.ldr = None /\ Len(qsys.chosen) > qsys.base
    /\ Lie("lost")
    /\ qsys' = [qsys EXCEPT !.chosen = SubSeq(@, 1, Len(@) - 1)]
    /\ UNCHANGED qhist
    /\ AnswerFrame

\* A read is answered from a log shorter than what was acknowledged before it.
StaleRead(i) ==
    /\ Answerable(i) /\ qhist[i].kind = "read" /\ qhist[i].node = qsys.ldr
    /\ Len(qsys.chosen) > qsys.base /\ HasQuorum(qsys.ldr)
    /\ Last(qsys.chosen) \in {qhist[j].tag : j \in qhist[i].pred}
    /\ Lie("stale")
    /\ LET old == SubSeq(qsys.chosen, 1, Len(qsys.chosen) - 1)
       IN qhist' = [qhist EXCEPT ![i].out = "SUCCESS", ![i].docs = Projection(old),
                                 ![i].cap = [len |-> Len(old), fresh |-> FALSE]]
    /\ UNCHANGED qsys
    /\ AnswerFrame

\* A refused write takes effect all the same.
GhostWrite(i) ==
    /\ Answerable(i) /\ qhist[i].kind = "addAll" /\ qhist[i].node # qsys.ldr
    /\ Lie("ghost")
    /\ qhist' = [qhist EXCEPT ![i].out = "NOT_SUBMITTED"]
    /\ qsys' = Chose(qsys, <<qhist[i].tag>>)
    /\ AnswerFrame

\* An uncertain write is chosen a second time.
ReplayWrite(i) ==
    /\ qverdict = "RUN" /\ qhist[i].kind = "addAll"
    /\ \/ qhist[i].out \in {"INDETERMINATE", "CANCELLED"}
       \/ Pending(i) /\ ~Connected(i)
    /\ Contains(qsys.chosen, qhist[i].tag)
    /\ Lie("replayed")
    /\ qsys' = Chose(qsys, <<qhist[i].tag>>)
    /\ UNCHANGED qhist
    /\ AnswerFrame

QCluster ==
    \/ \E n, m \in Nodes : Elect(n, m)
    \/ StepDown
    \/ LoseWrite
    \/ \E i \in DOMAIN qhist :
          Serve(i) \/ Refuse(i) \/ Unsure(i) \/ StaleRead(i) \/ GhostWrite(i) \/ ReplayWrite(i)

-----------------------------------------------------------------------------
(* The controller: each action runs one verb of the script. *)

Idle0 == [op |-> 0, n |-> 0]

\* Worker.__init__ : a fresh process generation on the retained directory.
Started(ns, sys) ==
    [sys EXCEPT !.gen = [n \in Nodes |-> IF n \in ns THEN sys.last[n] + 1 ELSE @[n]],
                !.last = [n \in Nodes |-> IF n \in ns THEN @[n] + 1 ELSE @[n]]]
StartWorkers ==
    /\ StepIs("startAll") \/ StepIs("startTwo") \/ StepIs("start")
    /\ \E ns \in SUBSET Nodes :
          /\ ns = IF ScriptStep.do = "startAll" THEN Nodes
                  ELSE IF ScriptStep.do = "start" THEN {Named} ELSE ns
          /\ ScriptStep.do = "startTwo" => Cardinality(ns) = 2
          /\ \A n \in ns : ~Live(n)
          /\ qsys' = Started(ns, qsys)
          /\ qtrace' = [n \in Nodes |->
                           IF n \in ns THEN Append(qtrace[n], [Row(n, "STARTED", "none") EXCEPT !.gen = @ + 1])
                           ELSE qtrace[n]]
    /\ Advance
    /\ UNCHANGED <<qbind, qhist, qarm, qexp, qtry>> /\ Rest

\* leader: poll the statuses until one voter reports LEADER_READY.
FindLeader ==
    /\ StepIs("lead") /\ qsys.ldr # None /\ Live(qsys.ldr) /\ qsys.ldr \notin qsys.iso
    /\ qbind' = [qbind EXCEPT ![ScriptStep.who] = qsys.ldr, !["act"] = qsys.ldr]
    /\ Advance
    /\ UNCHANGED <<qsys, qhist, qtrace, qarm, qexp, qtry>> /\ Rest

\* The calls a verb makes; readTry and wave look for the leader each time.
CallKind ==
    CASE ScriptStep.do = "write" -> "addAll"
      [] ScriptStep.do \in {"read", "readAny", "readTry"} -> "read"
      [] ScriptStep.do = "denied" -> IF qtry.n = 0 THEN "read" ELSE "addAll"

Calls == {"write", "read", "readAny", "readTry", "denied"}

Call ==
    /\ qverdict = "RUN" /\ qpc <= Len(ScriptTable[qcase]) /\ ScriptStep.do \in Calls /\ qtry.op = 0
    /\ LET n == IF ScriptStep.do = "readTry" THEN qsys.ldr
                ELSE IF ScriptStep.do = "denied" THEN Named ELSE qbind["act"]
       IN /\ n # None /\ Live(n)
          /\ qhist' = Append(qhist, NewCall(CallKind, n))
          /\ qbind' = [qbind EXCEPT !["act"] = IF ScriptStep.do = "denied" THEN @ ELSE n]
    /\ qtry' = [qtry EXCEPT !.op = Len(qhist) + 1]
    /\ UNCHANGED <<qpc, qsys, qtrace, qarm, qexp>> /\ Rest

Answered == qtry.op # 0 /\ ~Pending(qtry.op)
Result == qhist[qtry.op]
Accept == /\ Advance /\ qtry' = Idle0
          /\ UNCHANGED <<qsys, qbind, qhist, qtrace, qarm>> /\ Rest
Again == /\ qtry' = [op |-> 0, n |-> qtry.n + 1]
         /\ UNCHANGED <<qpc, qsys, qbind, qhist, qtrace, qarm, qexp>> /\ Rest

\* Worker.call: anything but SUCCESS ends the case.
WriteDone ==
    /\ StepIs("write") /\ Answered
    /\ IF Result.out # "SUCCESS" THEN Fail
       ELSE qexp' = qexp \o Docs(Result.tag) /\ Accept

ReadDone ==
    /\ StepIs("read") \/ StepIs("readAny")
    /\ Answered
    /\ IF Result.out # "SUCCESS" THEN Fail
       ELSE IF ScriptStep.do = "read" /\ Result.docs # qexp THEN Fail
       ELSE qexp' = qexp /\ Accept

\* read_after_recovery: a refused read is retried against a newly found leader,
\* a bounded number of times; a successful one must show what is expected.
ReadAfterRecovery ==
    /\ StepIs("readTry") /\ Answered
    /\ CASE Result.out = "SUCCESS" /\ Result.docs = qexp -> qexp' = qexp /\ Accept
         [] Result.out = "SUCCESS" /\ Result.docs # qexp -> Fail
         [] Result.out # "SUCCESS" /\ qtry.n + 1 < ScriptStep.n -> Again
         [] OTHER -> Fail

\* The isolated leader must refuse a later read and a later write.
DeniedDone ==
    /\ StepIs("denied") /\ Answered
    /\ CASE Result.out = "NOT_APPLICABLE" -> Again
         [] Result.out = "NOT_SUBMITTED" -> qexp' = qexp /\ Accept
         [] OTHER -> Fail

SendCall ==
    /\ StepIs("send") /\ qbind["act"] # None /\ Live(qbind["act"])
    /\ qhist' = Append(qhist, NewCall(ScriptStep.arg, qbind["act"]))
    /\ Advance
    /\ UNCHANGED <<qsys, qbind, qtrace, qarm, qexp, qtry>> /\ Rest

Follower ==
    /\ StepIs("follower")
    /\ \E n \in Nodes \ {Named} :
          /\ Live(n)
          /\ qhist' = Append(qhist, NewCall("addAll", n))
    /\ Advance
    /\ UNCHANGED <<qsys, qbind, qtrace, qarm, qexp, qtry>> /\ Rest

SettledStep ==
    /\ StepIs("settled") /\ \A i \in DOMAIN qhist : ~Pending(i)
    /\ IF \E i \in DOMAIN qhist : qhist[i].out # "SUCCESS" THEN Fail
       ELSE Accept /\ qexp' = qexp

\* collect: the killed call has no answer, the follower's call has one.
Collect ==
    /\ StepIs("collect") /\ \A i \in DOMAIN qhist : Pending(i) => ~Connected(i)
    /\ Accept /\ qexp' = qexp

\* recovered_wave: at most Waves waves, each of fresh calls at the leader of the
\* moment, collected completely; an uncertain write is never sent again.
WaveSend ==
    /\ StepIs("wave")
    /\ qtry.op = 0 \/ Len(qhist) + 1 - qtry.op < Len(WaveKinds)
    /\ LET n == IF qtry.op = 0 THEN qsys.ldr ELSE qbind["act"]
           first == IF qtry.op = 0 THEN Len(qhist) + 1 ELSE qtry.op
       IN /\ n # None /\ Live(n)
          /\ qhist' = Append(qhist, NewCall(WaveKinds[Len(qhist) + 2 - first], n))
          /\ qtry' = [qtry EXCEPT !.op = first]
          /\ qbind' = [qbind EXCEPT !["act"] = n]
    /\ UNCHANGED <<qpc, qsys, qtrace, qarm, qexp>> /\ Rest

WaveDone ==
    /\ StepIs("wave") /\ qtry.op # 0 /\ Len(qhist) + 1 - qtry.op = Len(WaveKinds)
    /\ \A i \in qtry.op..Len(qhist) : ~Pending(i)
    /\ IF \A i \in qtry.op..Len(qhist) : qhist[i].out = "SUCCESS" THEN Accept /\ qexp' = qexp
       ELSE IF qtry.n + 1 < ScriptStep.n THEN Again
       ELSE Fail

\* The arm file names the cut; it is meant for the call sent next, if any.
ArmCut ==
    /\ StepIs("arm")
    /\ qarm' = [node |-> Named, cut |-> ScriptStep.arg, mode |-> ScriptStep.mode, reached |-> FALSE,
                done |-> FALSE, exp |-> qexp,
                op |-> IF ScriptTable[qcase][qpc + 1].do = "send" THEN Len(qhist) + 1 ELSE 0]
    /\ Advance
    /\ UNCHANGED <<qsys, qbind, qhist, qtrace, qexp, qtry>> /\ Rest

\* The process stops at the cut, with the effects the protocol has by then.
ReachCut ==
    /\ StepIs("reach") /\ Live(qarm.node)
    /\ qarm.op # 0 => /\ Pending(qarm.op) /\ qarm.node = qsys.ldr /\ HasQuorum(qarm.node)
    /\ LET i == qarm.op
           write == i # 0 /\ qarm.cut \notin ReadCuts
       IN /\ qhist' = IF i # 0 /\ qarm.cut \in ReadCuts \ {"READ_BEFORE_CAPTURE"}
                      THEN [qhist EXCEPT ![i].cap = Capture(TRUE),
                                         ![i].docs = Projection(qsys.chosen)]
                      ELSE qhist
          /\ qsys' = IF write /\ Stage(qarm.cut) = 2
                     THEN [qsys EXCEPT !.tail = [node |-> qarm.node, tag |-> qhist[i].tag]]
                     ELSE IF write /\ Stage(qarm.cut) > 2
                     THEN Chose(qsys, <<qhist[i].tag>>)
                     ELSE qsys
    /\ qarm' = [qarm EXCEPT !.reached = TRUE]
    /\ Observe(qarm.node, "CUT_REACHED", qarm.cut)
    /\ Advance
    /\ UNCHANGED <<qbind, qexp, qtry>> /\ Rest

\* A controller that leaves the interrupted append as it is.
FinishNothing(rows) == rows

\* public_trace.finish: the exited observer's published append is completed, so
\* that the strict reader of the evidence sees whole rows only.
Finish(rows) ==
    IF rows = <<>> THEN rows
    ELSE [rows EXCEPT ![Len(rows)].torn = FALSE]

\* The kill (or the halt) leaves the row another thread was writing torn.
KillWorker(n) ==
    /\ StepIs("crash") /\ n = Named /\ qarm.reached
    /\ \E torn \in BOOLEAN :
          qtrace' = [qtrace EXCEPT ![n] = Finish(Append(@, [Row(n, "LATE", "none") EXCEPT !.torn = torn]))]
    /\ qsys' = [qsys EXCEPT !.gen[n] = 0, !.ldr = IF @ = n THEN None ELSE @]
    /\ qarm' = [qarm EXCEPT !.done = TRUE]
    /\ Advance
    /\ UNCHANGED <<qbind, qhist, qexp, qtry>> /\ Rest

\* Worker.stop: a clean close; the retained directory is archived.
StopWorker ==
    /\ StepIs("stop") \/ StepIs("closeHandle")
    /\ LET n == IF ScriptStep.do = "stop" THEN Named ELSE qbind["old"]
       IN /\ qsys' = [qsys EXCEPT !.gen[n] = 0, !.ldr = IF @ = n THEN None ELSE @]
          /\ Observe(n, "HANDLE_CLOSED", "none")
    /\ Advance
    /\ UNCHANGED <<qbind, qhist, qarm, qexp, qtry>> /\ Rest

\* partition, network: the rules files the transports read.
SetNetwork ==
    /\ StepIs("part") \/ StepIs("heal") \/ StepIs("partSet")
    /\ \E n \in Nodes :
          qsys' = [qsys EXCEPT !.iso = CASE ScriptStep.do = "heal" -> {}
                                         [] ScriptStep.do = "part" -> {Named}
                                         [] ScriptStep.arg = "campaigns" -> Nodes
                                         [] OTHER -> {n}]
    /\ Advance
    /\ UNCHANGED <<qbind, qhist, qtrace, qarm, qexp, qtry>> /\ Rest

\* own_campaigns, directional_observed: isolated voters campaign in vain.
Campaign ==
    /\ StepIs("campaign")
    /\ qtrace' = [n \in Nodes |->
                     IF n \in qsys.iso
                     THEN qtrace[n] \o <<Row(n, "PROMISE", "own"), Row(n, "DROP", "none")>>
                     ELSE qtrace[n]]
    /\ Advance
    /\ UNCHANGED <<qsys, qbind, qhist, qarm, qexp, qtry>> /\ Rest

\* The held node forces the new leader's higher promise.
Promise ==
    /\ StepIs("promise") /\ qsys.ldr # None /\ qsys.ldr # Named
    /\ Observe(Named, "PROMISE", "higher")
    /\ Advance
    /\ UNCHANGED <<qsys, qbind, qhist, qarm, qexp, qtry>> /\ Rest

\* A captured read completes with its view; one that was not captured yet is
\* fenced by the higher promise; a forced mutation goes on to its quorum.
ReleaseHeld ==
    /\ StepIs("release") /\ qarm.reached
    /\ LET i == qarm.op
           captured == qarm.cut = "READ_CAPTURED"
           chosen == qarm.cut = "ACCEPT_AFTER_FORCE" /\ qsys.tail # None
                       /\ qsys.ldr = qarm.node /\ HasQuorum(qarm.node)
       IN /\ qhist' = [qhist EXCEPT ![i].out = CASE @ # "PENDING" -> @
                                                 [] captured -> "SUCCESS"
                                                 [] OTHER -> "NOT_APPLICABLE"]
          /\ qsys' = IF chosen THEN Chose(qsys, <<qsys.tail.tag>>) ELSE qsys
          /\ qverdict' = IF captured /\ qhist[i].docs # qarm.exp THEN "FAIL" ELSE qverdict
    /\ qarm' = [qarm EXCEPT !.done = TRUE]
    /\ Observe(qarm.node, "CUT_RELEASED", qarm.cut)
    /\ Advance
    /\ UNCHANGED <<qcase, qbind, qexp, qtry, qlied, qdowns>>

LastWrite == Max({i \in DOMAIN qhist : qhist[i].kind = "addAll"})

\* Cancelling the future of the last mutation while the worker is held.
CancelCall ==
    /\ StepIs("cancel")
    /\ IF ~Pending(LastWrite) THEN Fail
       ELSE /\ qhist' = [qhist EXCEPT ![LastWrite].out = "CANCELLED"]
            /\ Observe(qhist[LastWrite].node, "CLIENT_CANCEL", "none")
            /\ Advance
            /\ UNCHANGED <<qsys, qbind, qarm, qexp, qtry>> /\ Rest

\* Close waits for the pinned read, keeps the directory and refuses mutations.
ClosePinned ==
    /\ StepIs("closePinned") /\ Live(qbind["old"])
    /\ qhist' = Append(qhist, [NewCall("addAll", qbind["old"]) EXCEPT !.out = "NOT_SUBMITTED"])
    /\ qtrace' = [qtrace EXCEPT ![qbind["old"]] =
                     @ \o <<Row(qbind["old"], "CLIENT_FAILURE", "closeHandle"),
                            Row(qbind["old"], "CLIENT_FAILURE", "duplicateStart")>>]
    /\ Advance
    /\ UNCHANGED <<qsys, qbind, qarm, qexp, qtry>> /\ Rest

\* The controller's own bookkeeping: imported documents, the write it expects
\* to survive, the peer it chooses, the voter it takes away.
Bookkeep ==
    /\ \/ /\ StepIs("import")
          /\ qsys' = [qsys EXCEPT !.chosen = <<0>>, !.ever = <<0>>, !.base = 1]
          /\ qexp' = Docs(0)
          /\ qbind' = qbind
       \/ /\ StepIs("expect")
          /\ qexp' = qexp \o Docs(qhist[LastWrite].tag)
          /\ UNCHANGED <<qsys, qbind>>
       \/ /\ StepIs("other") /\ qbind["act"] # Named
          /\ UNCHANGED <<qsys, qbind, qexp>>
       \/ \E n \in Nodes \ {qbind["old"]} :
             /\ \/ StepIs("choosePeer") /\ Live(n)
                \/ StepIs("chooseAbsent") /\ ~Live(n)
             /\ qbind' = [qbind EXCEPT !["peer"] = n]
             /\ UNCHANGED <<qsys, qexp>>
       \/ \E n \in Nodes \ {qbind["old"]} :
             /\ StepIs("dropOne") /\ Live(n)
             /\ qbind' = [qbind EXCEPT !["gone"] = n]
             /\ qsys' = [qsys EXCEPT !.gen[n] = 0, !.iso = {n}, !.ldr = IF @ = n THEN None ELSE @]
             /\ qexp' = qexp
    /\ Advance
    /\ UNCHANGED <<qhist, qtrace, qarm, qtry>> /\ Rest

\* wait_for, Future.result: a deadline passes and the case fails.
Timeout ==
    /\ qverdict = "RUN" /\ qpc <= Len(ScriptTable[qcase])
    /\ ScriptStep.do \in Calls \cup {"lead", "reach", "wave", "settled", "collect", "promise", "campaign", "send"}
    /\ Fail

-----------------------------------------------------------------------------
(* The oracles, over what was recorded. *)

MaxOperations == 24

Active(h) ==
    {i \in DOMAIN h : \/ h[i].out = "SUCCESS"
                      \/ h[i].kind = "addAll" /\ h[i].out \in {"PENDING", "INDETERMINATE", "CANCELLED"}}

\* search: place one call whose successful predecessors are placed; an uncertain
\* write may be left out; a read must see exactly the state.
RECURSIVE Search(_, _, _)
Search(h, left, state) ==
    left = {} \/ \E i \in left :
        /\ h[i].pred \cap left = {}
        /\ \/ h[i].out # "SUCCESS" /\ Search(h, left \ {i}, state)
           \/ /\ h[i].kind = "read" /\ h[i].docs = state
              /\ Search(h, left \ {i}, state)
           \/ /\ h[i].kind = "addAll" /\ ToSet(Docs(h[i].tag)) \cap ToSet(state) = {}
              /\ Search(h, left \ {i}, state \o Docs(h[i].tag))

\* check: the bounded client history is linearizable.
HistoryCheck(h, initial) ==
    /\ Len(h) \in 1..MaxOperations
    /\ \A i \in DOMAIN h :
          IF h[i].kind = "addAll" THEN h[i].out # "NOT_APPLICABLE"
          ELSE h[i].out \notin {"NOT_SUBMITTED", "INDETERMINATE", "CANCELLED"}
    /\ Search(h, Active(h), initial)

\* A checker that looks at the rows and never at what they say was chosen.
AuthorityUnretained(h, traces, restart) ==
    /\ \A n \in Nodes : traces[n] # <<>> /\ \A i \in DOMAIN traces[n] : ~traces[n][i].torn
    /\ restart => \E n \in Nodes : Cardinality({traces[n][i].gen : i \in DOMAIN traces[n]}) > 1

Successes(h) == {i \in DOMAIN h : h[i].kind = "addAll" /\ h[i].out = "SUCCESS"}

\* authority.validate: whole rows, three voters and a restart; no index that two
\* quorums chose differently; what the voters retain, as far as they retain it,
\* is what was chosen (nothing demands that they retain it); and a run of the
\* declared size.  Its other two minima, of publications and basis chunks, are
\* reached by the seeds and the two elections of every script.
AuthorityValid(h, traces, restart) ==
    /\ \A n \in Nodes : traces[n] # <<>> /\ \A i \in DOMAIN traces[n] : ~traces[n][i].torn
    /\ restart => \E n \in Nodes : Cardinality({traces[n][i].gen : i \in DOMAIN traces[n]}) > 1
    /\ ~qsys.rechosen
    /\ \A k \in DOMAIN qsys.chosen : qsys.chosen[k] = qsys.ever[k]
    /\ Cardinality(Successes(h)) >= Seeds

\* physical: a successful bulk is chosen once, a refused one never, an uncertain
\* one at most once, and a read answers the bytes its own barrier captured.
Physical(h, traces, restart) ==
    /\ AuthorityValid(h, traces, restart)
    /\ \A n \in Nodes : \A i \in DOMAIN traces[n] : traces[n][i].gen \in 1..2
    /\ \A i \in DOMAIN h :
          LET matches == {k \in DOMAIN qsys.ever : qsys.ever[k] = h[i].tag}
          IN IF h[i].kind = "addAll"
             THEN /\ Cardinality(matches) <= 1
                  /\ h[i].out = "SUCCESS" => matches # {}
                  /\ h[i].out = "NOT_SUBMITTED" => matches = {}
             ELSE h[i].out = "SUCCESS" =>
                    /\ h[i].cap # None /\ h[i].cap.fresh
                    /\ h[i].docs = Projection(SubSeq(qsys.ever, 1, h[i].cap.len))
    /\ \A k \in DOMAIN qsys.ever :
          k > qsys.base => \E i \in DOMAIN h : h[i].kind = "addAll" /\ h[i].tag = qsys.ever[k]

FinalRead(h) == Max({i \in DOMAIN h : h[i].kind = "read" /\ h[i].out = "SUCCESS"})
Included(h, i) == ToSet(Docs(h[i].tag)) \subseteq ToSet(h[FinalRead(h)].docs)
RowsOf(n, ev) == {k \in DOMAIN qtrace[n] : qtrace[n][k].ev = ev}

\* crash_rows: one cut, in the first process, and a restart of that voter.
CrashRows ==
    /\ Cardinality(RowsOf(qarm.node, "CUT_REACHED")) = 1
    /\ \E k \in RowsOf(qarm.node, "CUT_REACHED") :
          /\ qtrace[qarm.node][k].detail = qarm.cut
          /\ \E r \in RowsOf(qarm.node, "STARTED") : r > k /\ qtrace[qarm.node][r].gen = 2

\* mutation_cut: a value with an entry quorum at the cut survives the failover.
MutationCut(h) == qarm.cut \notin ReadCuts /\ Stage(qarm.cut) > 2 => Included(h, qarm.op)

\* read_fence: the held read was crossed by a higher promise; uncaptured, it was
\* refused; captured, it completed.
ReadFence(h) ==
    /\ \E a \in RowsOf(qarm.node, "CUT_REACHED"), p \in RowsOf(qarm.node, "PROMISE"),
          b \in RowsOf(qarm.node, "CUT_RELEASED") : a < p /\ p < b
    /\ h[qarm.op].out = IF qarm.cut = "READ_CAPTURED" THEN "SUCCESS" ELSE "NOT_APPLICABLE"

\* tail_decision: the tail is in the result exactly when its frozen quorum held it.
TailDecision(h) ==
    h[qarm.op].out = "PENDING" /\ (Included(h, qarm.op) <=> qcase.cut = "selected")

\* lifecycle: the cancellation (or the refused close) fell inside the pause.
Lifecycle(h) ==
    LET own == qtrace[qarm.node]
        within == {own[k] : k \in {k \in DOMAIN own :
                      \E a \in RowsOf(qarm.node, "CUT_REACHED"), b \in RowsOf(qarm.node, "CUT_RELEASED") :
                          a < k /\ k < b}}
        cancelled == {i \in DOMAIN h : h[i].out = "CANCELLED"}
    IN IF qcase.kind = "close"
       THEN /\ \A what \in {"closeHandle", "duplicateStart"} :
                  \E row \in within : row.ev = "CLIENT_FAILURE" /\ row.detail = what
            /\ h[qarm.op].out = "SUCCESS"
       ELSE /\ \E row \in within : row.ev = "CLIENT_CANCEL"
            /\ Cardinality(cancelled) = 1
            /\ \A i \in cancelled :
                  IF qcase.cut = "READ_CAPTURED" THEN ~Contains(qsys.ever, h[i].tag)
                  ELSE Included(h, i)

\* imported: every voter starts from the published base, in its order.
Imported(h) ==
    SubSeq(h[FinalRead(h)].docs, 1, qsys.base * 2) = Projection(SubSeq(qsys.ever, 1, qsys.base))

\* validate (protocol): isolated campaigns and directed drops really happened.
Isolated ==
    LET dropped == {n \in Nodes : RowsOf(n, "DROP") # {}}
    IN /\ dropped # {} /\ (qcase.cut = "campaigns" => dropped = Nodes)
       /\ \A n \in dropped : RowsOf(n, "PROMISE") # {}

CaseEvidence(h) ==
    CASE qcase.kind = "cut"      -> CrashRows /\ MutationCut(h)
      [] qcase.kind = "fenced"   -> qcase.cut = "none" \/ ReadFence(h)
      [] qcase.kind = "tail"     -> CrashRows /\ TailDecision(h)
      [] qcase.kind = "import"   -> CrashRows /\ Imported(h)
      [] qcase.kind = "network"  -> Isolated
      [] qcase.kind \in {"basis", "snapshot"} -> CrashRows
      [] OTHER -> Lifecycle(h)

\* negatives: the oracles must refuse the same evidence with a stale read, a
\* partial bulk or another order in it, and a barrier that is not the read's.
Negatives(h, initial) ==
    LET i == FinalRead(h)
        forged == {<<>>, Tail(h[i].docs), Reverse(h[i].docs)}
    IN /\ \A docs \in forged :
             LET g == [h EXCEPT ![i].docs = docs]
             IN ~HistoryCheck(g, initial) /\ ~Physical(g, qtrace, TRUE)
       /\ ~Physical([h EXCEPT ![i].cap.fresh = FALSE], qtrace, TRUE)

\* The schedule the case is about did happen.
Exercised(h) ==
    /\ qcase.kind = "cut" =>
          /\ \E j \in DOMAIN h : \E i \in h[j].open : h[i].out # "PENDING"
          /\ h[qarm.op].out = "PENDING"
    /\ \E i \in DOMAIN h : h[i].kind = "read" /\ h[i].out = "SUCCESS"

\* After the script every worker is stopped; then the receipt is decided.
Audit ==
    /\ qverdict = "RUN" /\ qpc = Len(ScriptTable[qcase]) + 1
    /\ LET initial == Projection(SubSeq(qsys.ever, 1, qsys.base))
       IN qverdict' = IF ~Exercised(qhist) THEN "FAIL"
                      ELSE IF /\ HistoryCheck(qhist, initial) /\ Physical(qhist, qtrace, TRUE)
                              /\ CaseEvidence(qhist) /\ Negatives(qhist, initial)
                      THEN "PASS" ELSE "REJECTED"
    /\ UNCHANGED <<qcase, qpc, qsys, qbind, qhist, qtrace, qarm, qexp, qtry, qlied, qdowns>>

QController ==
    \/ StartWorkers \/ FindLeader \/ Call \/ WriteDone \/ ReadDone
    \/ ReadAfterRecovery \/ DeniedDone \/ SendCall \/ Follower \/ SettledStep
    \/ Collect \/ WaveSend \/ WaveDone \/ ArmCut \/ ReachCut
    \/ \E n \in Nodes : KillWorker(n)
    \/ StopWorker \/ SetNetwork \/ Campaign \/ Promise \/ ReleaseHeld
    \/ CancelCall \/ ClosePinned \/ Bookkeep \/ Timeout \/ Audit

QNext == QCluster \/ QController

-----------------------------------------------------------------------------
(* Properties. *)

\* A receipt says PASS only when the cluster kept its contract: a stale, ghost
\* or replayed operation, and a lost one as soon as another leader has proved
\* anything, is caught by the controller or by an oracle (public_history.check,
\* public_qualification_evidence.physical, runtime_evidence.validate).  The one
\* breach that may pass is the loss of chosen records by a cluster that has had
\* no leader since: validate compares what is retained up to provenThrough.
PassMeansHonest ==
    qverdict = "PASS" =>
        qlied = None \/ (qlied = "lost" /\ qsys.ldr = None /\ ~qsys.rechosen)

\* The oracles never refuse a run of a cluster that kept its contract, whatever
\* the crashes, elections and torn observer rows (public_trace.finish).
NoFalseAlarm == qverdict = "REJECTED" => qlied # None

=============================================================================
