---------------------------- MODULE HarnessBase ----------------------------
(***************************************************************************)
(* The vocabulary of the scripted harnesses.  A controller runs a script of *)
(* steps; each step leaves a row in the retained evidence: the event, the   *)
(* role of the process that wrote it, its generation, its outcome and a     *)
(* number (an epoch, an index, a count).  Wire frames, digests and document *)
(* bytes are what the numbers and outcomes stand for.  Validators are       *)
(* predicates on a sequence of rows, and a forgery changes the sequence.    *)
(***************************************************************************)
EXTENDS EvidenceBase

\* A case names its family and what distinguishes it there.
Case(f, x) == [family |-> f, cut |-> x]

Obs(do, e, w, g, o, k) == [do |-> do, ev |-> e, who |-> w, gen |-> g, out |-> o, n |-> k]

Seen(e, w)      == Obs("row", e, w, 1, "OK", 0)     \* an observed event
SeenG(e, w, g)  == Obs("row", e, w, g, "OK", 0)
SeenN(e, w, k)  == Obs("row", e, w, 1, "OK", k)
SeenO(e, w, o)  == Obs("row", e, w, 1, o, 0)
Start(w, g)     == Obs("start", "STARTED", w, g, "OK", 0)   \* an owned process
Stop(w, how)    == Obs("stop", "STOPPED", w, 1, how, 0)
Try(e, w)       == Obs("try", e, w, 1, "OK", 0)     \* a read repeated until it is served
Num(r, k)       == [r EXCEPT !.n = k]
Gen(r, g)       == [r EXCEPT !.gen = g]

-----------------------------------------------------------------------------
(* What a validator asks of the rows. *)

Match(r, p)     == r.ev = p.ev /\ r.who = p.who /\ r.gen = p.gen
All(rows, p)    == {i \in DOMAIN rows : Match(rows[i], p)}
Some(rows, p)   == All(rows, p) # {}
One(rows, p)    == Cardinality(All(rows, p)) = 1
Passed(rows, p) == \E i \in All(rows, p) : rows[i].out = p.out
Exact(rows, p)  == One(rows, p) /\ \E i \in All(rows, p) : rows[i].out = p.out /\ rows[i].n = p.n
Has(rows, p)    == \E i \in All(rows, p) : rows[i].out = p.out /\ rows[i].n = p.n
Numbers(rows, p) == {rows[i].n : i \in All(rows, p)}
Outcomes(rows, p) == {rows[i].out : i \in All(rows, p)}
LatestOf(rows, p)   == CHOOSE i \in All(rows, p) : \A j \in All(rows, p) : i >= j
First(rows, p)  == CHOOSE i \in All(rows, p) : \A j \in All(rows, p) : i <= j

\* The number of the first and of the last p, 0 when there is none.
NumberOf(rows, p)   == IF Some(rows, p) THEN rows[First(rows, p)].n ELSE 0
LastNumber(rows, p) == IF Some(rows, p) THEN rows[LatestOf(rows, p)].n ELSE 0
AllPassed(rows, ps) == \A p \in ps : Some(rows, p) /\ Outcomes(rows, p) = {p.out}

\* Every q has a p before it, and there is one.
Before(rows, p, q) ==
    /\ Some(rows, q)
    /\ \A j \in All(rows, q) : \E i \in All(rows, p) : i < j

\* The rows named appear in this order (the first of each).
InOrder(rows, ps) ==
    /\ \A k \in DOMAIN ps : Some(rows, ps[k])
    /\ \A k \in 1..(Len(ps) - 1) : First(rows, ps[k]) < First(rows, ps[k + 1])

\* The row the same process wrote last before row i is an e.
JustBefore(rows, i, e) ==
    \E j \in 1..(i - 1) :
        /\ rows[j].who = rows[i].who /\ rows[j].ev = e
        /\ \A k \in (j + 1)..(i - 1) : rows[k].who # rows[i].who

\* crash_rows: one cut, reached right after its boundary, then a new process.
CutRows(rows, w, boundary) ==
    LET cut == Seen("CUT_REACHED", w)
    IN /\ One(rows, cut) /\ Some(rows, SeenG("STARTED", w, 2))
       /\ JustBefore(rows, First(rows, cut), boundary)

\* paused: one pause, released once, and what crossed it lies in between.
Paused(rows, w) ==
    /\ One(rows, Seen("CUT_REACHED", w)) /\ One(rows, Seen("CUT_RELEASED", w))
    /\ Before(rows, Seen("CUT_REACHED", w), Seen("CUT_RELEASED", w))
Crossed(rows, w, p) ==
    /\ Paused(rows, w)
    /\ \E i \in All(rows, p) : First(rows, Seen("CUT_REACHED", w)) < i
                            /\ i < First(rows, Seen("CUT_RELEASED", w))

\* The retained archive of a stopped voter is the one recorded.
Archived(rows, w) == Passed(rows, Seen("ARCHIVE", w))

-----------------------------------------------------------------------------
(* What a forgery, or a process that breaks its contract, does to the rows. *)

Change(how, p, q) == [how |-> how, row |-> p, to |-> q, unless |-> Seen("none", "none")]
Drop(p)        == Change("drop", p, p)
Turn(p, o)     == Change("turn", p, [p EXCEPT !.out = o])
Renumber(p, k) == Change("number", p, Num(p, k))
Early(p)       == Change("early", p, p)          \* p appears before everything
Add(p, q)      == Change("add", p, q)            \* q appears right after p
Unless(f, p)   == [f EXCEPT !.unless = p]        \* only where no p was seen

Forge(f, rows) ==
    LET hit == All(rows, f.row)
    IN CASE f.how = "drop"   -> SelectSeq(rows, LAMBDA r : ~Match(r, f.row))
         [] f.how = "turn"   -> [i \in DOMAIN rows |-> IF i \in hit THEN [rows[i] EXCEPT !.out = f.to.out] ELSE rows[i]]
         [] f.how = "number" -> [i \in DOMAIN rows |-> IF i \in hit THEN [rows[i] EXCEPT !.n = f.to.n] ELSE rows[i]]
         [] f.how = "early"  -> SelectSeq(rows, LAMBDA r : Match(r, f.row))
                                  \o SelectSeq(rows, LAMBDA r : ~Match(r, f.row))
         [] OTHER            -> LET i == First(rows, f.row)
                                IN SubSeq(rows, 1, i) \o <<f.to>> \o SubSeq(rows, i + 1, Len(rows))
=============================================================================
