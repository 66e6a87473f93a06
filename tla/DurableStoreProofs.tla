------------------------- MODULE DurableStoreProofs -------------------------
(***************************************************************************)
(* DurablePrefix and CasesPass of DurableStore for every number of          *)
(* sequences, groups, cuts, process deaths and failures.                    *)
(*                                                                          *)
(* The inspector and the engine read the whole directory, so the invariant  *)
(* describes it as a whole: the generations are an interval, each starts    *)
(* where the one before ended and together they cover every sequence, and   *)
(* the manifest is bound to one of them.  The process adds what it knows of *)
(* the newest generation (how much of its group is written) and of the      *)
(* checkpoint it is publishing (where its generation starts, and that the   *)
(* deletions begin only when the manifest names it).                        *)
(*                                                                          *)
(* The crash harnesses also look at the copies, so their invariant ties what*)
(* is staged and published to the step a copy is at, or was at when its     *)
(* process died, the pin of a backup to its checkpoint, and the refresh of  *)
(* the derived image to the manifest.                                       *)
(***************************************************************************)
EXTENDS DurableStore, FiniteSetTheorems, TLAPS

\* The model as a specification.
DurableSpec == DInit /\ [][DNext]_durableVars

\* The sets that the files and the process come from.
Tails  == {"none", "header", "frame"}
Gens   == [first : Nat \ {0}, n : Nat, tail : Tails]
Wals   == UNION {[D -> Gens] : D \in SUBSET Nat}
Points == [seq : Nat, gen : Nat]
Stores == [minor : 0..2, wal : Wals, bare : BOOLEAN, cps : SUBSET Points, man : Points \cup {None},
           stage : SUBSET {"data", "manifest"}, cat : [gen : Nat, n : Nat] \cup {None}]
Phases == {"begin", "staged", "data", "manifest-staged", "replaced", "cleaning", "refresh"}
Cks    == [at : Phases, seq : Nat, gen : Nat, backup : BOOLEAN, n : Nat]
Pcs    == {"idle", "write", "forced", "published", "failed", "opening", "cut", "backup-cut"}
Procs  == [up : BOOLEAN, pc : Pcs,
           left : Nat, base : Nat, alloc : Nat, pub : Nat, ck : Cks \cup {None},
           terminal : BOOLEAN]

DurableTypes == store \in Stores /\ proc \in Procs /\ acked \in Nat

\* The generations are lo..hi, one after the other, only the last may be torn,
\* and they cover every sequence from the first of any of them on.
Chain(w, lo, hi) ==
  /\ lo \in Nat /\ hi \in Nat /\ 1 <= lo /\ lo <= hi /\ DOMAIN w = lo..hi
  /\ lo = 1 => w[1].first = 1
  /\ \A g \in lo..hi : g < hi => w[g].tail = "none" /\ w[g + 1].first = LastSeq(w[g]) + 1
  /\ \A g, h \in lo..hi : g < h => LastSeq(w[g]) < w[h].first
  /\ \A g \in lo..hi : \A q \in w[g].first..LastSeq(w[hi]) :
       \E x \in lo..hi : q \in w[x].first..LastSeq(w[x])

\* The manifest names a checkpoint that exists, and its generation.
Bound(s) ==
  /\ s.man = None => 1 \in DOMAIN s.wal
  /\ s.man # None => /\ s.man \in s.cps /\ s.man.gen \in DOMAIN s.wal
                     /\ s.wal[s.man.gen].first = s.man.seq + 1

\* What the process knows of the newest generation.
Written(hi) ==
  LET w == store.wal[hi] IN
  /\ acked <= LastSeq(w) /\ LastSeq(w) <= proc.alloc /\ proc.alloc <= MaxSeq
  /\ proc.pub <= LastSeq(w) /\ proc.base <= LastSeq(w)
  /\ proc.pc \in {"idle", "opening", "forced", "published", "cut", "backup-cut"} =>
       LastSeq(w) = proc.alloc /\ w.tail = "none"
  /\ proc.pc \in {"cut", "backup-cut"} => proc.pub = proc.alloc
  /\ proc.pc = "write" =>
       LastSeq(w) + proc.left = proc.alloc /\ (proc.left = 0 => w.tail = "none")
  /\ proc.pc = "failed" => proc.terminal

\* What it knows of the checkpoint it publishes.
Publishing ==
  (proc.ck # None /\ proc.ck.at # "refresh") =>
    /\ proc.ck.gen \in DOMAIN store.wal /\ store.wal[proc.ck.gen].first = proc.ck.seq + 1
    /\ proc.ck.at \in {"data", "manifest-staged", "replaced", "cleaning"} => Ck \in store.cps
    /\ (store.man = Ck) <=> (proc.ck.at \in {"replaced", "cleaning"})

\* A file without a header stands only while a cut is under way, or when the
\* cut has failed and the writer with it.
BareInv == store.bare => proc.pc \in Cuts \/ proc.terminal

\* The chain of generations and what the process knows of it.
DurableInv ==
  /\ DurableTypes
  /\ \E lo, hi \in Nat : Chain(store.wal, lo, hi) /\ Written(hi)
  /\ Bound(store)
  /\ Publishing

-----------------------------------------------------------------------------
(* Maximum and minimum, generations *)

\* The largest of a set of numbers.
LEMMA MaxIs ==
  ASSUME NEW S \in SUBSET Nat, NEW x \in S, \A y \in S : y <= x
  PROVE  Max(S) = x
<1>1. x \in S /\ \A y \in S : x >= y
  OBVIOUS
<1>2. PICK m : m = Max(S)
  OBVIOUS
<1>3. m \in S /\ \A y \in S : m >= y
  BY <1>1, <1>2 DEF Max
<1>4. m >= x /\ x >= m /\ m \in Nat /\ x \in Nat
  BY <1>3
<1> QED BY <1>2, <1>4

\* The smallest.
LEMMA MinIs ==
  ASSUME NEW S \in SUBSET Nat, NEW x \in S, \A y \in S : x <= y
  PROVE  Min(S) = x
<1>1. x \in S /\ \A y \in S : x =< y
  OBVIOUS
<1>2. PICK m : m = Min(S)
  OBVIOUS
<1>3. m \in S /\ \A y \in S : m =< y
  BY <1>1, <1>2 DEF Min
<1>4. m >= x /\ x >= m /\ m \in Nat /\ x \in Nat
  BY <1>3
<1> QED BY <1>2, <1>4

\* What a family of generations is.
LEMMA WalParts ==
  ASSUME NEW w \in Wals
  PROVE  DOMAIN w \subseteq Nat /\ \A g \in DOMAIN w : w[g] \in Gens
<1>1. PICK D \in SUBSET Nat : w \in [D -> Gens]
  BY DEF Wals
<1> QED BY <1>1

\* A function from numbers to generations is a family of them.
LEMMA WalIs ==
  ASSUME NEW D \in SUBSET Nat, NEW w \in [D -> Gens]
  PROVE  w \in Wals
  BY DEF Wals

\* The numbers of a generation.
LEMMA GenParts ==
  ASSUME NEW w \in Wals, NEW g \in DOMAIN w
  PROVE  /\ w[g] \in Gens /\ w[g].first \in Nat /\ w[g].first >= 1 /\ w[g].n \in Nat
         /\ LastSeq(w[g]) \in Nat /\ LastSeq(w[g]) = w[g].first + w[g].n - 1
<1>1. w[g] \in Gens
  BY WalParts
<1>2. w[g].first \in Nat /\ w[g].first >= 1 /\ w[g].n \in Nat
  BY <1>1 DEF Gens
<1> QED BY <1>1, <1>2 DEF LastSeq

\* The ends of a chain, and how its last sequences grow.
LEMMA ChainEnds ==
  ASSUME NEW w \in Wals, NEW lo \in Nat, NEW hi \in Nat, Chain(w, lo, hi)
  PROVE  /\ DOMAIN w = lo..hi /\ lo \in DOMAIN w /\ hi \in DOMAIN w
         /\ Max(DOMAIN w) = hi /\ Min(DOMAIN w) = lo
         /\ \A g \in DOMAIN w : LastSeq(w[g]) <= LastSeq(w[hi]) /\ w[g].first <= LastSeq(w[hi]) + 1
<1>1. DOMAIN w = lo..hi /\ lo <= hi /\ 1 <= lo
  BY DEF Chain
<1>2. lo \in DOMAIN w /\ hi \in DOMAIN w /\ DOMAIN w \in SUBSET Nat
  BY <1>1
<1>3. Max(DOMAIN w) = hi
  BY <1>1, <1>2, MaxIs
<1>4. Min(DOMAIN w) = lo
  BY <1>1, <1>2, MinIs
<1>5. ASSUME NEW g \in DOMAIN w
      PROVE  LastSeq(w[g]) <= LastSeq(w[hi]) /\ w[g].first <= LastSeq(w[hi]) + 1
  <2>1. /\ w[g].first \in Nat /\ w[g].n \in Nat /\ w[g].first >= 1
        /\ LastSeq(w[g]) \in Nat /\ LastSeq(w[g]) = w[g].first + w[g].n - 1
    BY GenParts
  <2>2. /\ w[hi].first \in Nat /\ w[hi].n \in Nat /\ LastSeq(w[hi]) \in Nat
        /\ LastSeq(w[hi]) = w[hi].first + w[hi].n - 1
    BY <1>2, GenParts
  <2>3. g < hi => LastSeq(w[g]) < w[hi].first
    BY <1>1, <1>2 DEF Chain
  <2>4. CASE g = hi
    BY <2>1, <2>2, <2>4
  <2>5. CASE g < hi
    BY <2>1, <2>2, <2>3, <2>5
  <2> QED BY <1>1, <2>4, <2>5
<1> QED BY <1>1, <1>2, <1>3, <1>4, <1>5

\* The typed facts of the state.
LEMMA StateTypes ==
  ASSUME DurableTypes
  PROVE  /\ store \in Stores /\ store.wal \in Wals /\ store.cps \in SUBSET Points
         /\ store.man \in Points \cup {None}
         /\ proc \in Procs /\ proc.up \in BOOLEAN /\ proc.left \in Nat /\ proc.base \in Nat
         /\ proc.alloc \in Nat /\ proc.pub \in Nat /\ proc.ck \in Cks \cup {None}
         /\ proc.terminal \in BOOLEAN /\ acked \in Nat
  BY DEF DurableTypes, Stores, Procs

-----------------------------------------------------------------------------
(* What the invariant says of the files *)

\* The sequence that the checkpoint of the manifest covers.
From(s) == IF s.man = None THEN 0 ELSE s.man.seq

\* The records after the checkpoint are covered up to the last one.
LEMMA FromCovered ==
  ASSUME DurableTypes, Bound(store), NEW lo \in Nat, NEW hi \in Nat, Chain(store.wal, lo, hi)
  PROVE  /\ From(store) \in Nat /\ From(store) <= LastSeq(store.wal[hi])
         /\ \A q \in (From(store) + 1)..LastSeq(store.wal[hi]) :
              \E x \in DOMAIN store.wal : q \in store.wal[x].first..LastSeq(store.wal[x])
<1>1. PICK w : w = store.wal /\ w \in Wals
  BY StateTypes
<1>2. /\ DOMAIN w = lo..hi /\ hi \in DOMAIN w /\ LastSeq(w[hi]) \in Nat
      /\ \A g \in DOMAIN w : w[g].first \in Nat /\ w[g].first <= LastSeq(w[hi]) + 1
  BY <1>1, ChainEnds, GenParts
<1>3. PICK g \in DOMAIN w : w[g].first = From(store) + 1 /\ From(store) \in Nat
  <2>1. CASE store.man = None
    <3>1. 1 \in DOMAIN w /\ From(store) = 0
      BY <1>1, <2>1 DEF Bound, From
    <3>2. lo = 1
      BY <1>1, <1>2, <3>1 DEF Chain
    <3>3. w[1].first = 1
      BY <1>1, <3>2 DEF Chain
    <3> QED BY <3>1, <3>3
  <2>2. CASE store.man # None
    <3>1. store.man \in Points
      BY <2>2, StateTypes
    <3>2. store.man.gen \in DOMAIN w /\ w[store.man.gen].first = store.man.seq + 1
      BY <1>1, <2>2 DEF Bound
    <3>3. From(store) = store.man.seq /\ store.man.seq \in Nat
      BY <2>2, <3>1 DEF From, Points
    <3> QED BY <3>2, <3>3
  <2> QED BY <2>1, <2>2
<1>4. From(store) <= LastSeq(w[hi])
  BY <1>2, <1>3
<1>5. \A q \in w[g].first..LastSeq(w[hi]) : \E x \in lo..hi : q \in w[x].first..LastSeq(w[x])
  BY <1>1, <1>2, <1>3 DEF Chain
<1> QED BY <1>1, <1>2, <1>3, <1>4, <1>5

\* Inspection and replay reach the last record of the newest generation.
LEMMA PrefixOf ==
  ASSUME DurableTypes, Bound(store), NEW lo \in Nat, NEW hi \in Nat, Chain(store.wal, lo, hi),
         LastSeq(store.wal[hi]) <= MaxSeq
  PROVE  /\ Newest(store) = hi /\ Inspected(Headed(store)) /\ Opens(Headed(store))
         /\ DurableSequence(store) = LastSeq(store.wal[hi])
         /\ Replayed(store) = LastSeq(store.wal[hi])
<1>1. PICK w : w = store.wal /\ w \in Wals
  BY StateTypes
<1>2. PICK L : L = LastSeq(w[hi])
  OBVIOUS
<1>3. /\ DOMAIN w = lo..hi /\ lo \in DOMAIN w /\ hi \in DOMAIN w /\ L \in Nat
      /\ Max(DOMAIN w) = hi /\ Min(DOMAIN w) = lo
      /\ \A g \in DOMAIN w : LastSeq(w[g]) <= L
  BY <1>1, <1>2, ChainEnds, GenParts
<1>4. Newest(store) = hi
  BY <1>1, <1>3 DEF Newest
<1>5. Contiguous(store)
  <2>1. ASSUME NEW g \in DOMAIN w
        PROVE  /\ g # lo => g - 1 \in DOMAIN w /\ w[g].first = LastSeq(w[g - 1]) + 1
               /\ g = 1 => w[g].first = 1
    <3>1. ASSUME g # lo PROVE g - 1 \in DOMAIN w /\ w[g].first = LastSeq(w[g - 1]) + 1
      <4>1. g - 1 \in lo..hi /\ g - 1 < hi /\ (g - 1) + 1 = g
        BY <1>3, <3>1
      <4> QED BY <1>1, <1>3, <4>1 DEF Chain
    <3>2. ASSUME g = 1 PROVE w[g].first = 1
      <4>1. lo = 1
        BY <1>1, <1>3, <3>2 DEF Chain
      <4> QED BY <1>1, <3>2, <4>1 DEF Chain
    <3> QED BY <3>1, <3>2
  <2> QED BY <1>1, <1>3, <2>1 DEF Contiguous
<1>6. ManifestBound(store)
  BY DEF ManifestBound, Bound
<1>12. PICK s : s = Headed(store)
  OBVIOUS
<1>13. /\ s.wal = store.wal /\ s.man = store.man /\ s.cps = store.cps /\ s.bare = FALSE
  BY <1>12 DEF Headed, DurableTypes, Stores
<1>14. Contiguous(s) /\ ManifestBound(s) /\ Newest(s) = Newest(store)
  BY <1>5, <1>6, <1>13 DEF Contiguous, ManifestBound, Newest
<1>7. Inspected(s)
  <2>1. lo # 1 => store.man # None /\ lo <= store.man.gen
    BY <1>1, <1>3 DEF Bound, Chain
  <2>2. DOMAIN store.wal # {} /\ Min(DOMAIN store.wal) = lo
    BY <1>1, <1>3
  <2> QED BY <1>13, <1>14, <2>1, <2>2 DEF Inspected
<1>8. Opens(s)
  <2>1. store.man # None => lo <= store.man.gen
    BY <1>1, <1>3 DEF Bound
  <2>2. \A g \in DOMAIN w \ {hi} : w[g].tail = "none"
    <3> SUFFICES ASSUME NEW g \in DOMAIN w, g # hi PROVE w[g].tail = "none"
      OBVIOUS
    <3>1. g \in lo..hi /\ g < hi
      BY <1>3
    <3> QED BY <1>1, <3>1 DEF Chain
  <2>3. DOMAIN store.wal # {} /\ Min(DOMAIN store.wal) = lo
    BY <1>1, <1>3
  <2> QED BY <1>1, <1>4, <1>13, <1>14, <2>1, <2>2, <2>3 DEF Opens
<1>9. From(store) \in Nat /\ From(store) <= L
  BY <1>1, <1>2, FromCovered
<1>10. DurableSequence(store) = L
  <2>1. PICK S : S = {LastSeq(w[g]) : g \in DOMAIN w} \cup {From(store)}
    OBVIOUS
  <2>2. S \in SUBSET Nat
    BY <1>1, <1>9, <2>1, GenParts
  <2>3. L \in S /\ \A y \in S : y <= L
    BY <1>2, <1>3, <1>9, <2>1
  <2>4. Max(S) = L
    BY <2>2, <2>3, MaxIs
  <2> QED BY <1>1, <2>1, <2>4 DEF DurableSequence, From
<1>11. Replayed(store) = L
  <2>1. PICK Q : Q = {q \in (From(store) + 1)..MaxSeq :
                        \E g \in DOMAIN w : q \in w[g].first..LastSeq(w[g])}
    OBVIOUS
  <2>2. MaxSeq \in Nat
    BY DurableBounds
  <2>3. Q \subseteq (From(store) + 1)..L
    <3> SUFFICES ASSUME NEW q \in Q PROVE q \in (From(store) + 1)..L
      OBVIOUS
    <3>1. PICK g \in DOMAIN w : q \in w[g].first..LastSeq(w[g])
      BY <2>1
    <3>2. q \in (From(store) + 1)..MaxSeq
      BY <2>1
    <3>3. LastSeq(w[g]) \in Nat /\ w[g].first \in Nat /\ LastSeq(w[g]) <= L
      BY <1>1, <1>3, GenParts
    <3> QED BY <1>3, <1>9, <2>2, <3>1, <3>2, <3>3
  <2>4. (From(store) + 1)..L \subseteq Q
    <3> SUFFICES ASSUME NEW q \in (From(store) + 1)..L PROVE q \in Q
      OBVIOUS
    <3>1. \E g \in DOMAIN w : q \in w[g].first..LastSeq(w[g])
      BY <1>1, <1>2, FromCovered
    <3>2. q \in (From(store) + 1)..MaxSeq
      BY <1>1, <1>2, <1>3, <1>9, <2>2
    <3> QED BY <2>1, <3>1, <3>2
  <2>5. Q = (From(store) + 1)..L
    BY <2>3, <2>4
  <2>6. Cardinality(Q) = L - From(store)
    <3>1. From(store) + 1 \in Int /\ L \in Int
      BY <1>3, <1>9
    <3>2. Cardinality((From(store) + 1)..L)
            = IF From(store) + 1 > L THEN 0 ELSE L - (From(store) + 1) + 1
      BY <3>1, FS_Interval
    <3> QED BY <1>3, <1>9, <2>5, <3>2
  <2>7. Replayed(store) = From(store) + Cardinality(Q)
    BY <1>1, <2>1 DEF Replayed, From
  <2> QED BY <1>3, <1>9, <2>6, <2>7
<1> QED BY <1>1, <1>2, <1>4, <1>7, <1>8, <1>10, <1>11, <1>12

\* The property follows from the invariant.
LEMMA InvGivesPrefix ==
  ASSUME DurableInv, BareInv
  PROVE  DurablePrefix
<1>1. PICK lo, hi \in Nat : Chain(store.wal, lo, hi) /\ Written(hi)
  BY DEF DurableInv
<1>2. /\ acked <= LastSeq(store.wal[hi]) /\ LastSeq(store.wal[hi]) <= proc.alloc
      /\ proc.alloc <= MaxSeq
  BY <1>1 DEF Written
<1>3. LastSeq(store.wal[hi]) <= MaxSeq
  <2>1. LastSeq(store.wal[hi]) \in Nat
    BY <1>1, StateTypes, ChainEnds, GenParts DEF DurableInv
  <2> QED BY <1>2, <2>1, StateTypes, DurableBounds DEF DurableInv
<1> QED BY <1>1, <1>2, <1>3, PrefixOf DEF DurableInv, DurablePrefix, BareInv

-----------------------------------------------------------------------------
(* What happens to a chain *)

\* The newest generation grows.
LEMMA ChainWrite ==
  ASSUME NEW w \in Wals, NEW lo \in Nat, NEW hi \in Nat, Chain(w, lo, hi),
         NEW v \in Gens, v.first = w[hi].first, v.n >= w[hi].n,
         NEW u, DOMAIN u = DOMAIN w, u[hi] = v, \A g \in DOMAIN w : g # hi => u[g] = w[g]
  PROVE  Chain(u, lo, hi)
<1>1. /\ DOMAIN w = lo..hi /\ hi \in lo..hi /\ 1 <= lo /\ lo <= hi
      /\ LastSeq(w[hi]) = w[hi].first + w[hi].n - 1
      /\ w[hi].first \in Nat /\ w[hi].first >= 1 /\ w[hi].n \in Nat
  <2>1. DOMAIN w = lo..hi /\ hi \in DOMAIN w
    BY ChainEnds
  <2>2. /\ LastSeq(w[hi]) = w[hi].first + w[hi].n - 1
        /\ w[hi].first \in Nat /\ w[hi].first >= 1 /\ w[hi].n \in Nat
    BY <2>1, GenParts
  <2>3. 1 <= lo /\ lo <= hi
    BY DEF Chain
  <2> QED BY <2>1, <2>2, <2>3
<1>2. DOMAIN u = lo..hi /\ u[hi] = v /\ \A g \in lo..hi : g # hi => u[g] = w[g]
  BY <1>1
<1>4. v.n \in Nat /\ LastSeq(v) \in Nat /\ LastSeq(v) >= LastSeq(w[hi]) /\ LastSeq(w[hi]) \in Nat
  <2>1. v.n \in Nat
    BY DEF Gens
  <2>2. LastSeq(v) = v.first + v.n - 1
    BY DEF LastSeq
  <2>3. PICK a, m, k \in Nat : a = w[hi].first /\ a >= 1 /\ m = w[hi].n /\ k = v.n /\ k >= m
    BY <1>1, <2>1
  <2>4. a + m - 1 \in Nat /\ a + k - 1 \in Nat /\ a + k - 1 >= a + m - 1
    BY <2>3
  <2>5. LastSeq(w[hi]) = a + m - 1 /\ LastSeq(v) = a + k - 1
    BY <1>1, <2>2, <2>3
  <2> QED BY <2>1, <2>4, <2>5
<1>5. \A g \in lo..hi : u[g].first = w[g].first
  BY <1>2
<1>6. lo = 1 => u[1].first = 1
  BY <1>1, <1>5 DEF Chain
<1>7. \A g \in lo..hi : g < hi => u[g].tail = "none" /\ u[g + 1].first = LastSeq(u[g]) + 1
  <2> SUFFICES ASSUME NEW g \in lo..hi, g < hi
               PROVE  u[g].tail = "none" /\ u[g + 1].first = LastSeq(u[g]) + 1
    OBVIOUS
  <2>1. g + 1 \in lo..hi /\ u[g] = w[g]
    BY <1>1, <1>2
  <2>2. w[g].tail = "none" /\ w[g + 1].first = LastSeq(w[g]) + 1
    BY DEF Chain
  <2> QED BY <1>5, <2>1, <2>2
<1>8. \A g, h \in lo..hi : g < h => LastSeq(u[g]) < u[h].first
  <2> SUFFICES ASSUME NEW g \in lo..hi, NEW h \in lo..hi, g < h
               PROVE  LastSeq(u[g]) < u[h].first
    OBVIOUS
  <2>1. u[g] = w[g]
    BY <1>1, <1>2
  <2>2. LastSeq(w[g]) < w[h].first
    BY DEF Chain
  <2> QED BY <1>5, <2>1, <2>2
<1>9. ASSUME NEW g \in lo..hi, NEW q \in u[g].first..LastSeq(u[hi])
      PROVE  \E x \in lo..hi : q \in u[x].first..LastSeq(u[x])
  <2>1. w[g].first \in Nat /\ q \in Nat /\ q >= w[g].first /\ q <= LastSeq(v)
    BY <1>1, <1>2, <1>4, <1>5, GenParts
  <2>2. CASE q <= LastSeq(w[hi])
    <3>1. q \in w[g].first..LastSeq(w[hi])
      BY <1>4, <2>1, <2>2
    <3>2. PICK x \in lo..hi : q \in w[x].first..LastSeq(w[x])
      BY <3>1 DEF Chain
    <3>3. w[x].first \in Nat /\ LastSeq(w[x]) \in Nat
      BY <1>1, GenParts
    <3>4. q \in u[x].first..LastSeq(u[x])
      <4>1. CASE x = hi
        BY <1>2, <1>4, <1>5, <3>2, <3>3, <4>1
      <4>2. CASE x # hi
        BY <1>2, <3>2, <4>2
      <4> QED BY <4>1, <4>2
    <3> QED BY <3>4
  <2>3. CASE q > LastSeq(w[hi])
    <3>1. q \in v.first..LastSeq(v)
      BY <1>1, <1>4, <2>1, <2>3
    <3> QED BY <1>1, <1>2, <3>1
  <2> QED BY <1>4, <2>1, <2>2, <2>3
<1> QED BY <1>1, <1>2, <1>6, <1>7, <1>8, <1>9 DEF Chain

\* A cut adds an empty generation.
LEMMA ChainCut ==
  ASSUME NEW w \in Wals, NEW lo \in Nat, NEW hi \in Nat, Chain(w, lo, hi),
         w[hi].tail = "none", NEW f \in Nat, f = LastSeq(w[hi]) + 1,
         NEW u, u = [h \in DOMAIN w \cup {hi + 1} |-> IF h = hi + 1 THEN EmptyWal(f) ELSE w[h]]
  PROVE  /\ u \in Wals /\ Chain(u, lo, hi + 1) /\ u[hi + 1] = EmptyWal(f)
         /\ LastSeq(EmptyWal(f)) = LastSeq(w[hi])
         /\ \A g \in DOMAIN w : g \in DOMAIN u /\ u[g] = w[g]
<1>1. /\ DOMAIN w = lo..hi /\ hi \in lo..hi /\ 1 <= lo /\ lo <= hi /\ LastSeq(w[hi]) \in Nat
      /\ \A g \in lo..hi : LastSeq(w[g]) <= LastSeq(w[hi]) /\ LastSeq(w[g]) \in Nat /\ w[g].first \in Nat
  <2>1. /\ DOMAIN w = lo..hi /\ hi \in DOMAIN w
        /\ \A g \in DOMAIN w : LastSeq(w[g]) <= LastSeq(w[hi])
    BY ChainEnds
  <2>2. \A g \in DOMAIN w : LastSeq(w[g]) \in Nat /\ w[g].first \in Nat
    BY GenParts
  <2>3. 1 <= lo /\ lo <= hi
    BY DEF Chain
  <2> QED BY <2>1, <2>2, <2>3
<1>2. DOMAIN w \cup {hi + 1} = lo..(hi + 1)
  <2>1. DOMAIN w = lo..hi /\ lo <= hi
    BY <1>1
  <2>2. lo..hi \cup {hi + 1} = lo..(hi + 1)
    BY <2>1
  <2> QED BY <2>1, <2>2
<1>3. DOMAIN u = lo..(hi + 1) /\ u[hi + 1] = EmptyWal(f) /\ \A g \in lo..hi : u[g] = w[g]
  <2>1. u = [h \in lo..(hi + 1) |-> IF h = hi + 1 THEN EmptyWal(f) ELSE w[h]]
    BY <1>2
  <2>2. hi + 1 \in lo..(hi + 1) /\ \A g \in lo..hi : g \in lo..(hi + 1) /\ g # hi + 1
    BY <1>1
  <2> QED BY <2>1, <2>2
<1>4. EmptyWal(f) \in Gens /\ EmptyWal(f).first = f /\ LastSeq(EmptyWal(f)) = LastSeq(w[hi])
  <2>1. LastSeq(w[hi]) \in Nat
    BY <1>1
  <2>2. f \in Nat \ {0} /\ f - 1 = LastSeq(w[hi])
    BY <2>1
  <2>3. EmptyWal(f) \in Gens /\ EmptyWal(f).first = f /\ EmptyWal(f).n = 0
    BY <2>2 DEF EmptyWal, Gens, Tails
  <2>4. LastSeq(EmptyWal(f)) = f - 1
    BY <2>2, <2>3 DEF LastSeq
  <2> QED BY <2>2, <2>3, <2>4
<1>5. u \in Wals
  <2>1. lo..(hi + 1) \in SUBSET Nat
    OBVIOUS
  <2>2. u \in [lo..(hi + 1) -> Gens]
    <3>1. \A g \in lo..(hi + 1) : u[g] \in Gens
      BY <1>1, <1>3, <1>4, WalParts
    <3> QED BY <1>2, <3>1
  <2> QED BY <2>1, <2>2, WalIs
<1>6. lo = 1 => u[1].first = 1
  <2>1. lo \in lo..hi
    BY <1>1
  <2> QED BY <1>3, <2>1 DEF Chain
<1>7. ASSUME NEW g \in lo..(hi + 1), g < hi + 1
      PROVE  u[g].tail = "none" /\ u[g + 1].first = LastSeq(u[g]) + 1
  <2>1. g \in lo..hi /\ u[g] = w[g]
    BY <1>3, <1>7
  <2>2. CASE g = hi
    BY <1>3, <1>4, <2>1, <2>2
  <2>3. CASE g < hi
    <3>1. g + 1 \in lo..hi
      BY <2>1, <2>3
    <3>2. u[g + 1] = w[g + 1]
      BY <1>3, <3>1
    <3>3. w[g].tail = "none" /\ w[g + 1].first = LastSeq(w[g]) + 1
      BY <2>1, <2>3 DEF Chain
    <3> QED BY <2>1, <3>2, <3>3
  <2> QED BY <2>1, <2>2, <2>3
<1>8. ASSUME NEW g \in lo..(hi + 1), NEW h \in lo..(hi + 1), g < h
      PROVE  LastSeq(u[g]) < u[h].first
  <2>1. g \in lo..hi /\ u[g] = w[g]
    BY <1>3, <1>8
  <2>2. CASE h = hi + 1
    BY <1>1, <1>3, <1>4, <2>1, <2>2
  <2>3. CASE h # hi + 1
    <3>1. h \in lo..hi /\ u[h] = w[h]
      BY <1>3, <2>3
    <3>2. LastSeq(w[g]) < w[h].first
      BY <1>8, <2>1, <3>1 DEF Chain
    <3> QED BY <2>1, <3>1, <3>2
  <2> QED BY <2>2, <2>3
<1>9. ASSUME NEW g \in lo..(hi + 1), NEW q \in u[g].first..LastSeq(u[hi + 1])
      PROVE  \E x \in lo..(hi + 1) : q \in u[x].first..LastSeq(u[x])
  <2>1. LastSeq(u[hi + 1]) = LastSeq(w[hi])
    BY <1>3, <1>4
  <2>2. CASE g = hi + 1
    BY <2>2
  <2>3. CASE g # hi + 1
    <3>1. g \in lo..hi /\ u[g] = w[g]
      BY <1>3, <2>3
    <3>2. q \in w[g].first..LastSeq(w[hi])
      BY <2>1, <3>1
    <3>3. PICK x \in lo..hi : q \in w[x].first..LastSeq(w[x])
      BY <3>1, <3>2 DEF Chain
    <3>4. x \in lo..(hi + 1) /\ u[x] = w[x]
      BY <1>3
    <3> QED BY <3>3, <3>4
  <2> QED BY <2>2, <2>3
<1>10. Chain(u, lo, hi + 1)
  <2>1. hi + 1 \in Nat /\ lo <= hi + 1
    BY <1>1
  <2> QED BY <1>1, <1>3, <1>6, <1>7, <1>8, <1>9, <2>1 DEF Chain
<1> QED BY <1>1, <1>3, <1>4, <1>5, <1>10

\* The oldest generation is deleted.
LEMMA ChainDrop ==
  ASSUME NEW w \in Wals, NEW lo \in Nat, NEW hi \in Nat, Chain(w, lo, hi), lo < hi,
         NEW u, u = [h \in DOMAIN w \ {lo} |-> w[h]]
  PROVE  /\ u \in Wals /\ Chain(u, lo + 1, hi) /\ u[hi] = w[hi]
         /\ \A g \in DOMAIN w : g # lo => g \in DOMAIN u /\ u[g] = w[g]
<1>1. DOMAIN w = lo..hi /\ lo >= 1
  BY DEF Chain
<1>2. DOMAIN w \ {lo} = (lo + 1)..hi
  BY <1>1
<1>3. DOMAIN u = (lo + 1)..hi /\ \A g \in (lo + 1)..hi : g \in lo..hi /\ u[g] = w[g]
  BY <1>1, <1>2
<1>4. u \in Wals
  <2>1. (lo + 1)..hi \in SUBSET Nat
    OBVIOUS
  <2>2. \A g \in (lo + 1)..hi : u[g] \in Gens
    BY <1>1, <1>3, WalParts
  <2>3. u \in [(lo + 1)..hi -> Gens]
    BY <1>2, <2>2
  <2> QED BY <2>1, <2>3, WalIs
<1>5. ASSUME NEW g \in (lo + 1)..hi, g < hi
      PROVE  u[g].tail = "none" /\ u[g + 1].first = LastSeq(u[g]) + 1
  <2>1. g + 1 \in (lo + 1)..hi
    BY <1>5
  <2>2. u[g] = w[g] /\ u[g + 1] = w[g + 1] /\ g \in lo..hi
    BY <1>3, <2>1
  <2> QED BY <1>5, <2>2 DEF Chain
<1>6. ASSUME NEW g \in (lo + 1)..hi, NEW h \in (lo + 1)..hi, g < h
      PROVE  LastSeq(u[g]) < u[h].first
  BY <1>3, <1>6 DEF Chain
<1>7. hi \in (lo + 1)..hi /\ u[hi] = w[hi]
  BY <1>3
<1>8. ASSUME NEW g \in (lo + 1)..hi, NEW q \in u[g].first..LastSeq(u[hi])
      PROVE  \E x \in (lo + 1)..hi : q \in u[x].first..LastSeq(u[x])
  <2>1. u[g] = w[g] /\ g \in lo..hi
    BY <1>3
  <2>2. q \in w[g].first..LastSeq(w[hi])
    BY <1>7, <2>1
  <2>3. PICK x \in lo..hi : q \in w[x].first..LastSeq(w[x])
    BY <2>1, <2>2 DEF Chain
  <2>4. x # lo
    <3>1. LastSeq(w[lo]) < w[g].first
      BY <2>1 DEF Chain
    <3>2. LastSeq(w[lo]) \in Nat /\ w[lo].first \in Nat /\ w[g].first \in Nat /\ LastSeq(w[hi]) \in Nat
      BY <1>1, <2>1, GenParts
    <3> QED BY <2>2, <2>3, <3>1, <3>2
  <2>5. x \in (lo + 1)..hi
    BY <2>3, <2>4
  <2> QED BY <1>3, <2>3, <2>5
<1>9. Chain(u, lo + 1, hi)
  <2>1. lo + 1 \in Nat /\ 1 <= lo + 1 /\ lo + 1 <= hi /\ lo + 1 # 1
    BY <1>1
  <2> QED BY <1>3, <1>5, <1>6, <1>8, <2>1 DEF Chain
<1> QED BY <1>1, <1>3, <1>4, <1>7, <1>9

-----------------------------------------------------------------------------
(* Steps that leave the generations alone *)

\* The files stay bound while checkpoints are only added.
LEMMA BoundSame ==
  ASSUME Bound(store), store'.wal = store.wal, store'.man = store.man,
         store.cps \subseteq store'.cps
  PROVE  Bound(store')
  BY DEF Bound

\* So does the checkpoint under publication.
LEMMA PublishingSame ==
  ASSUME Publishing, store'.wal = store.wal, store'.man = store.man,
         store.cps \subseteq store'.cps, proc'.ck = proc.ck
  PROVE  Publishing'
<1>1. Ck' = Ck
  BY DEF Ck
<1> QED BY <1>1 DEF Publishing

\* The chain is as it was; what is written may be known differently.
LEMMA KeepsChain ==
  ASSUME DurableInv, DurableTypes', store'.wal = store.wal, Bound(store'), Publishing',
         \A hi \in Nat : hi \in DOMAIN store.wal /\ Written(hi) => Written(hi)'
  PROVE  DurableInv'
<1>1. PICK lo, hi \in Nat : Chain(store.wal, lo, hi) /\ Written(hi)
  BY DEF DurableInv
<1>2. hi \in DOMAIN store.wal
  BY <1>1, StateTypes, ChainEnds DEF DurableInv
<1>3. Chain(store'.wal, lo, hi) /\ Written(hi)'
  BY <1>1, <1>2
<1> QED BY <1>3 DEF DurableInv

\* A step of the writer: the files are as they were.
LEMMA WriterStep ==
  ASSUME DurableInv, store' = store, proc' \in Procs, proc'.ck = proc.ck, acked' \in Nat,
         \A hi \in Nat : hi \in DOMAIN store.wal /\ Written(hi) => Written(hi)'
  PROVE  DurableInv'
<1>1. DurableTypes' /\ Bound(store') /\ Publishing'
  BY PublishingSame DEF DurableInv, DurableTypes
<1> QED BY <1>1, KeepsChain

\* The process's fields of the writer are as they were.
SameWriter ==
  /\ proc'.up = proc.up /\ proc'.pc = proc.pc /\ proc'.left = proc.left
  /\ proc'.alloc = proc.alloc /\ proc'.pub = proc.pub /\ proc'.base = proc.base
  /\ (proc.terminal => proc'.terminal) /\ acked' = acked

\* What is written is known as before.
LEMMA WrittenSame ==
  ASSUME SameWriter, store'.wal = store.wal
  PROVE  \A hi : Written(hi) => Written(hi)'
  BY DEF SameWriter, Written

\* A step of the checkpoint.
LEMMA CheckpointStep ==
  ASSUME DurableInv, store' \in Stores, store'.wal = store.wal, Bound(store'),
         proc' \in Procs, SameWriter, Publishing'
  PROVE  DurableInv'
<1>1. DurableTypes'
  BY DEF DurableInv, DurableTypes, SameWriter
<1>2. \A hi : Written(hi) => Written(hi)'
  BY WrittenSame
<1> QED BY <1>1, <1>2, KeepsChain

\* The checkpoint of the process is set.
LEMMA SetCk ==
  ASSUME DurableTypes, NEW c \in Cks \cup {None}, NEW t \in BOOLEAN, proc.terminal => t,
         proc' = [proc EXCEPT !.ck = c, !.terminal = t], acked' = acked
  PROVE  proc' \in Procs /\ proc'.ck = c /\ SameWriter
<1>1. proc \in Procs
  BY DEF DurableTypes
<1>2. /\ proc'.up = proc.up /\ proc'.pc = proc.pc /\ proc'.left = proc.left
      /\ proc'.alloc = proc.alloc /\ proc'.pub = proc.pub /\ proc'.ck = c
      /\ proc'.base = proc.base /\ proc'.terminal = t
  BY <1>1 DEF Procs
<1>3. proc' \in Procs
  BY <1>1 DEF Procs
<1> QED BY <1>2, <1>3 DEF SameWriter

\* The next phase of the checkpoint.
LEMMA SetPhase ==
  ASSUME DurableTypes, proc.ck # None, NEW a \in Phases,
         proc' = [proc EXCEPT !.ck.at = a], acked' = acked
  PROVE  /\ proc' \in Procs /\ SameWriter /\ proc'.ck.at = a /\ Ck' = Ck
         /\ proc'.ck.gen = proc.ck.gen /\ proc'.ck.seq = proc.ck.seq
<1>1. proc \in Procs /\ proc.ck \in Cks /\ proc.terminal \in BOOLEAN
  BY StateTypes
<1>2. PICK c : c = [proc.ck EXCEPT !.at = a]
  OBVIOUS
<1>3. c \in Cks /\ c.at = a /\ c.gen = proc.ck.gen /\ c.seq = proc.ck.seq
  BY <1>1, <1>2 DEF Cks
<1>4. proc' = [proc EXCEPT !.ck = c, !.terminal = proc.terminal]
  BY <1>1, <1>2 DEF Procs
<1>5. proc' \in Procs /\ proc'.ck = c /\ SameWriter
  BY <1>1, <1>3, <1>4, SetCk
<1> QED BY <1>3, <1>5 DEF Ck

\* A group is allocated.
LEMMA AllocateStep ==
  ASSUME DurableInv, NEW k \in 1..MaxGroup, Allocate(k)
  PROVE  DurableInv'
<1>1. /\ proc.up /\ proc.pc = "idle" /\ proc.alloc + k <= MaxSeq
      /\ proc' = [proc EXCEPT !.pc = "write", !.left = k, !.alloc = @ + k]
      /\ store' = store /\ acked' = acked
  BY DEF Allocate
<1>2. proc \in Procs /\ k \in Nat /\ k >= 1 /\ proc.alloc \in Nat /\ acked \in Nat
  BY StateTypes, DurableBounds DEF DurableInv
<1>3. /\ proc'.up = proc.up /\ proc'.pc = "write" /\ proc'.left = k
      /\ proc'.alloc = proc.alloc + k /\ proc'.pub = proc.pub /\ proc'.ck = proc.ck
      /\ proc'.base = proc.base
  BY <1>1, <1>2 DEF Procs
<1>4. proc' \in Procs
  <2>1. PICK a \in Nat : a = proc.alloc + k
    BY <1>2
  <2>2. proc' = [proc EXCEPT !.pc = "write", !.left = k, !.alloc = a]
    BY <1>1, <2>1
  <2> QED BY <1>2, <2>2 DEF Procs, Pcs
<1>5. ASSUME NEW hi \in Nat, hi \in DOMAIN store.wal, Written(hi) PROVE Written(hi)'
  <2>1. LastSeq(store.wal[hi]) \in Nat
    BY <1>5, StateTypes, GenParts DEF DurableInv
  <2>2. /\ acked <= LastSeq(store.wal[hi]) /\ LastSeq(store.wal[hi]) = proc.alloc
        /\ proc.pub <= LastSeq(store.wal[hi]) /\ proc.base <= LastSeq(store.wal[hi])
    BY <1>1, <1>5 DEF Written
  <2> QED BY <1>1, <1>2, <1>3, <2>1, <2>2 DEF Written
<1> QED BY <1>1, <1>2, <1>3, <1>4, <1>5, WriterStep

\* The group is forced, published and answered; or a write fails.
LEMMA GroupStep ==
  ASSUME DurableInv, ForceGroup \/ PublishGroup \/ CompleteFutures \/ AppendFails \/ Ready
  PROVE  DurableInv'
<1>1. proc \in Procs /\ proc.alloc \in Nat /\ acked \in Nat /\ proc.pub \in Nat
  BY StateTypes DEF DurableInv
<1>2. CASE ForceGroup
  <2>1. /\ proc.pc = "write" /\ proc.left = 0 /\ proc' = [proc EXCEPT !.pc = "forced"]
        /\ store' = store /\ acked' = acked
    BY <1>2 DEF ForceGroup
  <2>2. /\ proc' \in Procs /\ proc'.pc = "forced" /\ proc'.ck = proc.ck /\ proc'.up = proc.up
        /\ proc'.alloc = proc.alloc /\ proc'.pub = proc.pub
    BY <1>1, <2>1 DEF Procs, Pcs
  <2>3. ASSUME NEW hi \in Nat, hi \in DOMAIN store.wal, Written(hi) PROVE Written(hi)'
    <3>1. LastSeq(store.wal[hi]) \in Nat
      BY <2>3, StateTypes, GenParts DEF DurableInv
    <3>2. proc.up => /\ LastSeq(store.wal[hi]) + 0 = proc.alloc /\ store.wal[hi].tail = "none"
                     /\ proc.pub <= LastSeq(store.wal[hi])
      BY <2>1, <2>3 DEF Written
    <3>3. LastSeq(store.wal[hi]) + 0 = LastSeq(store.wal[hi])
      BY <3>1
    <3> QED BY <2>1, <2>2, <2>3, <3>2, <3>3 DEF Written
  <2> QED BY <1>1, <2>1, <2>2, <2>3, WriterStep
<1>3. CASE PublishGroup
  <2>1. /\ proc.up /\ proc.pc = "forced" /\ store' = store /\ acked' = acked
        /\ proc' = [proc EXCEPT !.pc = "published", !.pub = proc.alloc]
    BY <1>3 DEF PublishGroup
  <2>2. /\ proc' \in Procs /\ proc'.pc = "published" /\ proc'.ck = proc.ck /\ proc'.up = proc.up
        /\ proc'.alloc = proc.alloc /\ proc'.pub = proc.alloc
    BY <1>1, <2>1 DEF Procs, Pcs
  <2>3. ASSUME NEW hi \in Nat, hi \in DOMAIN store.wal, Written(hi) PROVE Written(hi)'
    BY <1>1, <2>1, <2>2, <2>3 DEF Written
  <2> QED BY <1>1, <2>1, <2>2, <2>3, WriterStep
<1>4. CASE CompleteFutures
  <2>1. /\ proc.up /\ proc.pc = "published" /\ store' = store /\ acked' = proc.pub
        /\ proc' = [proc EXCEPT !.pc = "idle", !.base = proc.pub]
    BY <1>4 DEF CompleteFutures
  <2>2. /\ proc' \in Procs /\ proc'.pc = "idle" /\ proc'.ck = proc.ck /\ proc'.up = proc.up
        /\ proc'.alloc = proc.alloc /\ proc'.pub = proc.pub
    BY <1>1, <2>1 DEF Procs, Pcs
  <2>3. ASSUME NEW hi \in Nat, hi \in DOMAIN store.wal, Written(hi) PROVE Written(hi)'
    BY <1>1, <2>1, <2>2, <2>3 DEF Written
  <2> QED BY <1>1, <2>1, <2>2, <2>3, WriterStep
<1>5. CASE AppendFails
  <2>1. /\ store' = store /\ acked' = acked
        /\ proc' = [proc EXCEPT !.pc = "failed", !.terminal = TRUE]
    BY <1>5 DEF AppendFails
  <2>2. /\ proc' \in Procs /\ proc'.pc = "failed" /\ proc'.ck = proc.ck /\ proc'.up = proc.up
        /\ proc'.alloc = proc.alloc /\ proc'.pub = proc.pub
    BY <1>1, <2>1 DEF Procs, Pcs
  <2>3. ASSUME NEW hi \in Nat, hi \in DOMAIN store.wal, Written(hi) PROVE Written(hi)'
    BY <2>1, <2>2, <2>3 DEF Written
  <2> QED BY <1>1, <2>1, <2>2, <2>3, WriterStep
<1>6. CASE Ready
  <2>1. /\ proc.pc = "opening" /\ store' = store /\ acked' = acked
        /\ proc' = [proc EXCEPT !.pc = "idle"]
    BY <1>6 DEF Ready
  <2>2. /\ proc' \in Procs /\ proc'.pc = "idle" /\ proc'.ck = proc.ck /\ proc'.up = proc.up
        /\ proc'.alloc = proc.alloc /\ proc'.pub = proc.pub
    BY <1>1, <2>1 DEF Procs, Pcs
  <2>3. ASSUME NEW hi \in Nat, hi \in DOMAIN store.wal, Written(hi) PROVE Written(hi)'
    BY <2>1, <2>2, <2>3 DEF Written
  <2> QED BY <1>1, <2>1, <2>2, <2>3, WriterStep
<1> QED BY <1>2, <1>3, <1>4, <1>5, <1>6

\* The process dies or closes: the files are what they were at that moment.
LEMMA StopStep ==
  ASSUME DurableInv, Crash \/ Close
  PROVE  DurableInv'
<1>1. store' = store /\ acked' = acked /\ proc' = [proc EXCEPT !.up = FALSE]
  BY DEF Crash, Close
<1>2. proc \in Procs /\ acked \in Nat
  BY StateTypes DEF DurableInv
<1>3. /\ proc' \in Procs /\ proc'.up = FALSE /\ proc'.ck = proc.ck /\ proc'.alloc = proc.alloc
  BY <1>1, <1>2 DEF Procs
<1>4. \A hi \in Nat : hi \in DOMAIN store.wal /\ Written(hi) => Written(hi)'
  BY <1>1, <1>3 DEF Written
<1> QED BY <1>1, <1>2, <1>3, <1>4, WriterStep

\* A copy or an operator tool does not touch the files of the engine.
LEMMA OutsideStep ==
  ASSUME DurableInv, UNCHANGED <<store, proc, acked>>
  PROVE  DurableInv'
<1>1. proc' \in Procs /\ acked' \in Nat /\ proc'.ck = proc.ck /\ store' = store
  BY StateTypes DEF DurableInv
<1>2. \A hi \in Nat : hi \in DOMAIN store.wal /\ Written(hi) => Written(hi)'
  BY DEF Written
<1> QED BY <1>1, <1>2, WriterStep

-----------------------------------------------------------------------------
(* Steps of the generations *)

\* No generation goes, and each starts where it did.
StartsKept ==
  \A g \in DOMAIN store.wal : g \in DOMAIN store'.wal /\ store'.wal[g].first = store.wal[g].first

\* The manifest stays bound, and so does the checkpoint under publication.
LEMMA StartsBound ==
  ASSUME DurableInv, StartsKept, store'.man = store.man, store'.cps = store.cps
  PROVE  Bound(store') /\ (proc'.ck = proc.ck => Publishing')
<1>1. Bound(store) /\ Publishing
  BY DEF DurableInv
<1>2. Bound(store')
  BY <1>1 DEF Bound, StartsKept
<1>3. ASSUME proc'.ck = proc.ck PROVE Publishing'
  <2>1. Ck' = Ck
    BY <1>3 DEF Ck
  <2> QED BY <1>1, <1>3, <2>1 DEF Publishing, StartsKept
<1> QED BY <1>2, <1>3

\* The family of generations is replaced.
LEMMA SetWal ==
  ASSUME DurableTypes, NEW u \in Wals, store' = [store EXCEPT !.wal = u]
  PROVE  store' \in Stores /\ store'.wal = u /\ store'.man = store.man /\ store'.cps = store.cps
<1>1. store \in Stores
  BY DEF DurableTypes
<1> QED BY <1>1 DEF Stores

\* A generation gets its header.
LEMMA SetHeaded ==
  ASSUME DurableTypes, NEW u \in Wals, store' = [store EXCEPT !.bare = FALSE, !.wal = u]
  PROVE  /\ store' \in Stores /\ store'.wal = u /\ store'.man = store.man
         /\ store'.cps = store.cps /\ store'.bare = FALSE
<1>1. store \in Stores
  BY DEF DurableTypes
<1> QED BY <1>1 DEF Stores

\* The newest generation is rewritten and starts where it did.
LEMMA SetNewest ==
  ASSUME DurableInv, NEW lo \in Nat, NEW hi \in Nat, Chain(store.wal, lo, hi),
         NEW v \in Gens, v.first = store.wal[hi].first, v.n >= store.wal[hi].n,
         store' = [store EXCEPT !.wal = [store.wal EXCEPT ![hi] = v]]
  PROVE  /\ store' \in Stores /\ Chain(store'.wal, lo, hi) /\ store'.wal[hi] = v
         /\ Bound(store') /\ (proc'.ck = proc.ck => Publishing')
<1>1. PICK w : w = store.wal /\ w \in Wals
  BY StateTypes DEF DurableInv
<1>2. PICK u : u = [w EXCEPT ![hi] = v]
  OBVIOUS
<1>3. u \in Wals /\ Chain(u, lo, hi) /\ u[hi] = v
  <2>1. Chain(w, lo, hi) /\ v.first = w[hi].first /\ v.n >= w[hi].n
    BY <1>1
  <2>2. DOMAIN w \in SUBSET Nat /\ hi \in DOMAIN w /\ w \in [DOMAIN w -> Gens]
    <3>1. PICK D \in SUBSET Nat : w \in [D -> Gens]
      BY <1>1 DEF Wals
    <3> QED BY <1>1, <2>1, <3>1, ChainEnds
  <2>3. /\ DOMAIN u = DOMAIN w /\ u[hi] = v /\ \A g \in DOMAIN w : g # hi => u[g] = w[g]
        /\ u \in [DOMAIN w -> Gens]
    BY <1>2, <2>2
  <2>4. u \in Wals
    BY <2>2, <2>3, WalIs
  <2> QED BY <1>1, <2>1, <2>3, <2>4, ChainWrite
<1>4. store' \in Stores /\ store'.wal = u /\ store'.man = store.man /\ store'.cps = store.cps
  BY <1>1, <1>2, <1>3, SetWal DEF DurableInv
<1>5. hi \in DOMAIN w
  BY <1>1, ChainEnds
<1>6. StartsKept
  <2>1. DOMAIN u = DOMAIN w /\ \A g \in DOMAIN w : u[g] = IF g = hi THEN v ELSE w[g]
    BY <1>2, <1>5
  <2> QED BY <1>1, <1>4, <2>1 DEF StartsKept
<1> QED BY <1>3, <1>4, <1>6, StartsBound

\* A part of a frame is written.
LEMMA WriteFrameStep ==
  ASSUME DurableInv, WriteFrame
  PROVE  DurableInv'
<1>1. PICK lo, hi \in Nat : Chain(store.wal, lo, hi) /\ Written(hi)
  BY DEF DurableInv
<1>2. PICK w : w = store.wal /\ w \in Wals
  BY StateTypes DEF DurableInv
<1>3. /\ Newest(store) = hi /\ hi \in DOMAIN w /\ w[hi] \in Gens
      /\ w[hi].first \in Nat /\ w[hi].first >= 1 /\ w[hi].n \in Nat
      /\ LastSeq(w[hi]) = w[hi].first + w[hi].n - 1
  BY <1>1, <1>2, ChainEnds, GenParts DEF Newest
<1>4. PICK next, done : next = NextTail[w[hi].tail] /\ done = IF next = "none" THEN 1 ELSE 0
  OBVIOUS
<1>5. /\ proc.up /\ proc.pc = "write" /\ proc.left > 0 /\ acked' = acked
      /\ store' = [store EXCEPT !.wal[hi] = [w[hi] EXCEPT !.tail = next, !.n = w[hi].n + done]]
      /\ proc' = [proc EXCEPT !.left = @ - done]
  BY <1>2, <1>3, <1>4 DEF WriteFrame
<1>6. /\ store \in Stores /\ proc \in Procs /\ proc.left \in Nat /\ proc.alloc \in Nat
      /\ proc.pub \in Nat /\ proc.base \in Nat /\ acked \in Nat
  BY StateTypes DEF DurableInv
<1>7. next \in Tails /\ done \in {0, 1} /\ (done = 1 => next = "none")
  BY <1>3, <1>4 DEF NextTail, Tails, Gens
<1>8. PICK v : v = [w[hi] EXCEPT !.tail = next, !.n = w[hi].n + done]
  OBVIOUS
<1>9. /\ v \in Gens /\ v.first = w[hi].first /\ v.n >= w[hi].n /\ v.tail = next
      /\ LastSeq(v) = LastSeq(w[hi]) + done
  <2>1. w[hi].n + done \in Nat /\ w[hi].n + done >= w[hi].n /\ w[hi].first \in Nat \ {0}
    BY <1>3, <1>7
  <2>2. v \in Gens /\ v.first = w[hi].first /\ v.n = w[hi].n + done /\ v.tail = next
    BY <1>3, <1>7, <1>8, <2>1 DEF Gens
  <2> QED BY <1>3, <1>7, <2>1, <2>2 DEF LastSeq
<1>10. store' = [store EXCEPT !.wal = [store.wal EXCEPT ![hi] = v]]
  <2>1. store' = [store EXCEPT !.wal[hi] = v]
    BY <1>5, <1>8
  <2> QED BY <1>2, <1>6, <2>1 DEF Stores
<1>11. /\ proc' \in Procs /\ proc'.ck = proc.ck /\ proc'.up = proc.up /\ proc'.pc = proc.pc
       /\ proc'.left = proc.left - done /\ proc'.alloc = proc.alloc /\ proc'.pub = proc.pub
       /\ proc'.base = proc.base
  <2>1. PICK l \in Nat : l = proc.left - done
    BY <1>5, <1>6, <1>7
  <2>2. proc' = [proc EXCEPT !.left = l]
    BY <1>5, <2>1
  <2> QED BY <1>6, <2>1, <2>2 DEF Procs
<1>12. /\ store' \in Stores /\ Chain(store'.wal, lo, hi) /\ store'.wal[hi] = v
       /\ Bound(store') /\ Publishing'
  BY <1>1, <1>2, <1>9, <1>10, <1>11, SetNewest
<1>13. Written(hi)'
  <2>1. /\ acked <= LastSeq(w[hi]) /\ LastSeq(w[hi]) <= proc.alloc /\ proc.alloc <= MaxSeq
        /\ proc.pub <= LastSeq(w[hi]) /\ proc.base <= LastSeq(w[hi])
        /\ LastSeq(w[hi]) + proc.left = proc.alloc
    BY <1>1, <1>2, <1>5 DEF Written
  <2>2. LastSeq(w[hi]) \in Nat /\ LastSeq(v) = LastSeq(w[hi]) + done
    BY <1>3, <1>9
  <2>3. /\ acked <= LastSeq(v) /\ LastSeq(v) <= proc.alloc /\ proc.pub <= LastSeq(v)
        /\ proc.base <= LastSeq(v)
        /\ LastSeq(v) + proc'.left = proc.alloc /\ (proc'.left = 0 => v.tail = "none")
    BY <1>5, <1>6, <1>7, <1>9, <1>11, <2>1, <2>2
  <2> QED BY <1>5, <1>11, <1>12, <2>1, <2>3 DEF Written
<1>14. DurableTypes'
  BY <1>5, <1>6, <1>11, <1>12 DEF DurableTypes
<1> QED BY <1>12, <1>13, <1>14 DEF DurableInv

\* The generation of a cut at a sequence that is the last.
LEMMA CutAt ==
  ASSUME NEW w \in Wals, NEW lo \in Nat, NEW hi \in Nat, Chain(w, lo, hi),
         w[hi].tail = "none", NEW p \in Nat, LastSeq(w[hi]) = p,
         NEW u, u = [h \in DOMAIN w \cup {hi + 1} |-> IF h = hi + 1 THEN EmptyWal(p + 1) ELSE w[h]]
  PROVE  /\ u \in Wals /\ Chain(u, lo, hi + 1) /\ u[hi + 1] = EmptyWal(p + 1)
         /\ LastSeq(EmptyWal(p + 1)) = LastSeq(w[hi])
         /\ \A g \in DOMAIN w : g \in DOMAIN u /\ u[g] = w[g]
<1>1. PICK f \in Nat : f = p + 1
  OBVIOUS
<1>2. f = LastSeq(w[hi]) + 1
  BY <1>1
<1>3. u = [h \in DOMAIN w \cup {hi + 1} |-> IF h = hi + 1 THEN EmptyWal(f) ELSE w[h]]
  BY <1>1
<1>4. /\ u \in Wals /\ Chain(u, lo, hi + 1) /\ u[hi + 1] = EmptyWal(f)
      /\ LastSeq(EmptyWal(f)) = LastSeq(w[hi])
      /\ \A g \in DOMAIN w : g \in DOMAIN u /\ u[g] = w[g]
  BY <1>2, <1>3, ChainCut
<1> QED BY <1>1, <1>4

\* A generation is added where the history is: the chain is longer, and what it
\* holds is what it held.
LEMMA AddsGeneration ==
  ASSUME DurableInv, proc.pc \in Cuts, NEW lo \in Nat, NEW hi \in Nat,
         Chain(store.wal, lo, hi), Written(hi), store' = WithGeneration(Newest(store) + 1)
  PROVE  /\ Newest(store) = hi /\ hi + 1 \in Nat /\ store' \in Stores
         /\ Chain(store'.wal, lo, hi + 1) /\ store'.wal[hi + 1] = EmptyWal(proc.pub + 1)
         /\ LastSeq(store'.wal[hi + 1]) = LastSeq(store.wal[hi])
         /\ LastSeq(store.wal[hi]) = proc.alloc /\ hi + 1 \notin DOMAIN store.wal
         /\ StartsKept /\ store'.man = store.man /\ store'.cps = store.cps
<1>2. PICK w : w = store.wal /\ w \in Wals
  BY StateTypes DEF DurableInv
<1>3. Newest(store) = hi /\ hi \in DOMAIN w /\ LastSeq(w[hi]) \in Nat
  BY <1>2, ChainEnds, GenParts DEF Newest
<1>4. PICK u : u = [h \in DOMAIN w \cup {hi + 1} |-> IF h = hi + 1 THEN EmptyWal(proc.pub + 1) ELSE w[h]]
  OBVIOUS
<1>5. store' = [store EXCEPT !.bare = FALSE, !.wal = u]
  BY <1>2, <1>3, <1>4 DEF WithGeneration
<1>6. proc \in Procs /\ proc.pub \in Nat
  BY StateTypes DEF DurableInv
<1>7. LastSeq(w[hi]) = proc.pub /\ w[hi].tail = "none" /\ LastSeq(w[hi]) = proc.alloc
  BY <1>2 DEF Written, Cuts
<1>8. /\ u \in Wals /\ Chain(u, lo, hi + 1) /\ u[hi + 1] = EmptyWal(proc.pub + 1)
      /\ LastSeq(EmptyWal(proc.pub + 1)) = LastSeq(w[hi])
      /\ \A g \in DOMAIN w : g \in DOMAIN u /\ u[g] = w[g]
  <2>1. Chain(w, lo, hi)
    BY <1>2
  <2>2. w[hi].tail = "none" /\ LastSeq(w[hi]) = proc.pub
    BY <1>7
  <2>3. PICK p \in Nat : p = proc.pub
    BY <1>6
  <2>4. LastSeq(w[hi]) = p /\ w \in Wals
    BY <1>2, <2>2, <2>3
  <2>5. u = [h \in DOMAIN w \cup {hi + 1} |-> IF h = hi + 1 THEN EmptyWal(p + 1) ELSE w[h]]
    BY <1>4, <2>3
  <2>6. /\ u \in Wals /\ Chain(u, lo, hi + 1) /\ u[hi + 1] = EmptyWal(p + 1)
        /\ LastSeq(EmptyWal(p + 1)) = LastSeq(w[hi])
        /\ \A g \in DOMAIN w : g \in DOMAIN u /\ u[g] = w[g]
    BY <2>1, <2>2, <2>4, <2>5, CutAt
  <2> QED BY <2>3, <2>6
<1>9. store' \in Stores /\ store'.wal = u /\ store'.man = store.man /\ store'.cps = store.cps
  BY <1>5, <1>8, SetHeaded DEF DurableInv
<1>10. StartsKept
  BY <1>2, <1>8, <1>9 DEF StartsKept
<1>11. hi + 1 \notin DOMAIN w
  <2>1. DOMAIN w = lo..hi
    BY <1>2 DEF Chain
  <2> QED BY <2>1
<1> QED BY <1>2, <1>3, <1>7, <1>8, <1>9, <1>10, <1>11

\* The file of the next generation is created: no record moves.
LEMMA CreateStep ==
  ASSUME DurableInv, NEW b \in BOOLEAN, CreateGeneration(b)
  PROVE  DurableInv'
<1>1. PICK p : p = IF b THEN "backup-cut" ELSE "cut"
  OBVIOUS
<1>2. /\ proc.pc = "idle" /\ proc.pub = proc.alloc /\ acked' = acked
      /\ store' = [store EXCEPT !.bare = TRUE] /\ proc' = [proc EXCEPT !.pc = p]
  BY <1>1 DEF CreateGeneration, CanCut
<1>3. store \in Stores /\ proc \in Procs /\ acked \in Nat
  BY StateTypes DEF DurableInv
<1>4. /\ store' \in Stores /\ store'.wal = store.wal /\ store'.man = store.man
      /\ store'.cps = store.cps
  BY <1>2, <1>3 DEF Stores
<1>5. p \in {"cut", "backup-cut"} /\ p \in Pcs
  BY <1>1 DEF Pcs
<1>6. /\ proc'.pc = p /\ proc'.ck = proc.ck /\ proc'.alloc = proc.alloc
      /\ proc'.pub = proc.pub /\ proc'.base = proc.base /\ proc'.left = proc.left
  BY <1>2, <1>3 DEF Procs
<1>7. proc' \in Procs
  BY <1>2, <1>3, <1>5 DEF Procs
<1>8. Bound(store') /\ Publishing'
  BY <1>4, <1>6, BoundSame, PublishingSame DEF DurableInv
<1>9. \A hi \in Nat : hi \in DOMAIN store.wal /\ Written(hi) => Written(hi)'
  BY <1>2, <1>4, <1>5, <1>6 DEF Written
<1>10. DurableTypes'
  BY <1>2, <1>3, <1>4, <1>7 DEF DurableTypes
<1> QED BY <1>4, <1>8, <1>9, <1>10, KeepsChain

\* It gets its header: the checkpoint of what is published begins.
LEMMA HeadStep ==
  ASSUME DurableInv, HeadGeneration
  PROVE  DurableInv'
<1>1. PICK lo, hi \in Nat : Chain(store.wal, lo, hi) /\ Written(hi)
  BY DEF DurableInv
<1>2. /\ proc.pc \in Cuts /\ acked' = acked /\ store' = WithGeneration(Newest(store) + 1)
  BY DEF HeadGeneration
<1>3. /\ Newest(store) = hi /\ hi + 1 \in Nat /\ store' \in Stores
      /\ Chain(store'.wal, lo, hi + 1) /\ store'.wal[hi + 1] = EmptyWal(proc.pub + 1)
      /\ LastSeq(store'.wal[hi + 1]) = LastSeq(store.wal[hi])
      /\ LastSeq(store.wal[hi]) = proc.alloc /\ hi + 1 \notin DOMAIN store.wal
      /\ StartsKept /\ store'.man = store.man /\ store'.cps = store.cps
  BY <1>1, <1>2, AddsGeneration
<1>4. PICK b \in BOOLEAN : b = (proc.pc = "backup-cut")
  OBVIOUS
<1>5. PICK c : c = [at |-> "begin", seq |-> proc.pub, gen |-> hi + 1, backup |-> b, n |-> 0]
  OBVIOUS
<1>6. proc' = [proc EXCEPT !.pc = "idle", !.ck = c]
  BY <1>3, <1>4, <1>5 DEF HeadGeneration
<1>7. proc \in Procs /\ proc.pub \in Nat /\ acked \in Nat
  BY StateTypes DEF DurableInv
<1>10. c \in Cks /\ c.at = "begin" /\ c.gen = hi + 1 /\ c.seq = proc.pub
  BY <1>3, <1>5, <1>7 DEF Cks, Phases
<1>11. /\ proc'.pc = "idle" /\ proc'.ck = c /\ proc'.alloc = proc.alloc
       /\ proc'.pub = proc.pub /\ proc'.base = proc.base
  BY <1>6, <1>7 DEF Procs
<1>12. proc' \in Procs
  BY <1>6, <1>7, <1>10 DEF Procs, Pcs
<1>13. Bound(store')
  BY <1>3, StartsBound
<1>14. Publishing'
  <2>1. hi + 1 \in DOMAIN store'.wal
    BY <1>3 DEF Chain
  <2>2. store'.wal[hi + 1].first = proc.pub + 1
    BY <1>3 DEF EmptyWal
  <2>3. store.man # None => store.man.gen \in DOMAIN store.wal
    BY DEF DurableInv, Bound
  <2>4. store'.man # Ck'
    <3>1. Ck' = [seq |-> proc.pub, gen |-> hi + 1]
      BY <1>10, <1>11 DEF Ck
    <3>2. Ck' \in [seq : Nat, gen : Nat] /\ Ck'.gen = hi + 1
      BY <1>3, <1>7, <3>1
    <3>3. Ck' # None
      BY <3>2, DurableBounds
    <3> QED BY <1>3, <2>3, <3>2, <3>3
  <2> QED BY <1>10, <1>11, <2>1, <2>2, <2>4 DEF Publishing
<1>15. Written(hi + 1)'
  <2>1. store'.wal[hi + 1].tail = "none"
    BY <1>3 DEF EmptyWal
  <2>2. /\ acked <= LastSeq(store.wal[hi]) /\ proc.alloc <= MaxSeq
        /\ LastSeq(store.wal[hi]) <= proc.alloc
        /\ proc.pub <= LastSeq(store.wal[hi]) /\ proc.base <= LastSeq(store.wal[hi])
    BY <1>1 DEF Written
  <2> QED BY <1>2, <1>3, <1>11, <2>1, <2>2 DEF Written
<1>16. DurableTypes'
  BY <1>2, <1>3, <1>7, <1>12 DEF DurableTypes
<1> QED BY <1>3, <1>13, <1>14, <1>15, <1>16 DEF DurableInv

\* The cut fails: the writer is terminal, and the generation may be there.
LEMMA CutFailsStep ==
  ASSUME DurableInv, CutFails
  PROVE  DurableInv'
<1>1. proc \in Procs /\ store \in Stores /\ acked \in Nat
  BY StateTypes DEF DurableInv
<1>2. proc' = [proc EXCEPT !.pc = "failed", !.terminal = TRUE] /\ acked' = acked
  BY DEF CutFails
<1>3. /\ proc'.pc = "failed" /\ proc'.terminal /\ proc'.ck = proc.ck
      /\ proc'.alloc = proc.alloc /\ proc'.pub = proc.pub /\ proc'.base = proc.base
  BY <1>1, <1>2 DEF Procs
<1>4. proc' \in Procs
  BY <1>1, <1>2 DEF Procs, Pcs
<1>5. CASE store' = store
  <2>1. \A hi \in Nat : hi \in DOMAIN store.wal /\ Written(hi) => Written(hi)'
    BY <1>2, <1>3, <1>5 DEF Written
  <2> QED BY <1>1, <1>2, <1>3, <1>4, <1>5, <2>1, WriterStep
<1>6. CASE proc.pc \in Cuts /\ store' = WithGeneration(Newest(store) + 1)
  <2>1. PICK lo, hi \in Nat : Chain(store.wal, lo, hi) /\ Written(hi)
    BY DEF DurableInv
  <2>2. /\ hi + 1 \in Nat /\ store' \in Stores /\ Chain(store'.wal, lo, hi + 1)
        /\ LastSeq(store'.wal[hi + 1]) = LastSeq(store.wal[hi])
        /\ StartsKept /\ store'.man = store.man /\ store'.cps = store.cps
    BY <1>6, <2>1, AddsGeneration
  <2>3. Bound(store') /\ Publishing'
    BY <1>3, <2>2, StartsBound
  <2>4. Written(hi + 1)'
    <3>1. /\ acked <= LastSeq(store.wal[hi]) /\ proc.alloc <= MaxSeq
          /\ LastSeq(store.wal[hi]) <= proc.alloc
          /\ proc.pub <= LastSeq(store.wal[hi]) /\ proc.base <= LastSeq(store.wal[hi])
      BY <2>1 DEF Written
    <3> QED BY <1>2, <1>3, <2>2, <3>1 DEF Written
  <2>5. DurableTypes'
    BY <1>1, <1>2, <1>4, <2>2 DEF DurableTypes
  <2> QED BY <2>2, <2>3, <2>4, <2>5 DEF DurableInv
<1> QED BY <1>5, <1>6 DEF CutFails

\* The next process opens the files: it finds the whole prefix.
LEMMA RecoverStep ==
  ASSUME DurableInv, Recover
  PROVE  DurableInv'
<1>1. PICK lo, hi \in Nat : Chain(store.wal, lo, hi) /\ Written(hi)
  BY DEF DurableInv
<1>2. PICK w : w = store.wal /\ w \in Wals
  BY StateTypes DEF DurableInv
<1>3. /\ hi \in DOMAIN w /\ w[hi] \in Gens
      /\ w[hi].first \in Nat /\ w[hi].first >= 1 /\ w[hi].n \in Nat /\ LastSeq(w[hi]) \in Nat
      /\ LastSeq(w[hi]) = w[hi].first + w[hi].n - 1
  BY <1>1, <1>2, ChainEnds, GenParts
<1>4. /\ acked <= LastSeq(w[hi]) /\ LastSeq(w[hi]) <= proc.alloc /\ proc.alloc <= MaxSeq
      /\ store \in Stores /\ proc.alloc \in Nat /\ acked \in Nat /\ MaxSeq \in Nat
  BY <1>1, <1>2, StateTypes, DurableBounds DEF Written, DurableInv
<1>5. LastSeq(w[hi]) <= MaxSeq
  BY <1>3, <1>4
<1>6. Newest(store) = hi /\ Replayed(store) = LastSeq(w[hi])
  BY <1>1, <1>2, <1>5, PrefixOf DEF DurableInv
<1>7. PICK L \in Nat : L = LastSeq(w[hi])
  BY <1>3
<1>8. PICK c : c = IF Derived(store) \in {"ABSENT", "STALE", "PARTIAL"} /\ store.man # None
                   THEN [at |-> "refresh", seq |-> store.man.seq, gen |-> store.man.gen,
                         backup |-> FALSE, n |-> 0]
                   ELSE None
  OBVIOUS
<1>9. /\ store' = [store EXCEPT !.wal[hi].tail = "none"]
      /\ proc' = [Idle(L) EXCEPT !.pc = "opening", !.ck = c] /\ acked' = acked
  BY <1>6, <1>7, <1>8 DEF Recover
<1>10. c \in Cks \cup {None} /\ (c # None => c.at = "refresh")
  <2>1. store.man # None => store.man.seq \in Nat /\ store.man.gen \in Nat
    BY StateTypes DEF DurableInv, Points
  <2> QED BY <1>8, <2>1 DEF Cks, Phases
<1>11. /\ proc' \in Procs /\ proc'.ck = c /\ proc'.up /\ proc'.pc = "opening"
       /\ proc'.alloc = L /\ proc'.pub = L /\ proc'.base = L
  BY <1>9, <1>10 DEF Idle, Procs, Pcs
<1>12. PICK v : v = [first |-> w[hi].first, n |-> w[hi].n, tail |-> "none"]
  OBVIOUS
<1>13. /\ v \in Gens /\ v.first = w[hi].first /\ v.n = w[hi].n /\ v.tail = "none"
       /\ LastSeq(v) = L
  BY <1>3, <1>7, <1>12 DEF Gens, Tails, LastSeq
<1>14. store' = [store EXCEPT !.wal = [store.wal EXCEPT ![hi] = v]]
  <2>1. v = [w[hi] EXCEPT !.tail = "none"]
    BY <1>3, <1>12 DEF Gens
  <2> QED BY <1>2, <1>3, <1>4, <1>9, <2>1 DEF Stores
<1>15. store' \in Stores /\ Chain(store'.wal, lo, hi) /\ store'.wal[hi] = v /\ Bound(store')
  <2>1. v.n >= w[hi].n
    BY <1>3, <1>13
  <2> QED BY <1>1, <1>2, <1>13, <1>14, <2>1, SetNewest
<1>16. Publishing'
  BY <1>10, <1>11 DEF Publishing
<1>17. Written(hi)'
  BY <1>4, <1>5, <1>7, <1>9, <1>11, <1>13, <1>15 DEF Written
<1>18. DurableTypes'
  BY <1>4, <1>9, <1>11, <1>15 DEF DurableTypes
<1> QED BY <1>15, <1>16, <1>17, <1>18 DEF DurableInv

-----------------------------------------------------------------------------
(* Steps of the checkpoint *)

\* The checkpoint under publication is one the files can name.
LEMMA CkPoint ==
  ASSUME DurableTypes, proc.ck # None
  PROVE  /\ proc.ck \in Cks /\ Ck \in Points /\ Ck # None
         /\ Ck.gen = proc.ck.gen /\ Ck.seq = proc.ck.seq
<1>1. proc.ck \in Cks
  BY StateTypes
<1>2. proc.ck.seq \in Nat /\ proc.ck.gen \in Nat
  BY <1>1 DEF Cks
<1>3. Ck \in Points /\ Ck.gen = proc.ck.gen /\ Ck.seq = proc.ck.seq
  BY <1>2 DEF Ck, Points
<1> QED BY <1>1, <1>3, DurableBounds DEF Points

\* The publication up to the manifest, one phase after the other.
LEMMA PublicationStep ==
  ASSUME DurableInv, StageData \/ PublishData \/ StageManifest \/ ReplaceManifest \/ ForceDirectory
  PROVE  DurableInv'
<1>1. DurableTypes /\ Bound(store) /\ Publishing /\ proc.ck # None /\ acked' = acked
  BY DEF DurableInv, StageData, PublishData, StageManifest, ReplaceManifest, ForceDirectory
<1>2. Ck \in Points /\ Ck # None /\ Ck.gen = proc.ck.gen /\ Ck.seq = proc.ck.seq
  BY <1>1, CkPoint
<1>3. store \in Stores /\ store.cps \in SUBSET Points
  BY <1>1, StateTypes
<1>4. CASE StageData
  <2>1. /\ proc.ck.at = "begin" /\ store' = [store EXCEPT !.stage = {"data"}]
        /\ proc' = [proc EXCEPT !.ck.at = "staged"]
    BY <1>4 DEF StageData
  <2>2. /\ store' \in Stores /\ store'.wal = store.wal /\ store'.man = store.man
        /\ store'.cps = store.cps
    BY <1>3, <2>1 DEF Stores
  <2>3. /\ proc' \in Procs /\ SameWriter /\ proc'.ck.at = "staged" /\ Ck' = Ck
        /\ proc'.ck.gen = proc.ck.gen /\ proc'.ck.seq = proc.ck.seq
    BY <1>1, <2>1, SetPhase DEF Phases
  <2>4. Bound(store') /\ Publishing'
    BY <1>1, <2>1, <2>2, <2>3 DEF Bound, Publishing
  <2> QED BY <2>2, <2>3, <2>4, CheckpointStep
<1>5. CASE PublishData
  <2>1. /\ proc.ck.at = "staged"
        /\ store' = [store EXCEPT !.cps = @ \cup {Ck}, !.stage = @ \ {"data"}]
        /\ proc' = [proc EXCEPT !.ck.at = "data"]
    BY <1>5 DEF PublishData
  <2>2. /\ store' \in Stores /\ store'.wal = store.wal /\ store'.man = store.man
        /\ store'.cps = store.cps \cup {Ck}
    <3>1. PICK C, G : C = store.cps \cup {Ck} /\ G = store.stage \ {"data"}
      OBVIOUS
    <3>2. store' = [store EXCEPT !.cps = C, !.stage = G]
      BY <2>1, <3>1
    <3>3. C \in SUBSET Points /\ G \in SUBSET {"data", "manifest"}
      BY <1>2, <1>3, <3>1 DEF Stores
    <3> QED BY <1>3, <3>1, <3>2, <3>3 DEF Stores
  <2>3. /\ proc' \in Procs /\ SameWriter /\ proc'.ck.at = "data" /\ Ck' = Ck
        /\ proc'.ck.gen = proc.ck.gen /\ proc'.ck.seq = proc.ck.seq
    BY <1>1, <2>1, SetPhase DEF Phases
  <2>4. Bound(store')
    BY <1>1, <2>2, BoundSame
  <2>5. Publishing'
    BY <1>1, <2>1, <2>2, <2>3 DEF Publishing
  <2> QED BY <2>2, <2>3, <2>4, <2>5, CheckpointStep
<1>6. CASE StageManifest
  <2>1. /\ proc.ck.at = "data" /\ store' = [store EXCEPT !.stage = @ \cup {"manifest"}]
        /\ proc' = [proc EXCEPT !.ck.at = "manifest-staged"]
    BY <1>6 DEF StageManifest
  <2>2. /\ store' \in Stores /\ store'.wal = store.wal /\ store'.man = store.man
        /\ store'.cps = store.cps
    BY <1>3, <2>1 DEF Stores
  <2>3. /\ proc' \in Procs /\ SameWriter /\ proc'.ck.at = "manifest-staged" /\ Ck' = Ck
        /\ proc'.ck.gen = proc.ck.gen /\ proc'.ck.seq = proc.ck.seq
    BY <1>1, <2>1, SetPhase DEF Phases
  <2>4. Bound(store') /\ Publishing'
    BY <1>1, <2>1, <2>2, <2>3 DEF Bound, Publishing
  <2> QED BY <2>2, <2>3, <2>4, CheckpointStep
<1>7. CASE ReplaceManifest
  <2>1. /\ proc.ck.at = "manifest-staged"
        /\ store' = [store EXCEPT !.man = Ck, !.stage = @ \ {"manifest"}]
        /\ proc' = [proc EXCEPT !.ck.at = "replaced"]
    BY <1>7 DEF ReplaceManifest
  <2>2. /\ store' \in Stores /\ store'.wal = store.wal /\ store'.man = Ck
        /\ store'.cps = store.cps
    <3>1. PICK C, G : C = Ck /\ G = store.stage \ {"manifest"}
      OBVIOUS
    <3>2. store' = [store EXCEPT !.man = C, !.stage = G]
      BY <2>1, <3>1
    <3>3. C \in Points /\ G \in SUBSET {"data", "manifest"}
      BY <1>2, <1>3, <3>1 DEF Stores
    <3> QED BY <1>3, <3>1, <3>2, <3>3 DEF Stores
  <2>3. /\ proc' \in Procs /\ SameWriter /\ proc'.ck.at = "replaced" /\ Ck' = Ck
        /\ proc'.ck.gen = proc.ck.gen /\ proc'.ck.seq = proc.ck.seq
    BY <1>1, <2>1, SetPhase DEF Phases
  <2>4. /\ proc.ck.gen \in DOMAIN store.wal /\ store.wal[proc.ck.gen].first = proc.ck.seq + 1
        /\ Ck \in store.cps
    BY <1>1, <2>1 DEF Publishing
  <2>5. Bound(store')
    BY <1>2, <2>2, <2>4 DEF Bound
  <2>6. Publishing'
    BY <2>2, <2>3, <2>4 DEF Publishing
  <2> QED BY <2>2, <2>3, <2>5, <2>6, CheckpointStep
<1>8. CASE ForceDirectory
  <2>1. /\ proc.ck.at = "replaced" /\ store' = store /\ proc' = [proc EXCEPT !.ck.at = "cleaning"]
    BY <1>8 DEF ForceDirectory
  <2>2. /\ proc' \in Procs /\ SameWriter /\ proc'.ck.at = "cleaning" /\ Ck' = Ck
        /\ proc'.ck.gen = proc.ck.gen /\ proc'.ck.seq = proc.ck.seq
    BY <1>1, <2>1, SetPhase DEF Phases
  <2>3. Bound(store') /\ Publishing'
    BY <1>1, <2>1, <2>2 DEF Bound, Publishing
  <2> QED BY <1>3, <2>1, <2>2, <2>3, CheckpointStep
<1> QED BY <1>4, <1>5, <1>6, <1>7, <1>8

\* A checkpoint ends, goes on to refresh the derived state, or fails.
LEMMA EndStep ==
  ASSUME DurableInv,
         FinishPublication \/ CleanupFails \/ WriteComponent \/ PublishCatalog \/ CheckpointFails
  PROVE  DurableInv'
<1>1. /\ DurableTypes /\ Bound(store) /\ Publishing /\ proc.ck # None /\ acked' = acked
      /\ store \in Stores /\ proc \in Procs /\ proc.ck \in Cks /\ proc.terminal \in BOOLEAN
  BY StateTypes DEF DurableInv, FinishPublication, CleanupFails, AfterPublication, WriteComponent,
                    PublishCatalog, CheckpointFails
<1>2. /\ store' \in Stores /\ store'.wal = store.wal /\ store'.man = store.man
      /\ store'.cps = store.cps
  <2>1. CASE store' = store
    BY <1>1, <2>1
  <2>2. CASE PublishCatalog
    <3>1. PICK c : c = [gen |-> proc.ck.gen, n |-> proc.ck.n]
      OBVIOUS
    <3>2. c \in [gen : Nat, n : Nat]
      BY <1>1, <3>1 DEF Cks
    <3>3. store' = [store EXCEPT !.cat = c]
      BY <2>2, <3>1 DEF PublishCatalog
    <3> QED BY <1>1, <3>2, <3>3 DEF Stores
  <2> QED BY <2>1, <2>2 DEF FinishPublication, CleanupFails, AfterPublication, WriteComponent,
                            CheckpointFails
<1>3. Bound(store')
  BY <1>1, <1>2, BoundSame
<1>4. \E c \in Cks \cup {None}, t \in BOOLEAN :
        /\ proc' = [proc EXCEPT !.ck = c, !.terminal = t] /\ (proc.terminal => t)
        /\ c # None => c.at = "refresh"
  <2>1. CASE proc' = [proc EXCEPT !.ck = None]
    <3>1. proc' = [proc EXCEPT !.ck = None, !.terminal = proc.terminal]
      BY <1>1, <2>1 DEF Procs
    <3> QED BY <1>1, <3>1
  <2>2. CASE proc' = [proc EXCEPT !.ck.at = "refresh"]
    <3>1. PICK c : c = [proc.ck EXCEPT !.at = "refresh"]
      OBVIOUS
    <3>2. c \in Cks /\ c.at = "refresh"
      BY <1>1, <3>1 DEF Cks, Phases
    <3>3. proc' = [proc EXCEPT !.ck = c, !.terminal = proc.terminal]
      BY <1>1, <2>2, <3>1 DEF Procs
    <3> QED BY <1>1, <3>2, <3>3
  <2>3. CASE WriteComponent
    <3>1. PICK c : c = [proc.ck EXCEPT !.n = proc.ck.n + 1]
      OBVIOUS
    <3>2. proc.ck.at = "refresh" /\ proc' = [proc EXCEPT !.ck.n = proc.ck.n + 1]
      BY <2>3 DEF WriteComponent
    <3>3. c \in Cks /\ c.at = "refresh"
      BY <1>1, <3>1, <3>2 DEF Cks
    <3>4. proc' = [proc EXCEPT !.ck = c, !.terminal = proc.terminal]
      BY <1>1, <3>1, <3>2 DEF Procs
    <3> QED BY <1>1, <3>3, <3>4
  <2>4. CASE CheckpointFails
    <3>1. PICK t \in BOOLEAN : t = (proc.terminal \/ proc.ck.at = "replaced")
      OBVIOUS
    <3>2. proc' = [proc EXCEPT !.ck = None, !.terminal = t]
      BY <2>4, <3>1 DEF CheckpointFails
    <3> QED BY <3>1, <3>2
  <2> QED BY <2>1, <2>2, <2>3, <2>4 DEF FinishPublication, CleanupFails, AfterPublication,
                                        PublishCatalog
<1>5. proc' \in Procs /\ SameWriter /\ (proc'.ck # None => proc'.ck.at = "refresh")
  BY <1>1, <1>4, SetCk
<1>6. Publishing'
  BY <1>5 DEF Publishing
<1> QED BY <1>2, <1>3, <1>5, <1>6, CheckpointStep

\* One deletion after the publication: other checkpoints and what is staged, or
\* the oldest generation, which is older than that of the manifest.
LEMMA CleanStep ==
  ASSUME DurableInv, CleanAfterPublication
  PROVE  DurableInv'
<1>1. /\ DurableTypes /\ Bound(store) /\ Publishing /\ proc.ck # None /\ proc.ck.at = "cleaning"
      /\ Doomed # {} \/ store.stage # {} \/ OldWals # {}
      /\ store' = CleanNext /\ proc' = proc /\ acked' = acked
      /\ store \in Stores /\ proc \in Procs /\ store.cps \in SUBSET Points
  BY StateTypes DEF DurableInv, CleanAfterPublication
<1>2. /\ Ck \in Points /\ Ck # None /\ Ck.gen = proc.ck.gen /\ Ck.seq = proc.ck.seq
      /\ Ck \in store.cps /\ store.man = Ck
      /\ proc.ck.gen \in DOMAIN store.wal /\ store.wal[proc.ck.gen].first = proc.ck.seq + 1
      /\ Ck' = Ck
  BY <1>1, CkPoint DEF Publishing, Ck
<1>3. SameWriter /\ proc' \in Procs
  BY <1>1 DEF SameWriter
<1>4. CASE Doomed # {} \/ store.stage # {}
  <2>1. PICK C : C = store.cps \ Doomed
    OBVIOUS
  <2>2. store' = [store EXCEPT !.cps = C, !.stage = {}]
    BY <1>1, <1>4, <2>1 DEF CleanNext
  <2>3. C \in SUBSET Points /\ Ck \in C
    BY <1>1, <1>2, <2>1 DEF Doomed
  <2>4. /\ store' \in Stores /\ store'.wal = store.wal /\ store'.man = store.man /\ store'.cps = C
    BY <1>1, <2>2, <2>3 DEF Stores
  <2>5. Bound(store')
    BY <1>2, <2>3, <2>4 DEF Bound
  <2>6. Publishing'
    BY <1>1, <1>2, <2>3, <2>4 DEF Publishing
  <2> QED BY <1>3, <2>4, <2>5, <2>6, CheckpointStep
<1>5. CASE ~ (Doomed # {} \/ store.stage # {})
  <2>1. PICK lo, hi \in Nat : Chain(store.wal, lo, hi) /\ Written(hi)
    BY DEF DurableInv
  <2>2. PICK w : w = store.wal /\ w \in Wals
    BY <1>1, StateTypes
  <2>3. DOMAIN w = lo..hi /\ lo \in DOMAIN w /\ hi \in DOMAIN w
    BY <2>1, <2>2, ChainEnds
  <2>4. OldWals = {g \in lo..hi : g < proc.ck.gen} /\ OldWals # {}
    BY <1>1, <1>5, <2>2, <2>3 DEF OldWals
  <2>5. proc.ck.gen \in lo..hi /\ proc.ck.gen # lo /\ lo < hi
    BY <1>2, <2>2, <2>3, <2>4
  <2>6. Min(OldWals) = lo
    <3>1. lo \in OldWals /\ OldWals \in SUBSET Nat /\ \A y \in OldWals : lo <= y
      BY <2>3, <2>4, <2>5
    <3> QED BY <3>1, MinIs
  <2>7. PICK u : u = [h \in DOMAIN w \ {lo} |-> w[h]]
    OBVIOUS
  <2>8. store' = [store EXCEPT !.wal = u]
    BY <1>1, <1>5, <2>2, <2>6, <2>7 DEF CleanNext, WithoutWal
  <2>9. /\ u \in Wals /\ Chain(u, lo + 1, hi) /\ u[hi] = w[hi]
        /\ \A g \in DOMAIN w : g # lo => g \in DOMAIN u /\ u[g] = w[g]
    <3>1. Chain(w, lo, hi)
      BY <2>1, <2>2
    <3> QED BY <2>2, <2>5, <2>7, <3>1, ChainDrop
  <2>10. store' \in Stores /\ store'.wal = u /\ store'.man = store.man /\ store'.cps = store.cps
    BY <1>1, <2>8, <2>9, SetWal
  <2>11. proc.ck.gen \in DOMAIN u /\ u[proc.ck.gen].first = proc.ck.seq + 1
    BY <1>2, <2>2, <2>5, <2>9
  <2>12. Bound(store')
    BY <1>2, <2>10, <2>11 DEF Bound
  <2>13. Publishing'
    BY <1>1, <1>2, <2>10, <2>11 DEF Publishing
  <2>14. Written(hi)'
    BY <1>1, <2>1, <2>2, <2>9, <2>10 DEF Written
  <2>15. DurableTypes' /\ lo + 1 \in Nat
    BY <1>1, <2>10 DEF DurableTypes
  <2> QED BY <2>9, <2>10, <2>12, <2>13, <2>14, <2>15 DEF DurableInv
<1> QED BY <1>4, <1>5

-----------------------------------------------------------------------------
(* The theorems *)

\* A new store: one empty generation.
LEMMA InitDurable == DInit => DurableInv
<1> SUFFICES ASSUME DInit PROVE DurableInv
  OBVIOUS
<1>1. PICK minor \in Minors : store = EmptyStore(minor)
  BY DEF DInit
<1>2. proc = Idle(0) /\ acked = 0 /\ minor \in 0..2 /\ MaxSeq \in Nat
  BY DurableBounds DEF DInit
<1>3. PICK u : u = [g \in {1} |-> EmptyWal(1)]
  OBVIOUS
<1>4. /\ DOMAIN u = 1..1 /\ u[1] = EmptyWal(1) /\ EmptyWal(1) \in Gens /\ u \in Wals
      /\ EmptyWal(1).first = 1 /\ EmptyWal(1).tail = "none" /\ LastSeq(EmptyWal(1)) = 0
  <2>1. EmptyWal(1) \in Gens /\ EmptyWal(1).first = 1 /\ EmptyWal(1).n = 0 /\ EmptyWal(1).tail = "none"
    BY DEF EmptyWal, Gens, Tails
  <2>2. LastSeq(EmptyWal(1)) = 0
    BY <2>1 DEF LastSeq
  <2>3. {1} \in SUBSET Nat /\ 1..1 = {1} /\ u \in [{1} -> Gens]
    BY <1>3, <2>1
  <2> QED BY <1>3, <2>1, <2>2, <2>3, WalIs
<1>5. store = [minor |-> minor, wal |-> u, bare |-> FALSE, cps |-> {}, man |-> None, stage |-> {}, cat |-> None]
  BY <1>1, <1>3 DEF EmptyStore
<1>6. store \in Stores /\ store.wal = u /\ store.man = None
  BY <1>2, <1>4, <1>5 DEF Stores
<1>7. /\ proc \in Procs /\ proc.pub = 0 /\ proc.alloc = 0 /\ proc.base = 0 /\ proc.ck = None /\ proc.pc = "idle"
  BY <1>2 DEF Idle, Procs, Pcs
<1>8. Chain(u, 1, 1)
  BY <1>4 DEF Chain
<1>9. Written(1)
  BY <1>2, <1>4, <1>6, <1>7 DEF Written
<1>10. Bound(store) /\ Publishing
  BY <1>4, <1>6, <1>7 DEF Bound, Publishing
<1> QED BY <1>2, <1>6, <1>7, <1>8, <1>9, <1>10 DEF DurableInv, DurableTypes

\* Every step.
LEMMA StepDurable == DurableInv /\ [DNext]_durableVars => DurableInv'
<1> SUFFICES ASSUME DurableInv, [DNext]_durableVars PROVE DurableInv'
  OBVIOUS
<1>1. CASE \E k \in 1..MaxGroup : Allocate(k)
  BY <1>1, AllocateStep
<1>2. CASE WriteFrame
  BY <1>2, WriteFrameStep
<1>3. CASE ForceGroup \/ PublishGroup \/ CompleteFutures \/ AppendFails \/ Ready
  BY <1>3, GroupStep
<1>4. CASE (\E b \in BOOLEAN : CreateGeneration(b)) \/ HeadGeneration \/ CutFails
  BY <1>4, CreateStep, HeadStep, CutFailsStep
<1>5. CASE StageData \/ PublishData \/ StageManifest \/ ReplaceManifest \/ ForceDirectory
  BY <1>5, PublicationStep
<1>6. CASE FinishPublication \/ CleanupFails \/ WriteComponent \/ PublishCatalog \/ CheckpointFails
  BY <1>6, EndStep
<1>7. CASE CleanAfterPublication
  BY <1>7, CleanStep
<1>8. CASE Crash \/ Close
  BY <1>8, StopStep
<1>9. CASE Recover
  BY <1>9, RecoverStep
<1>10. CASE CopyStep \/ CopyFails \/ ToolCrash \/ \E k \in Kinds : Begin(k) \/ CleanRemnant(k)
  <2>1. UNCHANGED <<store, proc, acked>>
    BY <1>10 DEF CopyStep, CopyFails, ToolCrash, Begin, CleanRemnant
  <2> QED BY <2>1, OutsideStep
<1>11. CASE UNCHANGED durableVars
  <2>1. UNCHANGED <<store, proc, acked>>
    BY <1>11 DEF durableVars
  <2> QED BY <2>1, OutsideStep
<1> QED BY <1>1, <1>2, <1>3, <1>4, <1>5, <1>6, <1>7, <1>8, <1>9, <1>10, <1>11 DEF DNext

\* The file without a header goes with the step that writes the header, and no
\* process runs on one that was left.
LEMMA KeepBare ==
  ASSUME BareInv, store'.bare = store.bare, proc.terminal => proc'.terminal,
         proc.pc \in Cuts => proc'.pc \in Cuts
  PROVE  BareInv'
  BY DEF BareInv

\* Every step keeps it.
LEMMA StepBare == DurableInv /\ BareInv /\ [DNext]_durableVars => BareInv'
<1> SUFFICES ASSUME DurableInv, BareInv, [DNext]_durableVars PROVE BareInv'
  OBVIOUS
<1>1. store \in Stores /\ proc \in Procs
  BY StateTypes DEF DurableInv
<1>2. CASE \E k \in 1..MaxGroup : Allocate(k)
  <2>1. PICK k \in 1..MaxGroup : Allocate(k)
    BY <1>2
  <2>2. /\ proc.pc = "idle" /\ store' = store
        /\ proc' = [proc EXCEPT !.pc = "write", !.left = k, !.alloc = @ + k]
    BY <2>1 DEF Allocate
  <2>3. proc'.terminal = proc.terminal
    BY <1>1, <2>2 DEF Procs
  <2> QED BY <2>2, <2>3, KeepBare DEF Cuts
<1>3. CASE WriteFrame
  <2>1. PICK g, v, l : /\ store' = [store EXCEPT !.wal[g] = v]
                       /\ proc' = [proc EXCEPT !.left = l]
    BY <1>3 DEF WriteFrame
  <2>2. store'.bare = store.bare
    BY <1>1, <2>1 DEF Stores
  <2>3. proc'.terminal = proc.terminal /\ proc'.pc = proc.pc
    BY <1>1, <2>1 DEF Procs
  <2> QED BY <2>2, <2>3, KeepBare
<1>4. CASE ForceGroup \/ PublishGroup \/ CompleteFutures \/ AppendFails \/ Ready
  <2>1. store' = store /\ proc.pc \notin Cuts
    BY <1>4 DEF ForceGroup, PublishGroup, CompleteFutures, AppendFails, Ready, Cuts
  <2>2. proc.terminal => proc'.terminal
    BY <1>1, <1>4 DEF ForceGroup, PublishGroup, CompleteFutures, AppendFails, Ready, Procs
  <2> QED BY <2>1, <2>2, KeepBare
<1>5. CASE \E b \in BOOLEAN : CreateGeneration(b)
  <2>1. PICK b \in BOOLEAN : CreateGeneration(b)
    BY <1>5
  <2>2. PICK p : p = IF b THEN "backup-cut" ELSE "cut"
    OBVIOUS
  <2>3. proc' = [proc EXCEPT !.pc = p] /\ p \in Cuts
    BY <2>1, <2>2 DEF CreateGeneration, Cuts
  <2>4. proc'.pc = p
    BY <1>1, <2>3 DEF Procs
  <2> QED BY <2>3, <2>4 DEF BareInv
<1>6. CASE HeadGeneration
  <2>1. PICK u : store' = [store EXCEPT !.bare = FALSE, !.wal = u]
    BY <1>6 DEF HeadGeneration, WithGeneration
  <2>2. store'.bare = FALSE
    BY <1>1, <2>1 DEF Stores
  <2> QED BY <2>2 DEF BareInv
<1>7. CASE CutFails
  <2>1. proc' = [proc EXCEPT !.pc = "failed", !.terminal = TRUE]
    BY <1>7 DEF CutFails
  <2>2. proc'.terminal
    BY <1>1, <2>1 DEF Procs
  <2> QED BY <2>2 DEF BareInv
<1>8. CASE StageData \/ PublishData \/ StageManifest \/ ReplaceManifest \/ ForceDirectory
  <2>1. PICK a : proc' = [proc EXCEPT !.ck.at = a]
    BY <1>8 DEF StageData, PublishData, StageManifest, ReplaceManifest, ForceDirectory
  <2>2. proc'.terminal = proc.terminal /\ proc'.pc = proc.pc
    BY <1>1, <2>1 DEF Procs
  <2>3. store'.bare = store.bare
    <3>1. \/ store' = store
          \/ \E C, S : store' = [store EXCEPT !.cps = C, !.stage = S]
          \/ \E m, S : store' = [store EXCEPT !.man = m, !.stage = S]
          \/ \E S : store' = [store EXCEPT !.stage = S]
      BY <1>8 DEF StageData, PublishData, StageManifest, ReplaceManifest, ForceDirectory
    <3> QED BY <1>1, <3>1 DEF Stores
  <2> QED BY <2>2, <2>3, KeepBare
<1>9. CASE CleanAfterPublication
  <2>1. proc' = proc /\ store' = CleanNext
    BY <1>9 DEF CleanAfterPublication
  <2>2. store'.bare = store.bare
    <3>1. \/ \E C : store' = [store EXCEPT !.cps = C, !.stage = {}]
          \/ \E u : store' = [store EXCEPT !.wal = u]
      BY <2>1 DEF CleanNext, WithoutWal
    <3> QED BY <1>1, <3>1 DEF Stores
  <2> QED BY <2>1, <2>2, KeepBare
<1>10. CASE FinishPublication \/ CleanupFails \/ WriteComponent \/ PublishCatalog \/ CheckpointFails
  <2>1. \/ \E c : proc' = [proc EXCEPT !.ck = c]
        \/ \E a : proc' = [proc EXCEPT !.ck.at = a]
        \/ \E n : proc' = [proc EXCEPT !.ck.n = n]
        \/ \E c, t : proc' = [proc EXCEPT !.ck = c, !.terminal = t] /\ (proc.terminal => t)
    BY <1>10 DEF FinishPublication, CleanupFails, AfterPublication, WriteComponent, PublishCatalog,
                 CheckpointFails
  <2>2. (proc.terminal => proc'.terminal) /\ proc'.pc = proc.pc
    BY <1>1, <2>1 DEF Procs
  <2>3. store'.bare = store.bare
    <3>1. store' = store \/ \E c : store' = [store EXCEPT !.cat = c]
      BY <1>10 DEF FinishPublication, CleanupFails, AfterPublication, WriteComponent,
                   PublishCatalog, CheckpointFails
    <3> QED BY <1>1, <3>1 DEF Stores
  <2> QED BY <2>2, <2>3, KeepBare
<1>11. CASE Crash \/ Close
  <2>1. store' = store /\ proc' = [proc EXCEPT !.up = FALSE]
    BY <1>11 DEF Crash, Close
  <2>2. proc'.terminal = proc.terminal /\ proc'.pc = proc.pc
    BY <1>1, <2>1 DEF Procs
  <2> QED BY <2>1, <2>2, KeepBare
<1>12. CASE Recover
  <2>1. ~store.bare /\ store' = [store EXCEPT !.wal[Newest(store)].tail = "none"]
    BY <1>12 DEF Recover, Opens
  <2>2. store'.bare = store.bare
    BY <1>1, <2>1 DEF Stores
  <2> QED BY <2>1, <2>2 DEF BareInv
<1>13. CASE CopyStep \/ CopyFails \/ ToolCrash \/ \E k \in Kinds : Begin(k) \/ CleanRemnant(k)
  <2>1. UNCHANGED <<store, proc>>
    BY <1>13 DEF CopyStep, CopyFails, ToolCrash, Begin, CleanRemnant
  <2> QED BY <2>1, KeepBare
<1>14. CASE UNCHANGED durableVars
  <2>1. UNCHANGED <<store, proc>>
    BY <1>14 DEF durableVars
  <2> QED BY <2>1, KeepBare
<1> QED BY <1>2, <1>3, <1>4, <1>5, <1>6, <1>7, <1>8, <1>9, <1>10, <1>11, <1>12, <1>13, <1>14 DEF DNext

\* The inductive invariant holds in every behaviour: the generations are one
\* chain, the manifest is bound to it, the process knows how far it goes, and a
\* file without a header is one of a cut under way or of a writer that failed.
THEOREM DurableInductive == DurableSpec => [](DurableInv /\ BareInv)
<1>1. DInit => BareInv
  BY DEF DInit, EmptyStore, BareInv
<1> QED BY <1>1, InitDurable, StepDurable, StepBare, PTL DEF DurableSpec

\* Killed at any point - the creation of a generation before its header among
\* them - the files hold one prefix of the history with everything that was
\* acknowledged in it; but for that one file the inspector and the engine's own
\* opening accept them.
THEOREM PrefixIsDurable == DurableSpec => []DurablePrefix
<1>1. DurableInv /\ BareInv => DurablePrefix
  BY InvGivesPrefix
<1> QED BY <1>1, DurableInductive, PTL

-----------------------------------------------------------------------------
(* The crash harnesses: copies, stops and derived state *)

StepNames == {"marker", "dir", "metadata", "checkpoint", "wal", "manifest.staging",
              "manifest", "publish", "unmark"}
Remnants  == [marker : BOOLEAN, dir : BOOLEAN, members : SUBSET MemberNames,
              cp : Nat \cup {None}, listed : SUBSET MemberNames]
Xfers     == [kind : Kinds, at : Nat, seq : Nat, gen : Nat]
Bundles   == [minor : 0..2, seq : Nat, members : SUBSET MemberNames, listed : SUBSET MemberNames]

\* A remnant that is only marked, and one with its directory.
OnlyMarker ==
  [marker |-> TRUE, dir |-> FALSE, members |-> {}, cp |-> None, listed |-> {}]

Staging(members, cp, listed) ==
  [marker |-> TRUE, dir |-> TRUE, members |-> members, cp |-> cp, listed |-> listed]

\* What is staged when a copy of a kind is about to take a step.
StagedBefore(r, k, step, seq) ==
  /\ step = "marker"           => r = NoRemnant
  /\ step = "dir"              => r = OnlyMarker
  /\ step = "metadata"         => r = Staging({}, None, {})
  /\ step = "checkpoint"       => r = Staging({"metadata"}, None, {})
  /\ step = "wal"              => r = Staging({"metadata", "checkpoint"}, seq, {})
  /\ step = "manifest.staging" => r = Staging(Payloads(k), seq, {})
  /\ step = "manifest"         => r = Staging(Payloads(k) \cup {"manifest.staging"}, seq, Payloads(k))
  /\ step = "publish"          => r = Staging(MembersOf(k), seq, Payloads(k))
  /\ step = "unmark"           => r = OnlyMarker

\* A published target is complete and holds the sequence of its source.
Whole(k, seq) ==
  /\ target[k] # None /\ target[k].minor \in 0..2 /\ target[k].seq = seq
  /\ target[k].members = MembersOf(k) /\ target[k].listed = Payloads(k)

\* A copy under way, or stopped by a death: how far it came decides what is on
\* disk, and what it copies is what it started from.
CopyInv(x) ==
  /\ x \in Xfers /\ x.at \in 1..Len(Steps(x.kind))
  /\ StagedBefore(rem[x.kind], x.kind, Steps(x.kind)[x.at], x.seq)
  /\ Steps(x.kind)[x.at] = "unmark" => Whole(x.kind, x.seq)
  /\ Steps(x.kind)[x.at] # "unmark" => target[x.kind] = None
  /\ x.kind = "restore" => Whole("backup", x.seq)
  /\ x.kind = "migration" => x.seq = Replayed(store)

\* A backup reads the checkpoint its pin protects.
PinHeld(x) == pin = x.gen /\ [seq |-> x.seq, gen |-> x.gen] \in store.cps

\* A backup has its cut or its checkpoint under way.
Backing == proc.pc = "backup-cut" \/ (proc.ck # None /\ proc.ck.backup)

NoBackupYet == xfer = None /\ rem["backup"] = NoRemnant /\ target["backup"] = None

CopiesInv ==
  /\ rem \in [Kinds -> Remnants] /\ target \in [Kinds -> Bundles \cup {None}]
  /\ CleanupCase
  /\ target["backup"] # None => Whole("backup", target["backup"].seq)
  /\ xfer # None => CopyInv(xfer) /\ (xfer.kind = "backup" <=> proc.up)
  /\ xfer # None /\ xfer.kind = "backup" => PinHeld(xfer)
  /\ died # None => /\ ~proc.up /\ xfer = None
                    /\ died.xfer # None => CopyInv(died.xfer)
  /\ proc.up /\ Backing => NoBackupYet

\* A process that stopped without a death had finished its group.
StopInv ==
  /\ deaths \in Nat /\ faults \in Nat
  /\ ~proc.up /\ deaths = 0 => proc.pc = "idle"

\* A catalog is complete, a refresh is for the manifest's checkpoint, and a cut
\* waits for the checkpoint before it.
DerivedInv ==
  /\ store.cat # None => store.cat.n = Components
  /\ proc.ck # None /\ proc.ck.at = "refresh" => store.man # None /\ proc.ck.gen = store.man.gen
  /\ proc.pc = "opening" => proc.ck = None \/ proc.ck.at = "refresh"
  /\ proc.pc \in Cuts => proc.ck = None
  /\ DerivedCase

CasesInv == DurableInv /\ CopiesInv /\ StopInv /\ DerivedInv

\* Which step follows which.
Follows(k, s, t) ==
  /\ s = "marker"           => t = "dir"
  /\ s = "dir"              => t = "metadata"
  /\ s = "metadata"         => t = "checkpoint"
  /\ s = "checkpoint"       => t = IF k = "backup" THEN "manifest.staging" ELSE "wal"
  /\ s = "wal"              => t = "manifest.staging"
  /\ s = "manifest.staging" => t = "manifest"
  /\ s = "manifest"         => t = "publish"
  /\ s = "publish"          => t = "unmark"

\* The steps of a kind, in order; the removal of the marker is the last.
LEMMA StepTable ==
  ASSUME NEW k \in Kinds, NEW at \in 1..Len(Steps(k))
  PROVE  /\ Steps(k)[at] \in StepNames /\ (k = "backup" => Steps(k)[at] # "wal")
         /\ Steps(k)[at] = "unmark" <=> at = Len(Steps(k))
         /\ at # Len(Steps(k)) => /\ at + 1 \in 1..Len(Steps(k))
                                  /\ Follows(k, Steps(k)[at], Steps(k)[at + 1])
<1>1. CASE k = "backup"
  <2>1. PICK s : s = Steps(k)
    OBVIOUS
  <2>2. s = <<"marker", "dir", "metadata", "checkpoint", "manifest.staging",
              "manifest", "publish", "unmark">>
    BY <1>1, <2>1 DEF Steps
  <2>3. Len(s) = 8 /\ at \in 1..8
    BY <2>1, <2>2
  <2>4. /\ s[1] = "marker" /\ s[2] = "dir" /\ s[3] = "metadata" /\ s[4] = "checkpoint"
        /\ s[5] = "manifest.staging" /\ s[6] = "manifest" /\ s[7] = "publish" /\ s[8] = "unmark"
    BY <2>2
  <2>5. at \in {1, 2, 3, 4, 5, 6, 7, 8}
    BY <2>3
  <2>6. s[at] \in StepNames /\ s[at] # "wal" /\ (s[at] = "unmark" <=> at = 8)
    BY <2>4, <2>5 DEF StepNames
  <2>7. at # 8 => at + 1 \in 1..8 /\ Follows(k, s[at], s[at + 1])
    BY <1>1, <2>4, <2>5 DEF Follows
  <2> QED BY <2>1, <2>3, <2>6, <2>7
<1>2. CASE k # "backup"
  <2>1. PICK s : s = Steps(k)
    OBVIOUS
  <2>2. s = <<"marker", "dir", "metadata", "checkpoint", "wal", "manifest.staging",
              "manifest", "publish", "unmark">>
    BY <1>2, <2>1 DEF Steps
  <2>3. Len(s) = 9 /\ at \in 1..9
    BY <2>1, <2>2
  <2>4. /\ s[1] = "marker" /\ s[2] = "dir" /\ s[3] = "metadata" /\ s[4] = "checkpoint"
        /\ s[5] = "wal" /\ s[6] = "manifest.staging" /\ s[7] = "manifest" /\ s[8] = "publish"
        /\ s[9] = "unmark"
    BY <2>2
  <2>5. at \in {1, 2, 3, 4, 5, 6, 7, 8, 9}
    BY <2>3
  <2>6. s[at] \in StepNames /\ (s[at] = "unmark" <=> at = 9)
    BY <2>4, <2>5 DEF StepNames
  <2>7. at # 9 => at + 1 \in 1..9 /\ Follows(k, s[at], s[at + 1])
    BY <1>2, <2>4, <2>5 DEF Follows
  <2> QED BY <1>2, <2>1, <2>3, <2>6, <2>7
<1> QED BY <1>1, <1>2

\* Every copy begins with its marker.
LEMMA FirstStep ==
  ASSUME NEW k \in Kinds
  PROVE  1 \in 1..Len(Steps(k)) /\ Steps(k)[1] = "marker"
<1>1. PICK s : s = Steps(k)
  OBVIOUS
<1>2. CASE k = "backup"
  <2>1. s = <<"marker", "dir", "metadata", "checkpoint", "manifest.staging",
              "manifest", "publish", "unmark">>
    BY <1>1, <1>2 DEF Steps
  <2>2. Len(s) = 8 /\ s[1] = "marker"
    BY <2>1
  <2> QED BY <1>1, <2>2
<1>3. CASE k # "backup"
  <2>1. s = <<"marker", "dir", "metadata", "checkpoint", "wal", "manifest.staging",
              "manifest", "publish", "unmark">>
    BY <1>1, <1>3 DEF Steps
  <2>2. Len(s) = 9 /\ s[1] = "marker"
    BY <2>1
  <2> QED BY <1>1, <2>2
<1> QED BY <1>2, <1>3

\* The members of a kind are names, and the manifest is not one of its payloads.
LEMMA MembersAre ==
  ASSUME NEW k \in Kinds
  PROVE  /\ MembersOf(k) \in SUBSET MemberNames /\ Payloads(k) \in SUBSET MemberNames
         /\ MembersOf(k) = Payloads(k) \cup {"manifest"}
         /\ "manifest" \notin Payloads(k) /\ "manifest.staging" \notin Payloads(k)
         /\ k = "backup" => Payloads(k) = {"metadata", "checkpoint"}
         /\ k # "backup" => Payloads(k) = {"metadata", "checkpoint", "wal"}
<1>1. CASE k = "backup"
  <2>1. MembersOf(k) = {"metadata", "checkpoint", "manifest"}
    BY <1>1 DEF MembersOf
  <2>2. Payloads(k) = {"metadata", "checkpoint"}
    BY <2>1 DEF Payloads
  <2> QED BY <1>1, <2>1, <2>2 DEF MemberNames
<1>2. CASE k # "backup"
  <2>1. MembersOf(k) = {"metadata", "checkpoint", "manifest", "wal"}
    BY <1>2 DEF MembersOf
  <2>2. Payloads(k) = {"metadata", "checkpoint", "wal"}
    BY <2>1 DEF Payloads
  <2> QED BY <1>2, <2>1, <2>2 DEF MemberNames
<1> QED BY <1>1, <1>2

\* What each step does to the remnant.
LEMMA StagedSteps ==
  ASSUME NEW r, NEW seq
  PROVE  /\ Staged(r, "marker", seq) = [r EXCEPT !.marker = TRUE]
         /\ Staged(r, "dir", seq) = [r EXCEPT !.dir = TRUE]
         /\ Staged(r, "manifest", seq)
              = [r EXCEPT !.members = (r.members \ {"manifest.staging"}) \cup {"manifest"}]
         /\ Staged(r, "publish", seq) = [NoRemnant EXCEPT !.marker = r.marker]
         /\ Staged(r, "unmark", seq) = [r EXCEPT !.marker = FALSE]
<1>1. Staged(r, "marker", seq) = [r EXCEPT !.marker = TRUE]
  BY Zenon DEF Staged
<1>2. Staged(r, "dir", seq) = [r EXCEPT !.dir = TRUE]
  BY Zenon DEF Staged
<1>3. Staged(r, "manifest", seq)
        = [r EXCEPT !.members = (r.members \ {"manifest.staging"}) \cup {"manifest"}]
  BY Zenon DEF Staged
<1>4. Staged(r, "publish", seq) = [NoRemnant EXCEPT !.marker = r.marker]
  BY Zenon DEF Staged
<1>5. Staged(r, "unmark", seq) = [r EXCEPT !.marker = FALSE]
  BY Zenon DEF Staged
<1> QED BY <1>1, <1>2, <1>3, <1>4, <1>5

\* A step that writes a member into the directory.
LEMMA MemberSteps ==
  ASSUME NEW r, NEW seq, NEW step \in {"metadata", "checkpoint", "wal", "manifest.staging"}
  PROVE  Staged(r, step, seq)
           = [r EXCEPT !.members = r.members \cup {step},
                       !.cp = IF step = "checkpoint" THEN seq ELSE r.cp,
                       !.listed = IF step = "manifest.staging" THEN r.members ELSE r.listed]
<1>1. step \notin {"marker", "dir", "manifest", "publish", "unmark"}
  OBVIOUS
<1> QED BY <1>1, Zenon DEF Staged

\* What a copy has staged is bound by its marker, and there is a directory
\* between its creation and the publication.
LEMMA StagedIs ==
  ASSUME NEW k \in Kinds, NEW step \in StepNames, NEW seq \in Nat, NEW r,
         StagedBefore(r, k, step, seq)
  PROVE  /\ r \in Remnants
         /\ (r.dir \/ r.members # {}) => r.marker
         /\ r.marker <=> step # "marker"
         /\ r.dir <=> step \notin {"marker", "dir", "unmark"}
<1>1. NoRemnant \in Remnants /\ ~NoRemnant.marker /\ ~NoRemnant.dir /\ NoRemnant.members = {}
  BY DEF NoRemnant, Remnants
<1>3. OnlyMarker \in Remnants /\ OnlyMarker.marker /\ ~OnlyMarker.dir /\ OnlyMarker.members = {}
  BY DEF OnlyMarker, Remnants
<1>4. ASSUME NEW m \in SUBSET MemberNames, NEW c \in Nat \cup {None}, NEW l \in SUBSET MemberNames
      PROVE  Staging(m, c, l) \in Remnants /\ Staging(m, c, l).marker /\ Staging(m, c, l).dir
  BY DEF Staging, Remnants
<1>5. CASE step = "marker"
  BY <1>1, <1>5 DEF StagedBefore
<1>6. CASE step \in {"dir", "unmark"}
  BY <1>3, <1>6 DEF StagedBefore
<1>7. CASE step \notin {"marker", "dir", "unmark"}
  <2>1. \E m \in SUBSET MemberNames, c \in Nat \cup {None}, l \in SUBSET MemberNames : r = Staging(m, c, l)
    <3>1. CASE step = "metadata"
      BY <3>1 DEF StagedBefore
    <3>2. CASE step = "checkpoint"
      <4>1. {"metadata"} \in SUBSET MemberNames
        BY DEF MemberNames
      <4> QED BY <3>2, <4>1 DEF StagedBefore
    <3>3. CASE step = "wal"
      <4>1. {"metadata", "checkpoint"} \in SUBSET MemberNames
        BY DEF MemberNames
      <4> QED BY <3>3, <4>1 DEF StagedBefore
    <3>4. CASE step = "manifest.staging"
      BY <3>4, MembersAre DEF StagedBefore
    <3>5. CASE step = "manifest"
      <4>1. Payloads(k) \cup {"manifest.staging"} \in SUBSET MemberNames
        BY MembersAre DEF MemberNames
      <4> QED BY <3>5, <4>1, MembersAre DEF StagedBefore
    <3>6. CASE step = "publish"
      BY <3>6, MembersAre DEF StagedBefore
    <3> QED BY <1>7, <3>1, <3>2, <3>3, <3>4, <3>5, <3>6 DEF StepNames
  <2> QED BY <1>4, <1>7, <2>1
<1> QED BY <1>5, <1>6, <1>7

\* A step of the copy leaves what the next one finds.
LEMMA StageNext ==
  ASSUME NEW k \in Kinds, NEW s \in StepNames, NEW t \in StepNames, NEW seq \in Nat, NEW r,
         StagedBefore(r, k, s, seq), Follows(k, s, t), s # "unmark", k = "backup" => s # "wal"
  PROVE  StagedBefore(Staged(r, s, seq), k, t, seq)
<1>1. CASE s = "marker"
  <2>1. r = NoRemnant /\ t = "dir"
    BY <1>1 DEF StagedBefore, Follows
  <2>2. Staged(r, s, seq) = [r EXCEPT !.marker = TRUE]
    BY <1>1, StagedSteps
  <2>3. Staged(r, s, seq) = OnlyMarker
    BY <2>1, <2>2 DEF OnlyMarker, NoRemnant
  <2> QED BY <2>1, <2>3 DEF StagedBefore
<1>2. CASE s = "dir"
  <2>1. r = OnlyMarker /\ t = "metadata"
    BY <1>2 DEF StagedBefore, Follows
  <2>2. Staged(r, s, seq) = [r EXCEPT !.dir = TRUE]
    BY <1>2, StagedSteps
  <2>3. Staged(r, s, seq) = Staging({}, None, {})
    BY <2>1, <2>2 DEF OnlyMarker, Staging
  <2> QED BY <2>1, <2>3 DEF StagedBefore
<1>3. CASE s = "metadata"
  <2>1. r = Staging({}, None, {}) /\ t = "checkpoint"
    BY <1>3 DEF StagedBefore, Follows
  <2>2. Staged(r, s, seq)
          = [r EXCEPT !.members = r.members \cup {s},
                      !.cp = IF s = "checkpoint" THEN seq ELSE r.cp,
                      !.listed = IF s = "manifest.staging" THEN r.members ELSE r.listed]
    BY <1>3, MemberSteps
  <2>3. r.members = {} /\ r.cp = None /\ r.listed = {}
    BY <2>1 DEF Staging
  <2>4. PICK e : e = {"metadata"}
    OBVIOUS
  <2>5. e = r.members \cup {s}
    BY <1>3, <2>3, <2>4
  <2>6. Staged(r, s, seq) = [r EXCEPT !.members = e, !.cp = None, !.listed = {}]
    BY <1>3, <2>2, <2>3, <2>5
  <2>7. Staged(r, s, seq) = Staging(e, None, {})
    BY <2>1, <2>6 DEF Staging
  <2> QED BY <2>1, <2>4, <2>7, MembersAre DEF StagedBefore
<1>4. CASE s = "checkpoint"
  <2>1. r = Staging({"metadata"}, None, {}) /\ t = IF k = "backup" THEN "manifest.staging" ELSE "wal"
    BY <1>4 DEF StagedBefore, Follows
  <2>2. Staged(r, s, seq)
          = [r EXCEPT !.members = r.members \cup {s},
                      !.cp = IF s = "checkpoint" THEN seq ELSE r.cp,
                      !.listed = IF s = "manifest.staging" THEN r.members ELSE r.listed]
    BY <1>4, MemberSteps
  <2>3. r.members = {"metadata"} /\ r.cp = None /\ r.listed = {}
    BY <2>1 DEF Staging
  <2>4. PICK e : e = {"metadata", "checkpoint"}
    OBVIOUS
  <2>5. e = r.members \cup {s}
    BY <1>4, <2>3, <2>4
  <2>6. Staged(r, s, seq) = [r EXCEPT !.members = e, !.cp = seq, !.listed = {}]
    BY <1>4, <2>2, <2>3, <2>5
  <2>7. Staged(r, s, seq) = Staging(e, seq, {})
    BY <2>1, <2>6 DEF Staging
  <2> QED BY <2>1, <2>4, <2>7, MembersAre DEF StagedBefore
<1>5. CASE s = "wal"
  <2>1. r = Staging({"metadata", "checkpoint"}, seq, {}) /\ t = "manifest.staging"
    BY <1>5 DEF StagedBefore, Follows
  <2>2. Staged(r, s, seq)
          = [r EXCEPT !.members = r.members \cup {s},
                      !.cp = IF s = "checkpoint" THEN seq ELSE r.cp,
                      !.listed = IF s = "manifest.staging" THEN r.members ELSE r.listed]
    BY <1>5, MemberSteps
  <2>3. r.members = {"metadata", "checkpoint"} /\ r.cp = seq /\ r.listed = {}
    BY <2>1 DEF Staging
  <2>4. PICK e : e = Payloads(k)
    OBVIOUS
  <2>5. e = r.members \cup {s}
    BY <1>5, <2>3, <2>4, MembersAre
  <2>6. Staged(r, s, seq) = [r EXCEPT !.members = e, !.cp = seq, !.listed = {}]
    BY <1>5, <2>2, <2>3, <2>5
  <2>7. Staged(r, s, seq) = Staging(e, seq, {})
    BY <2>1, <2>6 DEF Staging
  <2> QED BY <2>1, <2>4, <2>7, MembersAre DEF StagedBefore
<1>6. CASE s = "manifest.staging"
  <2>1. r = Staging(Payloads(k), seq, {}) /\ t = "manifest"
    BY <1>6 DEF StagedBefore, Follows
  <2>2. Staged(r, s, seq)
          = [r EXCEPT !.members = r.members \cup {s},
                      !.cp = IF s = "checkpoint" THEN seq ELSE r.cp,
                      !.listed = IF s = "manifest.staging" THEN r.members ELSE r.listed]
    BY <1>6, MemberSteps
  <2>3. r.members = Payloads(k) /\ r.cp = seq /\ r.listed = {}
    BY <2>1 DEF Staging
  <2>4. PICK e : e = Payloads(k) \cup {"manifest.staging"}
    OBVIOUS
  <2>5. e = r.members \cup {s}
    BY <1>6, <2>3, <2>4
  <2>6. Staged(r, s, seq) = [r EXCEPT !.members = e, !.cp = seq, !.listed = Payloads(k)]
    BY <1>6, <2>2, <2>3, <2>5
  <2>7. Staged(r, s, seq) = Staging(e, seq, Payloads(k))
    BY <2>1, <2>6 DEF Staging
  <2> QED BY <2>1, <2>4, <2>7, MembersAre DEF StagedBefore
<1>7. CASE s = "manifest"
  <2>1. /\ r = Staging(Payloads(k) \cup {"manifest.staging"}, seq, Payloads(k))
        /\ t = "publish"
    BY <1>7 DEF StagedBefore, Follows
  <2>2. MembersOf(k) = ((Payloads(k) \cup {"manifest.staging"}) \ {"manifest.staging"}) \cup {"manifest"}
    BY MembersAre
  <2>3. Staged(r, s, seq)
          = [r EXCEPT !.members = (r.members \ {"manifest.staging"}) \cup {"manifest"}]
    BY <1>7, StagedSteps
  <2>4. r.members = Payloads(k) \cup {"manifest.staging"}
    BY <2>1 DEF Staging
  <2>5. Staged(r, s, seq) = [r EXCEPT !.members = MembersOf(k)]
    BY <2>2, <2>3, <2>4
  <2>6. Staged(r, s, seq) = Staging(MembersOf(k), seq, Payloads(k))
    BY <2>1, <2>5 DEF Staging
  <2> QED BY <2>1, <2>6 DEF StagedBefore
<1>8. CASE s = "publish"
  <2>1. r.marker = TRUE /\ t = "unmark"
    BY <1>8 DEF StagedBefore, Staging, Follows
  <2>2. Staged(r, s, seq) = [NoRemnant EXCEPT !.marker = r.marker]
    BY <1>8, StagedSteps
  <2>3. Staged(r, s, seq) = OnlyMarker
    BY <2>1, <2>2 DEF OnlyMarker, NoRemnant
  <2> QED BY <2>1, <2>3 DEF StagedBefore
<1> QED BY <1>1, <1>2, <1>3, <1>4, <1>5, <1>6, <1>7, <1>8 DEF StepNames

\* The last step leaves nothing.
LEMMA StageLast ==
  ASSUME NEW k, NEW seq, NEW r, StagedBefore(r, k, "unmark", seq)
  PROVE  Staged(r, "unmark", seq) = NoRemnant
<1>1. r = OnlyMarker
  BY DEF StagedBefore
<1>2. Staged(r, "unmark", seq) = [r EXCEPT !.marker = FALSE]
  BY StagedSteps
<1> QED BY <1>1, <1>2 DEF NoRemnant, OnlyMarker

-----------------------------------------------------------------------------
(* The invariant gives the verdicts *)

\* A whole target is accepted by the parser of its format.
LEMMA WholeIs ==
  ASSUME NEW k \in Kinds, NEW seq, Whole(k, seq)
  PROVE  PublishedWhole(k, seq) /\ target[k] # None
<1>1. CASE k = "backup"
  <2>1. target[k].minor = 0 \/ target[k].minor = 1 \/ target[k].minor = 2
    BY DEF Whole
  <2> QED BY <1>1, <2>1 DEF Whole, PublishedWhole, BackupV10, BackupV11, BackupV12, ContentIdentity
<1>2. CASE k # "backup"
  <2>1. "migration" \in Kinds
    BY DEF Kinds
  <2>2. Payloads("migration") = Payloads(k) /\ MembersOf("migration") = MembersOf(k)
    BY <1>2, <2>1, MembersAre
  <2> QED BY <1>2, <2>2 DEF Whole, PublishedWhole, InspectStore, ContentIdentity
<1> QED BY <1>1, <1>2

\* The facts of a copy that its verdict needs.
LEMMA CopyFacts ==
  ASSUME NEW x, CopyInv(x), NEW s, s = Steps(x.kind)[x.at]
  PROVE  /\ x.kind \in Kinds /\ x.seq \in Nat /\ s \in StepNames
         /\ (target[x.kind] # None) <=> (s = "unmark")
         /\ s = "unmark" => PublishedWhole(x.kind, x.seq)
         /\ rem[x.kind].marker <=> s # "marker"
         /\ rem[x.kind].dir <=> s \notin {"marker", "dir", "unmark"}
         /\ "manifest" \in rem[x.kind].members =>
              rem[x.kind].members = MembersOf(x.kind) /\ rem[x.kind].cp = x.seq
         /\ x.kind = "restore" => PublishedWhole("backup", x.seq)
<1>1. /\ x.kind \in Kinds /\ x.seq \in Nat /\ x.at \in 1..Len(Steps(x.kind))
      /\ StagedBefore(rem[x.kind], x.kind, s, x.seq)
      /\ s = "unmark" => Whole(x.kind, x.seq)
      /\ s # "unmark" => target[x.kind] = None
      /\ x.kind = "restore" => Whole("backup", x.seq)
  BY DEF CopyInv, Xfers
<1>2. s \in StepNames /\ "backup" \in Kinds
  BY <1>1, StepTable DEF Kinds
<1>3. PICK r, k : r = rem[x.kind] /\ k = x.kind /\ k \in Kinds /\ StagedBefore(r, k, s, x.seq)
  BY <1>1
<1>4. /\ r.marker <=> s # "marker"
      /\ r.dir <=> s \notin {"marker", "dir", "unmark"}
  BY <1>1, <1>2, <1>3, StagedIs
<1>5. "manifest" \in r.members => s = "publish"
  <2>1. "manifest" \notin {} /\ "manifest" \notin {"metadata"}
        /\ "manifest" \notin {"metadata", "checkpoint"} /\ "manifest" \notin Payloads(k)
        /\ "manifest" \notin Payloads(k) \cup {"manifest.staging"}
    BY <1>3, MembersAre
  <2>2. CASE s \in {"marker", "dir", "unmark"}
    BY <1>3, <2>1, <2>2 DEF StagedBefore, NoRemnant, OnlyMarker
  <2>3. CASE s \in {"metadata", "checkpoint", "wal", "manifest.staging", "manifest"}
    <3>1. \E e \in {{}, {"metadata"}, {"metadata", "checkpoint"}, Payloads(k),
                    Payloads(k) \cup {"manifest.staging"}} : \E c, l : r = Staging(e, c, l)
      BY <1>3, <2>3 DEF StagedBefore
    <3>2. PICK e, c, l : r = Staging(e, c, l) /\ "manifest" \notin e
      BY <2>1, <3>1
    <3>3. r.members = e
      BY <3>2 DEF Staging
    <3> QED BY <3>2, <3>3
  <2> QED BY <1>2, <2>2, <2>3 DEF StepNames
<1>6. s = "publish" => r.members = MembersOf(k) /\ r.cp = x.seq
  BY <1>3 DEF StagedBefore, Staging
<1>7. s = "unmark" => PublishedWhole(x.kind, x.seq) /\ target[x.kind] # None
  BY <1>1, WholeIs
<1>8. x.kind = "restore" => PublishedWhole("backup", x.seq)
  BY <1>1, <1>2, WholeIs
<1> QED BY <1>1, <1>2, <1>3, <1>4, <1>5, <1>6, <1>7, <1>8

\* A copy stopped anywhere passes the harness of its kind.
LEMMA CopyPasses ==
  ASSUME NEW x, CopyInv(x)
  PROVE  CopyCase(x)
<1>1. x.kind = "backup" => BackupCase(x)
  BY CopyFacts DEF BackupCase
<1>2. x.kind = "restore" => RestoreCase(x)
  BY CopyFacts DEF RestoreCase
<1>3. x.kind = "migration" => MigrationCase(x)
  <2> SUFFICES ASSUME x.kind = "migration" PROVE MigrationCase(x)
    OBVIOUS
  <2>1. PICK s : s = Steps("migration")[x.at]
    OBVIOUS
  <2>2. /\ s \in StepNames
        /\ (target["migration"] # None) <=> (s = "unmark")
        /\ s = "unmark" => PublishedWhole("migration", x.seq)
        /\ rem["migration"].marker <=> s # "marker"
        /\ rem["migration"].dir <=> s \notin {"marker", "dir", "unmark"}
    BY <2>1, CopyFacts
  <2>3. x.seq = Replayed(store)
    BY DEF CopyInv
  <2>4. RemnantOf(rem["migration"]) = ExpectedRemnant(x)
    BY <2>1, <2>2 DEF RemnantOf, ExpectedRemnant
  <2> QED BY <2>1, <2>2, <2>3, <2>4 DEF MigrationCase
<1> QED BY <1>1, <1>2, <1>3 DEF CopyCase

\* The invariant contains every verdict.
LEMMA InvGivesCases ==
  ASSUME CasesInv
  PROVE  CasesPass
<1>1. PICK lo, hi \in Nat : Chain(store.wal, lo, hi) /\ Written(hi)
  BY DEF CasesInv, DurableInv
<1>2. PICK w, L : w = store.wal[hi] /\ L = LastSeq(w)
  OBVIOUS
<1>3. /\ L \in Nat /\ L <= proc.alloc /\ proc.alloc <= MaxSeq /\ proc.base <= L
      /\ proc.pc \in {"idle", "opening", "forced", "published", "cut", "backup-cut"} =>
           L = proc.alloc /\ w.tail = "none"
      /\ proc.pc = "write" => L + proc.left = proc.alloc
      /\ proc.pc = "failed" => proc.terminal
  <2>1. hi \in DOMAIN store.wal
    BY <1>1, StateTypes, ChainEnds DEF CasesInv, DurableInv
  <2>2. L \in Nat
    BY <1>2, <2>1, StateTypes, GenParts DEF CasesInv, DurableInv
  <2> QED BY <1>1, <1>2, <2>2 DEF Written
<1>4. /\ proc.alloc \in Nat /\ proc.base \in Nat /\ proc.left \in Nat /\ MaxSeq \in Nat
      /\ proc.pc \in Pcs
  BY StateTypes, DurableBounds DEF CasesInv, DurableInv, Procs
<1>5. Newest(store) = hi /\ DurableSequence(store) = L /\ Replayed(store) = L
  <2>1. L <= MaxSeq
    BY <1>3, <1>4
  <2> QED BY <1>1, <1>2, <2>1, PrefixOf DEF CasesInv, DurableInv
<1>6. WalCase
  <2> SUFFICES ASSUME proc.alloc - proc.base <= 1, ~proc.terminal PROVE L = ExpectedSequence(proc)
    BY <1>5 DEF WalCase
  <2>1. CASE proc.pc = "write"
    BY <1>3, <1>4, <2>1 DEF ExpectedSequence
  <2>2. CASE proc.pc # "write"
    BY <1>3, <1>4, <2>2 DEF ExpectedSequence, Pcs
  <2> QED BY <2>1, <2>2
<1>7. CheckpointCase
  BY DEF CasesInv, DurableInv, Publishing, CheckpointCase
<1>8. RepeatCase
  BY <1>3, <1>5 DEF RepeatCase
<1>9. (~proc.up /\ deaths = 0) => StopCase
  BY <1>2, <1>3, <1>5 DEF CasesInv, StopInv, StopCase
<1>10. (died # None /\ died.xfer # None) => CopyCase(died.xfer)
  BY CopyPasses DEF CasesInv, CopiesInv
<1>11. (xfer # None /\ xfer.kind = "backup") => SourceHolds(xfer)
  BY DEF CasesInv, CopiesInv, PinHeld, SourceHolds
<1> QED BY <1>6, <1>7, <1>8, <1>9, <1>10, <1>11 DEF CasesPass, CasesInv, CopiesInv, DerivedInv

-----------------------------------------------------------------------------
(* Steps of the process, and the copies *)

\* While the process runs, a copy is a backup and nothing is left of a death.
LEMMA Running ==
  ASSUME CopiesInv, proc.up
  PROVE  died = None /\ (xfer # None => xfer.kind = "backup")
  BY DEF CopiesInv

\* A step that leaves the copies alone and keeps the pinned checkpoint.
LEMMA KeepCopies ==
  ASSUME CopiesInv, proc.up, proc'.up, UNCHANGED <<pin, xfer, rem, target, died>>,
         \A c \in store.cps : c.gen = pin => c \in store'.cps,
         Backing' => Backing \/ NoBackupYet
  PROVE  CopiesInv'
<1>1. died' = None /\ (xfer # None => xfer.kind = "backup" /\ CopyInv(xfer) /\ PinHeld(xfer))
  BY Running DEF CopiesInv
<1>2. xfer' # None => CopyInv(xfer)' /\ xfer'.kind = "backup"
  <2>1. xfer' = xfer /\ rem' = rem /\ target' = target
    OBVIOUS
  <2> QED BY <1>1, <2>1 DEF CopyInv, Whole
<1>3. xfer' # None => PinHeld(xfer)'
  <2> SUFFICES ASSUME xfer # None PROVE PinHeld(xfer)'
    OBVIOUS
  <2>1. PICK c : c = [seq |-> xfer.seq, gen |-> xfer.gen]
    OBVIOUS
  <2>2. c \in store.cps /\ pin = xfer.gen /\ c.gen = xfer.gen
    BY <1>1, <2>1 DEF PinHeld
  <2>3. c \in store'.cps
    BY <2>2
  <2> QED BY <2>1, <2>2, <2>3 DEF PinHeld
<1>4. NoBackupYet' <=> NoBackupYet
  BY DEF NoBackupYet
<1>5. Backing' => NoBackupYet'
  BY <1>4 DEF CopiesInv
<1>6. CleanupCase' /\ (target'["backup"] # None => Whole("backup", target["backup"].seq)')
  BY DEF CopiesInv, CleanupCase, Whole
<1>7. rem' \in [Kinds -> Remnants] /\ target' \in [Kinds -> Bundles \cup {None}]
  BY DEF CopiesInv
<1> QED BY <1>1, <1>2, <1>3, <1>5, <1>6, <1>7 DEF CopiesInv

\* A step after which the derived state and the refresh are what they were.
LEMMA KeepDerived ==
  ASSUME DerivedInv, store'.man = store.man, store'.cat = store.cat, store'.minor = store.minor,
         proc'.ck = proc.ck, proc'.pc = "opening" => proc.pc = "opening", faults' = 0 => faults = 0,
         proc'.pc \in Cuts => proc.pc \in Cuts
  PROVE  DerivedInv'
<1>1. Derived(store)' = Derived(store)
  BY DEF Derived
<1> QED BY <1>1 DEF DerivedInv, DerivedCase

\* A step of a running process that counts no death.
LEMMA KeepStop ==
  ASSUME StopInv, proc'.up, deaths' = deaths, faults' \in Nat
  PROVE  StopInv'
  BY DEF StopInv

\* The writer's steps.
LEMMA WriterCases ==
  ASSUME CasesInv,
         \/ \E k \in 1..MaxGroup : Allocate(k)
         \/ WriteFrame \/ ForceGroup \/ PublishGroup \/ CompleteFutures \/ AppendFails \/ Ready
  PROVE  CopiesInv' /\ StopInv' /\ DerivedInv'
<1>1. proc \in Procs /\ store \in Stores /\ faults \in Nat
  BY DEF CasesInv, DurableInv, DurableTypes, StopInv
<1>2. /\ proc.up /\ UNCHANGED <<pin, xfer, rem, target, died, deaths>>
      /\ faults' \in {faults, faults + 1}
  BY DEF Allocate, WriteFrame, ForceGroup, PublishGroup, CompleteFutures, AppendFails, Ready,
         Transfers, Counters
<1>3. /\ store'.man = store.man /\ store'.cat = store.cat /\ store'.minor = store.minor
      /\ store'.cps = store.cps
  <2>1. CASE WriteFrame
    <3>1. \E g, v : store' = [store EXCEPT !.wal[g] = v]
      BY <2>1 DEF WriteFrame
    <3> QED BY <1>1, <3>1 DEF Stores
  <2>2. CASE ~WriteFrame
    BY <2>2 DEF Allocate, ForceGroup, PublishGroup, CompleteFutures, AppendFails, Ready
  <2> QED BY <2>1, <2>2
<1>4. /\ proc'.up = proc.up /\ proc'.ck = proc.ck /\ (proc'.pc = "opening" => proc.pc = "opening")
      /\ proc'.pc \in {"idle", "write", "forced", "published", "failed"} \/ proc'.pc = proc.pc
  <2>1. CASE \E k \in 1..MaxGroup : Allocate(k)
    BY <1>1, <2>1 DEF Allocate, Procs
  <2>2. CASE WriteFrame
    <3>1. \E l : proc' = [proc EXCEPT !.left = l]
      BY <2>2 DEF WriteFrame
    <3> QED BY <1>1, <3>1 DEF Procs
  <2>3. CASE ForceGroup
    BY <1>1, <2>3 DEF ForceGroup, Procs
  <2>4. CASE PublishGroup
    BY <1>1, <2>4 DEF PublishGroup, Procs
  <2>5. CASE CompleteFutures
    BY <1>1, <2>5 DEF CompleteFutures, Procs
  <2>6. CASE AppendFails
    BY <1>1, <2>6 DEF AppendFails, Procs
  <2>7. CASE Ready
    BY <1>1, <2>7 DEF Ready, Procs
  <2> QED BY <2>1, <2>2, <2>3, <2>4, <2>5, <2>6, <2>7
<1>5. CopiesInv'
  <2>1. Backing' => Backing
    BY <1>4 DEF Backing
  <2> QED BY <1>2, <1>3, <1>4, <2>1, KeepCopies DEF CasesInv
<1>6. faults' \in Nat /\ (faults' = 0 => faults = 0) /\ (proc'.pc \in Cuts => proc.pc \in Cuts)
  BY <1>1, <1>2, <1>4 DEF Cuts
<1>7. StopInv'
  BY <1>2, <1>4, <1>6, KeepStop DEF CasesInv
<1>8. DerivedInv'
  BY <1>3, <1>4, <1>6, KeepDerived DEF CasesInv
<1> QED BY <1>5, <1>7, <1>8

\* A complete catalog is not partial.
LEMMA NeverPartial ==
  ASSUME NEW s, s.cat # None => s.cat.n = Components
  PROVE  Derived(s) # "PARTIAL"
<1>1. Components \in Nat
  BY DurableBounds
<1> QED BY <1>1 DEF Derived

\* A step of a process that is not opening and has no refresh.
LEMMA OutsideOpening ==
  ASSUME store'.cat # None => store'.cat.n = Components, proc'.pc # "opening",
         proc'.pc \in Cuts => proc'.ck = None,
         proc'.ck # None => proc'.ck.at # "refresh"
  PROVE  DerivedInv'
<1>1. Derived(store') # "PARTIAL"
  BY NeverPartial
<1> QED BY <1>1 DEF DerivedInv, DerivedCase

\* A cut: a backup's begins before there is anything of the backup.
LEMMA CutCases ==
  ASSUME CasesInv, (\E b \in BOOLEAN : CreateGeneration(b)) \/ HeadGeneration \/ CutFails
  PROVE  CopiesInv' /\ StopInv' /\ DerivedInv'
<1>1. proc \in Procs /\ store \in Stores /\ faults \in Nat
  BY DEF CasesInv, DurableInv, DurableTypes, StopInv
<1>2. /\ proc.up /\ UNCHANGED <<pin, xfer, rem, target, died, deaths>>
      /\ faults' \in {faults, faults + 1}
  BY DEF CreateGeneration, HeadGeneration, CutFails, CanCut, Transfers, Counters
<1>3. /\ store'.man = store.man /\ store'.cat = store.cat /\ store'.minor = store.minor
      /\ store'.cps = store.cps
  <2>1. \/ store' = store \/ store' = [store EXCEPT !.bare = TRUE]
        \/ \E u : store' = [store EXCEPT !.bare = FALSE, !.wal = u]
    BY DEF CreateGeneration, HeadGeneration, CutFails, WithGeneration
  <2> QED BY <1>1, <2>1 DEF Stores
<1>4. CASE \E b \in BOOLEAN : CreateGeneration(b)
  <2>1. PICK b \in BOOLEAN : CreateGeneration(b)
    BY <1>4
  <2>2. PICK p : p = IF b THEN "backup-cut" ELSE "cut"
    OBVIOUS
  <2>3. /\ proc' = [proc EXCEPT !.pc = p] /\ proc.ck = None /\ (p = "backup-cut" => NoBackupYet)
        /\ faults' = faults
    BY <2>1, <2>2 DEF CreateGeneration, CanCut, NoBackupYet, Counters
  <2>4. proc'.up /\ proc'.pc = p /\ proc'.ck = None
    BY <1>1, <1>2, <2>3 DEF Procs
  <2>5. Backing' => NoBackupYet
    BY <2>3, <2>4 DEF Backing
  <2>6. CopiesInv'
    BY <1>2, <1>3, <2>4, <2>5, KeepCopies DEF CasesInv
  <2>7. StopInv'
    BY <1>1, <1>2, <2>3, <2>4, KeepStop DEF CasesInv
  <2>8. p # "opening"
    BY <2>2
  <2>9. DerivedInv'
    BY <1>3, <2>4, <2>8, OutsideOpening DEF CasesInv, DerivedInv
  <2> QED BY <2>6, <2>7, <2>9
<1>5. CASE HeadGeneration
  <2>1. PICK c : c = [at |-> "begin", seq |-> proc.pub, gen |-> Newest(store) + 1,
                      backup |-> proc.pc = "backup-cut", n |-> 0]
    OBVIOUS
  <2>2. proc' = [proc EXCEPT !.pc = "idle", !.ck = c] /\ faults' = faults
    BY <1>5, <2>1 DEF HeadGeneration, Counters
  <2>3. proc'.up /\ proc'.pc = "idle" /\ proc'.ck = c
    BY <1>1, <1>2, <2>2 DEF Procs
  <2>4. c.at = "begin" /\ (c.backup => proc.pc = "backup-cut")
    BY <2>1
  <2>5. Backing' => Backing
    BY <2>3, <2>4 DEF Backing
  <2>6. CopiesInv'
    BY <1>2, <1>3, <2>3, <2>5, KeepCopies DEF CasesInv
  <2>7. StopInv'
    BY <1>1, <1>2, <2>2, <2>3, KeepStop DEF CasesInv
  <2>8. DerivedInv'
    <3>1. proc'.pc \notin Cuts
      BY <2>3 DEF Cuts
    <3> QED BY <1>3, <2>3, <2>4, <3>1, OutsideOpening DEF CasesInv, DerivedInv
  <2> QED BY <2>6, <2>7, <2>8
<1>6. CASE CutFails
  <2>1. proc' = [proc EXCEPT !.pc = "failed", !.terminal = TRUE] /\ faults' = faults + 1
    BY <1>6 DEF CutFails
  <2>2. proc'.up /\ proc'.pc = "failed" /\ proc'.ck = proc.ck
    BY <1>1, <1>2, <2>1 DEF Procs
  <2>3. Backing' => Backing
    BY <2>2 DEF Backing
  <2>4. CopiesInv'
    BY <1>2, <1>3, <2>2, <2>3, KeepCopies DEF CasesInv
  <2>5. faults' \in Nat /\ faults' # 0 /\ proc'.pc \notin Cuts
    BY <1>1, <2>1, <2>2 DEF Cuts
  <2>6. StopInv'
    BY <1>2, <2>2, <2>5, KeepStop DEF CasesInv
  <2>7. DerivedInv'
    BY <1>3, <2>2, <2>5, KeepDerived DEF CasesInv
  <2> QED BY <2>4, <2>6, <2>7
<1> QED BY <1>4, <1>5, <1>6

\* The phases up to the force of the directory.
LEMMA PublicationCases ==
  ASSUME CasesInv,
         StageData \/ PublishData \/ StageManifest \/ ReplaceManifest \/ ForceDirectory
  PROVE  CopiesInv' /\ StopInv' /\ DerivedInv'
<1>1. proc \in Procs /\ store \in Stores /\ faults \in Nat /\ DurableTypes
  BY DEF CasesInv, DurableInv, DurableTypes, StopInv
<1>2. proc.up /\ UNCHANGED <<pin, xfer, rem, target, died, deaths, faults>>
  BY DEF StageData, PublishData, StageManifest, ReplaceManifest, ForceDirectory,
         Transfers, Counters
<1>3. store'.cat = store.cat /\ store.cps \subseteq store'.cps
  <2>2. CASE StageData
    BY <1>1, <2>2 DEF StageData, Stores
  <2>3. CASE PublishData
    BY <1>1, <2>3 DEF PublishData, Stores
  <2>4. CASE StageManifest
    BY <1>1, <2>4 DEF StageManifest, Stores
  <2>5. CASE ReplaceManifest
    BY <1>1, <2>5 DEF ReplaceManifest, Stores
  <2>6. CASE ForceDirectory
    BY <2>6 DEF ForceDirectory
  <2> QED BY <2>2, <2>3, <2>4, <2>5, <2>6
<1>4. /\ proc'.up /\ proc'.pc # "opening" /\ proc'.pc \notin Cuts
      /\ proc'.ck # None => proc'.ck.at # "refresh"
      /\ Backing' => Backing
  <2>1. PICK a \in Phases : /\ proc' = [proc EXCEPT !.ck.at = a] /\ a # "refresh"
                            /\ proc.ck # None /\ proc.ck.at # "refresh"
    BY DEF StageData, PublishData, StageManifest, ReplaceManifest, ForceDirectory, Phases
  <2>2. proc.ck \in Cks /\ proc.pc # "opening" /\ proc.pc \notin Cuts
    BY <1>1, <2>1, StateTypes DEF CasesInv, DerivedInv
  <2>3. PICK c : c = [proc.ck EXCEPT !.at = a]
    OBVIOUS
  <2>4. c.at = a /\ c.backup = proc.ck.backup
    BY <2>2, <2>3 DEF Cks
  <2>5. proc'.ck = c /\ proc'.pc = proc.pc /\ proc'.up = proc.up
    BY <1>1, <2>1, <2>3 DEF Procs
  <2>6. Backing' => Backing
    BY <2>1, <2>4, <2>5 DEF Backing
  <2> QED BY <1>2, <2>1, <2>2, <2>4, <2>5, <2>6
<1>5. CopiesInv'
  BY <1>2, <1>3, <1>4, KeepCopies DEF CasesInv
<1>6. StopInv'
  BY <1>1, <1>2, <1>4, KeepStop DEF CasesInv
<1>7. DerivedInv'
  BY <1>3, <1>4, OutsideOpening DEF CasesInv, DerivedInv
<1> QED BY <1>5, <1>6, <1>7

\* A deletion after the publication spares the pinned checkpoint.
LEMMA CleanCases ==
  ASSUME CasesInv, CleanAfterPublication
  PROVE  CopiesInv' /\ StopInv' /\ DerivedInv'
<1>1. proc \in Procs /\ store \in Stores /\ faults \in Nat
  BY DEF CasesInv, DurableInv, DurableTypes, StopInv
<1>2. /\ proc.up /\ UNCHANGED <<proc, pin, xfer, rem, target, died, deaths, faults>>
      /\ proc.ck # None /\ proc.ck.at = "cleaning" /\ store' = CleanNext
  BY DEF CleanAfterPublication, Transfers, Counters
<1>3. store'.cat = store.cat /\ \A c \in store.cps : c.gen = pin => c \in store'.cps
  <2>1. CASE Doomed # {} \/ store.stage # {}
    <3>1. store' = [store EXCEPT !.cps = store.cps \ Doomed, !.stage = {}]
      BY <1>2, <2>1 DEF CleanNext
    <3>2. store'.cps = store.cps \ Doomed /\ store'.cat = store.cat
      BY <1>1, <3>1 DEF Stores
    <3> QED BY <3>2 DEF Doomed
  <2>2. CASE ~(Doomed # {} \/ store.stage # {})
    <3>1. \E u : store' = [store EXCEPT !.wal = u]
      BY <1>2, <2>2 DEF CleanNext, WithoutWal
    <3> QED BY <1>1, <3>1 DEF Stores
  <2> QED BY <2>1, <2>2
<1>4. CopiesInv'
  <2>1. Backing' => Backing
    BY <1>2 DEF Backing
  <2> QED BY <1>2, <1>3, <2>1, KeepCopies DEF CasesInv
<1>5. StopInv'
  BY <1>1, <1>2, KeepStop DEF CasesInv
<1>6. proc.pc # "opening" /\ proc.pc \notin Cuts
  BY <1>2 DEF CasesInv, DerivedInv
<1>7. DerivedInv'
  BY <1>2, <1>3, <1>6, OutsideOpening DEF CasesInv, DerivedInv
<1> QED BY <1>4, <1>5, <1>7

\* The end of an ordinary checkpoint, its refresh, and its failures.
LEMMA RefreshCases ==
  ASSUME CasesInv,
         \/ (FinishPublication \/ CleanupFails) /\ ~proc.ck.backup
         \/ WriteComponent \/ PublishCatalog \/ CheckpointFails
  PROVE  CopiesInv' /\ StopInv' /\ DerivedInv'
<1>1. proc \in Procs /\ store \in Stores /\ faults \in Nat /\ proc.ck # None /\ proc.ck \in Cks
  <2>1. proc.ck # None
    BY DEF FinishPublication, CleanupFails, WriteComponent, PublishCatalog, CheckpointFails
  <2> QED BY <2>1, StateTypes DEF CasesInv, DurableInv, DurableTypes, StopInv
<1>2. /\ proc.up /\ UNCHANGED <<pin, xfer, rem, target, died, deaths>>
      /\ faults' \in {faults, faults + 1}
  BY DEF FinishPublication, CleanupFails, AfterPublication, WriteComponent, PublishCatalog,
         CheckpointFails, Transfers, Counters
<1>3. store'.man = store.man /\ store'.minor = store.minor /\ store'.cps = store.cps
  <2>1. CASE PublishCatalog
    BY <1>1, <2>1 DEF PublishCatalog, Stores
  <2>2. CASE ~PublishCatalog
    BY <2>2 DEF FinishPublication, CleanupFails, AfterPublication, WriteComponent, CheckpointFails
  <2> QED BY <2>1, <2>2
<1>4. /\ proc'.up /\ proc'.pc = proc.pc
      /\ proc'.ck # None => /\ proc'.ck.backup = proc.ck.backup /\ proc'.ck.at = "refresh"
                            /\ proc'.ck.gen = proc.ck.gen
  <2>1. CASE \E c : c.at = "refresh" /\ c.gen = proc.ck.gen /\ c.backup = proc.ck.backup
                    /\ proc' = [proc EXCEPT !.ck = c]
    BY <1>1, <1>2, <2>1 DEF Procs
  <2>2. CASE \E t : proc' = [proc EXCEPT !.ck = None, !.terminal = t]
    BY <1>1, <1>2, <2>2 DEF Procs
  <2>3. CASE proc' = [proc EXCEPT !.ck = None]
    BY <1>1, <1>2, <2>3 DEF Procs
  <2>4. CASE proc' = [proc EXCEPT !.ck.at = "refresh"]
    <3>1. PICK c : c = [proc.ck EXCEPT !.at = "refresh"]
      OBVIOUS
    <3>2. c.at = "refresh" /\ c.gen = proc.ck.gen /\ c.backup = proc.ck.backup
      BY <1>1, <3>1 DEF Cks
    <3>3. proc' = [proc EXCEPT !.ck = c]
      BY <1>1, <2>4, <3>1 DEF Procs
    <3> QED BY <2>1, <3>2, <3>3
  <2>5. CASE WriteComponent
    <3>1. PICK c : c = [proc.ck EXCEPT !.n = proc.ck.n + 1]
      OBVIOUS
    <3>2. c.at = "refresh" /\ c.gen = proc.ck.gen /\ c.backup = proc.ck.backup
      BY <1>1, <2>5, <3>1 DEF Cks, WriteComponent
    <3>3. proc' = [proc EXCEPT !.ck = c]
      BY <1>1, <2>5, <3>1 DEF Procs, WriteComponent
    <3> QED BY <2>1, <3>2, <3>3
  <2> QED BY <2>2, <2>3, <2>4, <2>5 DEF FinishPublication, CleanupFails, AfterPublication,
                                        PublishCatalog, CheckpointFails
<1>5. CopiesInv'
  <2>1. \A c \in store.cps : c.gen = pin => c \in store'.cps
    BY <1>3
  <2>2. Backing' => Backing
    BY <1>1, <1>4 DEF Backing
  <2> QED BY <1>2, <1>4, <2>1, <2>2, KeepCopies DEF CasesInv
<1>6. StopInv'
  BY <1>1, <1>2, <1>4, KeepStop DEF CasesInv
<1>11. proc'.pc \notin Cuts
  BY <1>1, <1>4 DEF CasesInv, DerivedInv
<1>7. CASE (FinishPublication \/ CleanupFails) /\ ~proc.ck.backup
  <2>1. proc.ck.at = "cleaning" /\ store' = store /\ proc.pc # "opening" /\ store.man = Ck
    BY <1>1, <1>7 DEF FinishPublication, CleanupFails, AfterPublication, CasesInv, DerivedInv,
                      DurableInv, Publishing
  <2>2. store.man # None /\ store.man.gen = proc.ck.gen
    BY <1>1, <2>1, CkPoint DEF CasesInv, DurableInv
  <2>3. Derived(store') # "PARTIAL"
    BY <2>1, NeverPartial DEF CasesInv, DerivedInv
  <2>4. DerivedInv'
    BY <1>4, <1>11, <2>1, <2>2, <2>3 DEF CasesInv, DerivedInv, DerivedCase
  <2> QED BY <1>5, <1>6, <2>4
<1>8. CASE WriteComponent
  <2>1. proc.ck.at = "refresh" /\ store' = store /\ proc' = [proc EXCEPT !.ck.n = proc.ck.n + 1]
    BY <1>8 DEF WriteComponent
  <2>2. proc'.ck # None
    <3>1. PICK c : c = [proc.ck EXCEPT !.n = proc.ck.n + 1]
      OBVIOUS
    <3>2. c \in [at : {"refresh"}, seq : Nat, gen : Nat, backup : BOOLEAN, n : Nat]
      BY <1>1, <2>1, <3>1 DEF Cks
    <3>3. proc'.ck = c
      BY <1>1, <2>1, <3>1 DEF Procs
    <3> QED BY <3>2, <3>3, DurableBounds
  <2>3. Derived(store') # "PARTIAL"
    BY <2>1, NeverPartial DEF CasesInv, DerivedInv
  <2>4. DerivedInv'
    BY <1>1, <1>4, <1>11, <2>1, <2>2, <2>3 DEF CasesInv, DerivedInv, DerivedCase
  <2> QED BY <1>5, <1>6, <2>4
<1>9. CASE PublishCatalog
  <2>1. PICK c : c = [gen |-> proc.ck.gen, n |-> proc.ck.n]
    OBVIOUS
  <2>2. /\ proc.ck.at = "refresh" /\ proc.ck.n = Components /\ store' = [store EXCEPT !.cat = c]
        /\ proc' = [proc EXCEPT !.ck = None] /\ faults' = faults
    BY <1>9, <2>1 DEF PublishCatalog, Counters
  <2>3. c \in [gen : Nat, n : Nat] /\ c.n = Components /\ c.gen = proc.ck.gen /\ c # None
    <3>1. c \in [gen : Nat, n : Nat] /\ c.n = Components /\ c.gen = proc.ck.gen
      BY <1>1, <2>1, <2>2 DEF Cks
    <3> QED BY <3>1, DurableBounds
  <2>4. store'.cat = c /\ proc'.ck = None
    BY <1>1, <2>2 DEF Stores, Procs
  <2>5. store.man # None /\ proc.ck.gen = store.man.gen
    BY <1>1, <2>2 DEF CasesInv, DerivedInv
  <2>6. store'.minor = 2 => Derived(store') = "VALID"
    <3>1. Components \in Nat
      BY DurableBounds
    <3> QED BY <1>3, <2>3, <2>4, <2>5, <3>1 DEF Derived
  <2>7. Derived(store') # "PARTIAL"
    BY <2>3, <2>4, NeverPartial
  <2>8. DerivedInv'
    BY <1>3, <1>4, <2>3, <2>4, <2>6, <2>7 DEF DerivedInv, DerivedCase
  <2> QED BY <1>5, <1>6, <2>8
<1>10. CASE CheckpointFails
  <2>1. store' = store /\ faults' # 0 /\ proc'.ck = None
    <3>1. store' = store /\ faults' = faults + 1
      BY <1>10 DEF CheckpointFails
    <3>2. \E t : proc' = [proc EXCEPT !.ck = None, !.terminal = t]
      BY <1>10 DEF CheckpointFails
    <3> QED BY <1>1, <3>1, <3>2 DEF Procs
  <2>2. Derived(store') # "PARTIAL"
    BY <2>1, NeverPartial DEF CasesInv, DerivedInv
  <2>3. DerivedInv'
    BY <2>1, <2>2 DEF CasesInv, DerivedInv, DerivedCase
  <2> QED BY <1>5, <1>6, <2>3
<1> QED BY <1>7, <1>8, <1>9, <1>10

\* A backup starts with its checkpoint pinned.
LEMMA BackupStarts ==
  ASSUME CasesInv, FinishPublication \/ CleanupFails, proc.ck.backup
  PROVE  CopiesInv' /\ StopInv' /\ DerivedInv'
<1>1. /\ proc \in Procs /\ store \in Stores /\ faults \in Nat /\ proc.up /\ proc.ck # None
      /\ proc.ck \in Cks /\ proc.ck.at = "cleaning"
  BY StateTypes DEF FinishPublication, CleanupFails, CasesInv, DurableInv, DurableTypes, StopInv
<1>2. PICK x : x = [kind |-> "backup", at |-> 1, seq |-> proc.ck.seq, gen |-> proc.ck.gen]
  OBVIOUS
<1>3. /\ pin' = proc.ck.gen /\ xfer' = x /\ proc' = [proc EXCEPT !.ck = None]
      /\ UNCHANGED <<store, rem, target, died, deaths>> /\ faults' \in {faults, faults + 1}
  BY <1>2 DEF FinishPublication, CleanupFails, AfterPublication
<1>4. proc'.up /\ proc'.ck = None /\ proc'.pc = proc.pc
  BY <1>1, <1>3 DEF Procs
<1>5. NoBackupYet /\ died = None
  BY <1>1, Running DEF CasesInv, CopiesInv, Backing
<1>6. "backup" \in Kinds /\ proc.pc # "opening" /\ proc.pc \notin Cuts
  BY <1>1 DEF Kinds, CasesInv, DerivedInv
<1>14. ~Backing'
  BY <1>4, <1>6 DEF Backing, Cuts
<1>7. /\ x \in Xfers /\ x.kind = "backup" /\ x.at = 1 /\ x.seq = proc.ck.seq /\ x.gen = proc.ck.gen
  BY <1>1, <1>2, <1>6 DEF Xfers, Cks
<1>8. 1 \in 1..Len(Steps("backup")) /\ Steps("backup")[1] = "marker"
  BY <1>6, FirstStep
<1>9. CopyInv(xfer)'
  <2>1. rem'["backup"] = NoRemnant /\ target'["backup"] = None
    BY <1>3, <1>5 DEF NoBackupYet
  <2>2. StagedBefore(rem'["backup"], "backup", "marker", x.seq)
    BY <2>1 DEF StagedBefore
  <2> QED BY <1>3, <1>7, <1>8, <2>1, <2>2 DEF CopyInv
<1>10. PinHeld(xfer)'
  <2>1. store.man = Ck /\ store.man # None /\ store.man \in store.cps
    BY <1>1, CkPoint DEF CasesInv, DurableInv, Publishing, Bound
  <2> QED BY <1>3, <1>7, <2>1 DEF PinHeld, Ck
<1>11. CopiesInv'
  <2>1. CleanupCase' /\ (target'["backup"] # None => Whole("backup", target["backup"].seq)')
    BY <1>3 DEF CasesInv, CopiesInv, CleanupCase, Whole
  <2>2. rem' \in [Kinds -> Remnants] /\ target' \in [Kinds -> Bundles \cup {None}]
    BY <1>3 DEF CasesInv, CopiesInv
  <2>3. xfer'.kind = "backup" /\ died' = None
    BY <1>3, <1>5, <1>7
  <2> QED BY <1>4, <1>9, <1>10, <1>14, <2>1, <2>2, <2>3 DEF CopiesInv
<1>12. StopInv'
  BY <1>1, <1>3, <1>4, KeepStop DEF CasesInv
<1>13. DerivedInv'
  BY <1>3, <1>4, <1>6, OutsideOpening DEF CasesInv, DerivedInv
<1> QED BY <1>11, <1>12, <1>13

-----------------------------------------------------------------------------
(* Death, recovery, and the steps of the copies *)

\* A copy that stays where it is while the files do not change.
LEMMA SameCopy ==
  ASSUME NEW x, CopyInv(x), rem' = rem, target' = target, store' = store
  PROVE  CopyInv(x)'
  BY DEF CopyInv, Whole

\* What is published and what is left stay as they are.
LEMMA SameTargets ==
  ASSUME CopiesInv, rem' = rem, target' = target
  PROVE  /\ rem' \in [Kinds -> Remnants] /\ target' \in [Kinds -> Bundles \cup {None}]
         /\ CleanupCase' /\ (target'["backup"] # None => Whole("backup", target["backup"].seq)')
  BY DEF CopiesInv, CleanupCase, Whole

\* The process dies, or closes with nothing in flight.
LEMMA StopCases ==
  ASSUME CasesInv, Crash \/ Close
  PROVE  CopiesInv' /\ StopInv' /\ DerivedInv'
<1>1. /\ proc \in Procs /\ proc.up /\ proc' = [proc EXCEPT !.up = FALSE]
      /\ UNCHANGED <<store, rem, target, faults>> /\ xfer' = None
      /\ deaths \in Nat /\ faults \in Nat
  BY DEF Crash, Close, Transfers, Counters, CasesInv, DurableInv, DurableTypes, StopInv
<1>2. ~proc'.up /\ proc'.ck = proc.ck /\ proc'.pc = proc.pc
  BY <1>1 DEF Procs
<1>3. DerivedInv'
  BY <1>1, <1>2, KeepDerived DEF CasesInv
<1>4. CASE Crash
  <2>1. died' = [xfer |-> xfer] /\ deaths' = deaths + 1
    BY <1>4 DEF Crash
  <2>2. died'.xfer = xfer
    BY <2>1
  <2>3. died'.xfer # None => CopyInv(died.xfer)'
    <3> SUFFICES ASSUME xfer # None PROVE CopyInv(died.xfer)'
      BY <2>2
    <3>1. PICK x : x = xfer
      OBVIOUS
    <3>2. CopyInv(x)'
      BY <1>1, <3>1, SameCopy DEF CasesInv, CopiesInv
    <3> QED BY <2>2, <3>1, <3>2
  <2>4. CopiesInv'
    BY <1>1, <1>2, <2>3, SameTargets DEF CasesInv, CopiesInv
  <2>5. StopInv'
    BY <1>1, <2>1 DEF StopInv
  <2> QED BY <1>3, <2>4, <2>5
<1>5. CASE Close
  <2>1. died' = died /\ deaths' = deaths /\ proc.pc = "idle"
    BY <1>5 DEF Close, Counters
  <2>2. died' = None
    BY <1>1, <2>1, Running DEF CasesInv
  <2>3. CopiesInv'
    BY <1>1, <1>2, <2>2, SameTargets DEF CasesInv, CopiesInv
  <2>4. StopInv'
    BY <1>1, <1>2, <2>1 DEF StopInv
  <2> QED BY <1>3, <2>3, <2>4
<1> QED BY <1>4, <1>5

\* The next process finds a derived image that is current, or refreshes it.
LEMMA RecoverCases ==
  ASSUME CasesInv, Recover
  PROVE  CopiesInv' /\ StopInv' /\ DerivedInv'
<1>1. /\ store \in Stores /\ deaths \in Nat /\ faults \in Nat
      /\ UNCHANGED <<pin, rem, target, xfer, deaths, faults>> /\ xfer = None /\ died' = None
  BY DEF Recover, Transfers, CasesInv, DurableInv, DurableTypes, StopInv
<1>2. PICK c : c = IF Derived(store) \in {"ABSENT", "STALE", "PARTIAL"} /\ store.man # None
                   THEN [at |-> "refresh", seq |-> store.man.seq, gen |-> store.man.gen,
                         backup |-> FALSE, n |-> 0]
                   ELSE None
  OBVIOUS
<1>3. /\ store' = [store EXCEPT !.wal[Newest(store)].tail = "none"]
      /\ proc' = [Idle(Replayed(store)) EXCEPT !.pc = "opening", !.ck = c]
  BY <1>2 DEF Recover
<1>4. store'.man = store.man /\ store'.cat = store.cat /\ store'.minor = store.minor
  <2>1. \E u : store' = [store EXCEPT !.wal = u]
    BY <1>1, <1>3 DEF Stores
  <2> QED BY <1>1, <2>1 DEF Stores
<1>5. proc'.up /\ proc'.pc = "opening" /\ proc'.ck = c
  BY <1>3 DEF Idle
<1>6. c # None => c.at = "refresh" /\ ~c.backup /\ store.man # None /\ c.gen = store.man.gen
  BY <1>2
<1>7. c = None => store.man = None \/ Derived(store) \in {"NOT_APPLICABLE", "VALID"}
  <2>1. store.man # None => [at |-> "refresh", seq |-> store.man.seq, gen |-> store.man.gen,
                             backup |-> FALSE, n |-> 0] # None
    <3>1. store.man # None => store.man.seq \in Nat /\ store.man.gen \in Nat
      BY StateTypes DEF CasesInv, DurableInv, Points
    <3>2. store.man # None => [at |-> "refresh", seq |-> store.man.seq, gen |-> store.man.gen,
                               backup |-> FALSE, n |-> 0]
                                \in [at : {"refresh"}, seq : Nat, gen : Nat, backup : BOOLEAN, n : Nat]
      BY <3>1
    <3> QED BY <3>2, DurableBounds
  <2>2. Derived(store) \in {"NOT_APPLICABLE", "ABSENT", "STALE", "PARTIAL", "VALID"}
    BY DEF Derived
  <2> QED BY <1>2, <2>1, <2>2
<1>8. Derived(store') = Derived(store)
  BY <1>4 DEF Derived
<1>9. Derived(store) = "NOT_APPLICABLE" => store.minor # 2
  BY DEF Derived
<1>10. DerivedInv'
  BY <1>4, <1>5, <1>6, <1>7, <1>8, <1>9 DEF CasesInv, DerivedInv, DerivedCase, Cuts
<1>11. StopInv'
  BY <1>1, <1>5, KeepStop DEF CasesInv
<1>12. CopiesInv'
  <2>1. ~Backing'
    BY <1>5, <1>6 DEF Backing
  <2> QED BY <1>1, <1>5, <2>1, SameTargets DEF CasesInv, CopiesInv
<1> QED BY <1>10, <1>11, <1>12

\* The steps of the copies leave the files and the process alone.
LEMMA BesideProcess ==
  ASSUME CasesInv, UNCHANGED <<store, proc>>, faults' \in {faults, faults + 1},
         deaths' \in {deaths, deaths + 1}
  PROVE  StopInv' /\ DerivedInv'
<1>1. deaths \in Nat /\ faults \in Nat /\ StopInv
  BY DEF CasesInv, StopInv
<1>2. /\ faults' \in Nat /\ deaths' \in Nat
      /\ (faults' = 0 => faults = 0) /\ (deaths' = 0 => deaths = 0)
  BY <1>1
<1>3. StopInv'
  BY <1>1, <1>2 DEF StopInv
<1>4. DerivedInv'
  BY <1>2, KeepDerived DEF CasesInv
<1> QED BY <1>3, <1>4

\* One remnant or one target changes: what the cleanup needs of that kind is enough.
LEMMA OneRemnant ==
  ASSUME CopiesInv, NEW k \in Kinds, NEW r \in Remnants, rem' = [rem EXCEPT ![k] = r],
         (r.dir \/ r.members # {}) => r.marker,
         ~(r.dir /\ target'[k] # None), \A j \in Kinds : j # k => target'[j] = target[j]
  PROVE  rem' \in [Kinds -> Remnants] /\ rem'[k] = r /\ CleanupCase'
<1>1. rem \in [Kinds -> Remnants] /\ CleanupCase
  BY DEF CopiesInv
<1>2. rem' \in [Kinds -> Remnants] /\ rem'[k] = r /\ \A j \in Kinds : j # k => rem'[j] = rem[j]
  BY <1>1
<1>3. CleanupCase'
  BY <1>1, <1>2 DEF CleanupCase
<1> QED BY <1>2, <1>3

\* A copy takes a step.
LEMMA CopyStepCases ==
  ASSUME CasesInv, CopyStep
  PROVE  CopiesInv'
<1>1. PICK k, step, at, seq : k = xfer.kind /\ at = xfer.at /\ step = Steps(k)[at] /\ seq = xfer.seq
  OBVIOUS
<1>2. /\ xfer # None /\ CopyInv(xfer) /\ (k = "backup" <=> proc.up) /\ died = None
      /\ (k = "backup" => PinHeld(xfer))
      /\ rem \in [Kinds -> Remnants] /\ target \in [Kinds -> Bundles \cup {None}]
      /\ ~(proc.up /\ Backing)
  BY <1>1 DEF CopyStep, CasesInv, CopiesInv, NoBackupYet
<1>3. /\ k \in Kinds /\ xfer \in Xfers /\ at \in 1..Len(Steps(k)) /\ seq \in Nat /\ at \in Nat
      /\ StagedBefore(rem[k], k, step, seq) /\ step \in StepNames
      /\ (step = "unmark" => Whole(k, seq)) /\ (step # "unmark" => target[k] = None)
      /\ (k = "restore" => Whole("backup", seq)) /\ (k = "migration" => seq = Replayed(store))
  BY <1>1, <1>2, StepTable DEF CopyInv, Xfers
<1>4. /\ rem' = [rem EXCEPT ![k] = Staged(rem[k], step, seq)]
      /\ target' = (IF step = "publish" THEN [target EXCEPT ![k] = Bundle(rem[k])] ELSE target)
      /\ xfer' = (IF at = Len(Steps(k)) THEN None ELSE [xfer EXCEPT !.at = at + 1])
      /\ pin' = (IF at = Len(Steps(k)) THEN None ELSE pin)
      /\ UNCHANGED <<store, proc, died>>
  BY <1>1 DEF CopyStep, Counters
<1>5. CASE step = "unmark"
  <2>1. Staged(rem[k], step, seq) = NoRemnant /\ xfer' = None /\ target' = target
    <3>1. at = Len(Steps(k))
      BY <1>1, <1>3, <1>5, StepTable
    <3>2. Staged(rem[k], "unmark", seq) = NoRemnant
      BY <1>3, <1>5, StageLast
    <3> QED BY <1>4, <1>5, <3>1, <3>2
  <2>2. NoRemnant \in Remnants /\ ~NoRemnant.dir /\ NoRemnant.members = {}
    BY DEF NoRemnant, Remnants
  <2>3. rem' \in [Kinds -> Remnants] /\ CleanupCase'
    BY <1>3, <1>4, <2>1, <2>2, OneRemnant DEF CasesInv
  <2>4. target'["backup"] # None => Whole("backup", target["backup"].seq)'
    BY <2>1 DEF CasesInv, CopiesInv, Whole
  <2> QED BY <1>2, <1>4, <2>1, <2>3, <2>4 DEF CopiesInv, Backing
<1>6. CASE step # "unmark"
  <2>1. PICK t : t = Steps(k)[at + 1]
    OBVIOUS
  <2>2. /\ at # Len(Steps(k)) /\ at + 1 \in 1..Len(Steps(k)) /\ Follows(k, step, t)
        /\ (k = "backup" => step # "wal") /\ at + 1 \in Nat
    BY <1>1, <1>3, <1>6, <2>1, StepTable
  <2>3. t \in StepNames /\ (t = "unmark" <=> step = "publish")
    <3>1. t \in StepNames
      BY <1>3, <2>1, <2>2, StepTable
    <3> QED BY <1>3, <1>6, <2>2, <3>1 DEF Follows, StepNames
  <2>4. PICK r : r = Staged(rem[k], step, seq)
    OBVIOUS
  <2>5. StagedBefore(r, k, t, seq)
    BY <1>3, <1>6, <2>2, <2>3, <2>4, StageNext
  <2>6. r \in Remnants /\ ((r.dir \/ r.members # {}) => r.marker) /\ (t = "unmark" => ~r.dir)
    BY <1>3, <2>3, <2>5, StagedIs
  <2>7. /\ target' \in [Kinds -> Bundles \cup {None}]
        /\ \A j \in Kinds : j # k => target'[j] = target[j]
        /\ step = "publish" => Whole(k, seq)'
        /\ step # "publish" => target'[k] = None
    <3>1. CASE step = "publish"
      <4>1. rem[k] = Staging(MembersOf(k), seq, Payloads(k))
        BY <1>3, <3>1 DEF StagedBefore
      <4>2. PICK b : b = [minor |-> store.minor, seq |-> seq, members |-> MembersOf(k),
                          listed |-> Payloads(k)]
        OBVIOUS
      <4>3. Bundle(rem[k]) = b
        BY <4>1, <4>2 DEF Bundle, Staging
      <4>4. store.minor \in 0..2
        BY DEF CasesInv, DurableInv, DurableTypes, Stores
      <4>5. /\ b \in Bundles /\ b.minor = store.minor /\ b.seq = seq /\ b.members = MembersOf(k)
            /\ b.listed = Payloads(k)
        BY <1>3, <4>2, <4>4, MembersAre DEF Bundles
      <4>6. b # None
        BY <4>5, DurableBounds DEF Bundles
      <4>7. target' = [target EXCEPT ![k] = b]
        BY <1>4, <3>1, <4>3
      <4>8. target'[k] = b /\ \A j \in Kinds : j # k => target'[j] = target[j]
        BY <1>2, <1>3, <4>7
      <4>9. target' \in [Kinds -> Bundles \cup {None}]
        BY <1>2, <1>3, <4>5, <4>7
      <4> QED BY <3>1, <4>4, <4>5, <4>6, <4>8, <4>9 DEF Whole
    <3>2. CASE step # "publish"
      BY <1>2, <1>3, <1>4, <1>6, <3>2
    <3> QED BY <3>1, <3>2
  <2>8. rem' \in [Kinds -> Remnants] /\ rem'[k] = r /\ CleanupCase'
    <3>1. ~(r.dir /\ target'[k] # None)
      BY <2>3, <2>6, <2>7
    <3> QED BY <1>3, <1>4, <2>4, <2>6, <2>7, <3>1, OneRemnant DEF CasesInv
  <2>9. "backup" \in Kinds /\ (k # "backup" => target'["backup"] = target["backup"])
    BY <2>7 DEF Kinds
  <2>10. target'["backup"] # None => Whole("backup", target["backup"].seq)'
    <3>1. CASE k = "backup"
      BY <2>7, <3>1 DEF Whole
    <3>2. CASE k # "backup"
      BY <2>9, <3>2 DEF CasesInv, CopiesInv, Whole
    <3> QED BY <3>1, <3>2
  <2>11. /\ xfer' \in Xfers /\ xfer'.kind = k /\ xfer'.at = at + 1 /\ xfer'.seq = seq
         /\ xfer'.gen = xfer.gen
    <3>1. xfer' = [xfer EXCEPT !.at = at + 1]
      BY <1>4, <2>2
    <3> QED BY <1>1, <1>3, <2>2, <3>1 DEF Xfers
  <2>12. CopyInv(xfer)'
    <3>1. k = "restore" => Whole("backup", seq)'
      BY <1>3, <2>9 DEF Whole
    <3>2. k = "migration" => seq = Replayed(store')
      BY <1>3, <1>4
    <3>3. StagedBefore(rem'[k], k, Steps(k)[at + 1], seq)
      BY <2>1, <2>5, <2>8
    <3>4. /\ Steps(k)[at + 1] = "unmark" => Whole(k, seq)'
          /\ Steps(k)[at + 1] # "unmark" => target'[k] = None
      BY <2>1, <2>3, <2>7
    <3> QED BY <2>2, <2>11, <3>1, <3>2, <3>3, <3>4 DEF CopyInv, Whole
  <2>13. k = "backup" => PinHeld(xfer)'
    BY <1>1, <1>2, <1>4, <2>2, <2>11 DEF PinHeld
  <2> QED BY <1>2, <1>4, <2>7, <2>8, <2>10, <2>11, <2>12, <2>13 DEF CopiesInv, Backing
<1> QED BY <1>5, <1>6

\* A copy that fails leaves nothing, or a published target.
LEMMA CopyFailsCases ==
  ASSUME CasesInv, CopyFails
  PROVE  CopiesInv'
<1>1. PICK k : k = xfer.kind
  OBVIOUS
<1>2. /\ xfer # None /\ xfer' = None /\ target' = target /\ store' = store /\ proc' = proc
      /\ died' = died /\ (rem' = rem \/ rem' = [rem EXCEPT ![k] = NoRemnant])
  BY <1>1 DEF CopyFails
<1>3. /\ k \in Kinds /\ died = None /\ ~(proc.up /\ Backing)
      /\ target \in [Kinds -> Bundles \cup {None}]
  BY <1>1, <1>2 DEF CasesInv, CopiesInv, CopyInv, Xfers, NoBackupYet
<1>4. NoRemnant \in Remnants /\ ~NoRemnant.dir /\ NoRemnant.members = {}
  BY DEF NoRemnant, Remnants
<1>5. rem' \in [Kinds -> Remnants] /\ CleanupCase'
  <2>1. CASE rem' = rem
    BY <1>2, <2>1, SameTargets DEF CasesInv
  <2>2. CASE rem' = [rem EXCEPT ![k] = NoRemnant]
    BY <1>2, <1>3, <1>4, <2>2, OneRemnant DEF CasesInv
  <2> QED BY <1>2, <2>1, <2>2
<1>6. target'["backup"] # None => Whole("backup", target["backup"].seq)'
  BY <1>2 DEF CasesInv, CopiesInv, Whole
<1> QED BY <1>2, <1>3, <1>5, <1>6 DEF CopiesInv, Backing

\* A restore or a migration begins on a store no process owns.
LEMMA BeginCases ==
  ASSUME CasesInv, NEW k \in Kinds, Begin(k)
  PROVE  CopiesInv'
<1>1. PICK q : q = IF k = "restore" THEN target["backup"].seq ELSE Replayed(store)
  OBVIOUS
<1>2. /\ k \in {"restore", "migration"} /\ ~proc.up /\ rem[k] = NoRemnant /\ target[k] = None
      /\ (k = "restore" => target["backup"] # None)
      /\ xfer' = [kind |-> k, at |-> 1, gen |-> 0, seq |-> q] /\ died' = None
      /\ UNCHANGED <<store, proc, pin, rem, target>>
  BY <1>1 DEF Begin, NoToolYet
<1>3. q \in Nat
  <2>1. CASE k = "restore"
    <3>1. target["backup"] \in Bundles \cup {None} /\ target["backup"] # None
      BY <1>2, <2>1 DEF CasesInv, CopiesInv, Kinds
    <3> QED BY <1>1, <2>1, <3>1 DEF Bundles
  <2>2. CASE k # "restore"
    <3>1. PICK lo, hi \in Nat : Chain(store.wal, lo, hi) /\ Written(hi)
      BY DEF CasesInv, DurableInv
    <3>2. LastSeq(store.wal[hi]) \in Nat
      BY <3>1, StateTypes, ChainEnds, GenParts DEF CasesInv, DurableInv
    <3>3. LastSeq(store.wal[hi]) <= MaxSeq
      BY <3>1, <3>2, StateTypes, DurableBounds DEF Written, CasesInv, DurableInv
    <3> QED BY <1>1, <2>2, <3>1, <3>2, <3>3, PrefixOf DEF CasesInv, DurableInv
  <2> QED BY <2>1, <2>2
<1>4. /\ xfer' \in Xfers /\ xfer'.kind = k /\ xfer'.at = 1 /\ xfer'.seq = q
  BY <1>2, <1>3 DEF Xfers
<1>5. 1 \in 1..Len(Steps(k)) /\ Steps(k)[1] = "marker"
  BY FirstStep
<1>6. CopyInv(xfer)'
  <2>1. StagedBefore(rem'[k], k, "marker", q)
    BY <1>2 DEF StagedBefore
  <2>2. k = "restore" => Whole("backup", q)'
    BY <1>1, <1>2 DEF CasesInv, CopiesInv, Whole
  <2>3. k = "migration" => q = Replayed(store')
    BY <1>1, <1>2
  <2> QED BY <1>2, <1>4, <1>5, <2>1, <2>2, <2>3 DEF CopyInv, Whole
<1>7. k # "backup"
  BY <1>2
<1> QED BY <1>2, <1>4, <1>6, <1>7, SameTargets DEF CasesInv, CopiesInv

\* The tool dies: its copy stays as it was.
LEMMA ToolCrashCases ==
  ASSUME CasesInv, ToolCrash
  PROVE  CopiesInv'
<1>1. /\ xfer # None /\ xfer.kind # "backup" /\ died' = [xfer |-> xfer] /\ xfer' = None
      /\ UNCHANGED <<store, proc, pin, rem, target>>
  BY DEF ToolCrash
<1>2. ~proc.up /\ CopyInv(xfer) /\ died'.xfer = xfer
  BY <1>1 DEF CasesInv, CopiesInv
<1>3. CopyInv(died.xfer)'
  <2>1. PICK x : x = xfer
    OBVIOUS
  <2>2. CopyInv(x)'
    BY <1>1, <1>2, <2>1, SameCopy
  <2> QED BY <1>2, <2>1, <2>2
<1> QED BY <1>1, <1>2, <1>3, SameTargets DEF CasesInv, CopiesInv

\* One deletion of the cleanup: the marker goes last.
LEMMA CleanRemnantCases ==
  ASSUME CasesInv, NEW k \in Kinds, CleanRemnant(k)
  PROVE  CopiesInv'
<1>1. /\ ~proc.up /\ xfer' = None /\ rem[k].marker /\ ~(rem[k].dir /\ target[k] # None)
      /\ rem' = [rem EXCEPT ![k] = Remaining(rem[k])] /\ died' = None
      /\ UNCHANGED <<store, proc, pin, target>>
  BY DEF CleanRemnant
<1>2. PICK r : r = rem[k]
  OBVIOUS
<1>3. r \in Remnants /\ r.marker /\ ~(r.dir /\ target[k] # None)
  BY <1>1, <1>2 DEF CasesInv, CopiesInv
<1>4. /\ Remaining(r) \in Remnants
      /\ (Remaining(r).dir \/ Remaining(r).members # {}) => Remaining(r).marker
      /\ ~(Remaining(r).dir /\ target[k] # None)
  <2>1. CASE r.members # {}
    <3>1. PICK e : e = r.members \ {CHOOSE m \in r.members : TRUE}
      OBVIOUS
    <3>2. e \in SUBSET MemberNames
      BY <1>3, <3>1 DEF Remnants
    <3>3. Remaining(r) = [r EXCEPT !.members = e]
      BY <2>1, <3>1 DEF Remaining
    <3> QED BY <1>3, <3>2, <3>3 DEF Remnants
  <2>2. CASE r.members = {} /\ r.dir
    <3>1. Remaining(r) = [r EXCEPT !.dir = FALSE]
      BY <2>2 DEF Remaining
    <3> QED BY <1>3, <3>1 DEF Remnants
  <2>3. CASE r.members = {} /\ ~r.dir
    <3>1. Remaining(r) = [r EXCEPT !.marker = FALSE]
      BY <2>3 DEF Remaining
    <3> QED BY <1>3, <2>3, <3>1 DEF Remnants
  <2> QED BY <2>1, <2>2, <2>3
<1>5. rem' \in [Kinds -> Remnants] /\ CleanupCase'
  BY <1>1, <1>2, <1>4, OneRemnant DEF CasesInv
<1>6. target'["backup"] # None => Whole("backup", target["backup"].seq)'
  BY <1>1 DEF CasesInv, CopiesInv, Whole
<1> QED BY <1>1, <1>5, <1>6 DEF CasesInv, CopiesInv

-----------------------------------------------------------------------------
(* Every verdict is PASS *)

\* The invariant holds at the start.
LEMMA InitCases == DInit => CasesInv
<1> SUFFICES ASSUME DInit PROVE CasesInv
  OBVIOUS
<1>1. DurableInv
  BY InitDurable
<1>2. PICK minor \in Minors : store = EmptyStore(minor)
  BY DEF DInit
<1>3. store.cat = None /\ store.man = None
  BY <1>2 DEF EmptyStore
<1>4. proc.up /\ proc.ck = None /\ proc.pc = "idle"
  BY DEF DInit, Idle
<1>5. NoRemnant \in Remnants /\ ~NoRemnant.dir /\ NoRemnant.members = {}
  BY DEF NoRemnant, Remnants
<1>6. /\ rem = [k \in Kinds |-> NoRemnant] /\ target = [k \in Kinds |-> None]
      /\ xfer = None /\ died = None /\ deaths = 0 /\ faults = 0 /\ "backup" \in Kinds
  BY DEF DInit, Kinds
<1>7. CopiesInv
  BY <1>4, <1>5, <1>6 DEF CopiesInv, CleanupCase, Backing
<1>8. StopInv
  BY <1>4, <1>6 DEF StopInv
<1>9. Derived(store) # "PARTIAL"
  BY <1>3, NeverPartial
<1>10. DerivedInv
  BY <1>3, <1>4, <1>9 DEF DerivedInv, DerivedCase, Cuts
<1> QED BY <1>1, <1>7, <1>8, <1>10 DEF CasesInv

\* Every step keeps it.
LEMMA StepCases == CasesInv /\ [DNext]_durableVars => CasesInv'
<1> SUFFICES ASSUME CasesInv, [DNext]_durableVars PROVE CasesInv'
  OBVIOUS
<1>1. DurableInv'
  BY StepDurable DEF CasesInv
<1>2. CASE \/ \E k \in 1..MaxGroup : Allocate(k)
           \/ WriteFrame \/ ForceGroup \/ PublishGroup \/ CompleteFutures \/ AppendFails \/ Ready
  BY <1>1, <1>2, WriterCases DEF CasesInv
<1>14. CASE (\E b \in BOOLEAN : CreateGeneration(b)) \/ HeadGeneration \/ CutFails
  BY <1>1, <1>14, CutCases DEF CasesInv
<1>3. CASE StageData \/ PublishData \/ StageManifest \/ ReplaceManifest \/ ForceDirectory
  BY <1>1, <1>3, PublicationCases DEF CasesInv
<1>4. CASE CleanAfterPublication
  BY <1>1, <1>4, CleanCases DEF CasesInv
<1>5. CASE FinishPublication \/ CleanupFails \/ WriteComponent \/ PublishCatalog \/ CheckpointFails
  BY <1>1, <1>5, RefreshCases, BackupStarts DEF CasesInv
<1>6. CASE Crash \/ Close
  BY <1>1, <1>6, StopCases DEF CasesInv
<1>7. CASE Recover
  BY <1>1, <1>7, RecoverCases DEF CasesInv
<1>8. CASE CopyStep
  <2>1. StopInv' /\ DerivedInv'
    BY <1>8, BesideProcess DEF CopyStep, Counters
  <2> QED BY <1>1, <1>8, <2>1, CopyStepCases DEF CasesInv
<1>9. CASE CopyFails
  <2>1. StopInv' /\ DerivedInv'
    BY <1>9, BesideProcess DEF CopyFails
  <2> QED BY <1>1, <1>9, <2>1, CopyFailsCases DEF CasesInv
<1>10. CASE ToolCrash
  <2>1. StopInv' /\ DerivedInv'
    BY <1>10, BesideProcess DEF ToolCrash
  <2> QED BY <1>1, <1>10, <2>1, ToolCrashCases DEF CasesInv
<1>11. ASSUME NEW k \in Kinds, Begin(k) PROVE CasesInv'
  <2>1. StopInv' /\ DerivedInv'
    BY <1>11, BesideProcess DEF Begin
  <2> QED BY <1>1, <1>11, <2>1, BeginCases DEF CasesInv
<1>12. ASSUME NEW k \in Kinds, CleanRemnant(k) PROVE CasesInv'
  <2>1. StopInv' /\ DerivedInv'
    BY <1>12, BesideProcess DEF CleanRemnant
  <2> QED BY <1>1, <1>12, <2>1, CleanRemnantCases DEF CasesInv
<1>13. CASE UNCHANGED durableVars
  <2>1. UNCHANGED <<store, proc, pin, xfer, rem, target, acked, died, deaths, faults>>
    BY <1>13 DEF durableVars
  <2>2. StopInv' /\ DerivedInv'
    BY <2>1, BesideProcess
  <2>3. CopiesInv'
    BY <2>1 DEF CasesInv, CopiesInv, CleanupCase, Whole, CopyInv, PinHeld, NoBackupYet, Backing
  <2> QED BY <1>1, <2>2, <2>3 DEF CasesInv
<1> QED BY <1>2, <1>3, <1>4, <1>5, <1>6, <1>7, <1>8, <1>9, <1>10, <1>11, <1>12, <1>13, <1>14 DEF DNext

\* The files, the copies and the process fit together in every reachable state.
THEOREM CasesInductive == DurableSpec => []CasesInv
<1> QED BY InitCases, StepCases, PTL DEF DurableSpec

\* At every barrier every crash harness answers PASS, for every number of
\* mutations, cuts, deaths and failures.
THEOREM EveryCasePasses == DurableSpec => []CasesPass
<1>1. CasesInv => CasesPass
  BY InvGivesCases
<1> QED BY <1>1, CasesInductive, PTL
=============================================================================
