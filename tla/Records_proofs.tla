---- MODULE Records_proofs ----
EXTENDS MCRecords, FiniteSetTheorems, SequenceTheorems, TLAPS
-----------------------------------------------------------------------------
(***************************************************************************)
(* Numbers: every set of them has a least one, so what holds of 0 and      *)
(* passes from each number to the next holds of all, and a function that   *)
(* each of its values determines the next of exists.                       *)
(***************************************************************************)
LEMMA LeastNumber ==
  ASSUME NEW B, B \subseteq Nat, B # {}
  PROVE  \E m \in B : \A k \in B : m <= k
<1> DEFINE T == {0 .. (n - 1) : n \in B}
<1>1. T \subseteq FiniteSubsetsOf(Nat)
  <2>1. \A n \in B : 0 .. (n - 1) \subseteq Nat /\ IsFiniteSet(0 .. (n - 1))
    BY FS_Interval
  <2> QED BY <2>1 DEF FiniteSubsetsOf
<1>2. T # {}
  OBVIOUS
<1>3. PICK x \in T : \A y \in T : ~ (<<y, x>> \in StrictSubsetOrdering(Nat))
  <2> HIDE DEF T
  <2> QED BY <1>1, <1>2, WFMin, FS_StrictSubsetOrderingWellFounded, Zenon
<1>4. PICK m \in B : x = 0 .. (m - 1)
  OBVIOUS
<1>5. ASSUME NEW k \in B, k < m PROVE FALSE
  <2>1. /\ 0 .. (k - 1) \subseteq 0 .. (m - 1) /\ 0 .. (k - 1) # 0 .. (m - 1)
        /\ k \in Nat /\ m \in Nat
    <3>1. k \in 0 .. (m - 1) /\ k \notin 0 .. (k - 1)
      BY <1>5
    <3> QED BY <1>5, <3>1
  <2>2. <<0 .. (k - 1), x>> \in StrictSubsetOrdering(Nat)
    BY <1>4, <2>1 DEF StrictSubsetOrdering
  <2> QED BY <1>3, <2>2
<1> QED BY <1>5

LEMMA UpTo ==
  ASSUME NEW N \in Nat, NEW G, 0 \in G, \A n \in 1 .. N : n - 1 \in G => n \in G
  PROVE  0 .. N \subseteq G
<1> SUFFICES ASSUME (0 .. N) \ G # {} PROVE FALSE
  OBVIOUS
<1>1. PICK m \in (0 .. N) \ G : \A k \in (0 .. N) \ G : m <= k
  <2>1. (0 .. N) \ G \subseteq Nat
    OBVIOUS
  <2> QED BY <2>1, LeastNumber
<1>2. m \in 0 .. N /\ m # 0
  BY <1>1
<1>3. m \in 1 .. N /\ m - 1 \in 0 .. N /\ ~ (m <= m - 1)
  BY <1>2
<1>4. m - 1 \in G
  BY <1>1, <1>3
<1> QED BY <1>1, <1>3, <1>4

Iterates(k, S, c, step) ==
  {f \in [0 .. k -> S] : f[0] = c /\ \A n \in 1 .. k : f[n] = step[<<n, f[n - 1]>>]}

LEMMA IteratesExist ==
  ASSUME NEW N \in Nat, NEW S, NEW c \in S, NEW step,
         \A n \in 1 .. N, s \in S : step[<<n, s>>] \in S
  PROVE  Iterates(N, S, c, step) # {}
<1> DEFINE G == {n \in 0 .. N : Iterates(n, S, c, step) # {}}
<1>1. 0 \in G
  <2>1. [n \in 0 .. 0 |-> c] \in Iterates(0, S, c, step)
    BY DEF Iterates
  <2> QED BY <2>1
<1>2. ASSUME NEW n \in 1 .. N, n - 1 \in G PROVE n \in G
  <2>1. PICK f : f \in Iterates(n - 1, S, c, step)
    BY <1>2
  <2> DEFINE g == [k \in 0 .. n |-> IF k = n THEN step[<<n, f[n - 1]>>] ELSE f[k]]
  <2>2. /\ f \in [0 .. n - 1 -> S] /\ f[0] = c
        /\ \A k \in 1 .. n - 1 : f[k] = step[<<k, f[k - 1]>>]
    BY <2>1 DEF Iterates
  <2>3. /\ \A k \in 0 .. n - 1 : g[k] = f[k] /\ k \in 0 .. n
        /\ g[n] = step[<<n, f[n - 1]>>] /\ f[n - 1] \in S
    BY <2>2
  <2>4. g \in [0 .. n -> S]
    <3>1. \A k \in 0 .. n : k # n => k \in 0 .. n - 1
      OBVIOUS
    <3> QED BY <2>2, <2>3, <3>1
  <2> HIDE DEF g
  <2>5. ASSUME NEW k \in 1 .. n PROVE g[k] = step[<<k, g[k - 1]>>]
    <3>1. CASE k = n
      BY <2>3, <3>1
    <3>2. CASE k # n
      <4>1. k \in 1 .. n - 1 /\ k - 1 \in 0 .. n - 1 /\ k \in 0 .. n - 1
        BY <3>2
      <4> QED BY <2>2, <2>3, <4>1
    <3> QED BY <3>1, <3>2
  <2>6. g[0] = c
    BY <2>2, <2>3
  <2>7. g \in Iterates(n, S, c, step)
    BY <2>4, <2>5, <2>6 DEF Iterates
  <2> QED BY <2>7
<1>3. 0 .. N \subseteq G
  <2> HIDE DEF G
  <2> QED BY <1>1, <1>2, UpTo
<1> QED BY <1>3

LEMMA LeastIs ==
  ASSUME NEW B, B \subseteq Nat, B # {}
  PROVE  Min(B) \in B /\ \A k \in B : Min(B) <= k
BY LeastNumber, Zenon DEF Min

LEMMA GreatestIs ==
  ASSUME NEW N \in Nat, NEW B, B \subseteq 0 .. N, B # {}
  PROVE  Max(B) \in B /\ \A k \in B : Max(B) >= k
<1> DEFINE C == {N - k : k \in B}
<1>1. C \subseteq Nat /\ C # {}
  <2>1. \A k \in B : N - k \in Nat
    OBVIOUS
  <2> QED BY <2>1
<1>2. PICK m \in C : \A k \in C : m <= k
  <2> HIDE DEF C
  <2> QED BY <1>1, LeastNumber
<1>3. PICK x \in B : m = N - x
  OBVIOUS
<1>4. \A k \in B : x >= k
  BY <1>2, <1>3
<1> QED BY <1>3, <1>4, Zenon DEF Max

LEMMA LeastOne ==
  ASSUME NEW B, NEW m \in B, B \subseteq Nat, \A k \in B : m <= k
  PROVE  Min(B) = m
<1>1. Min(B) \in B /\ Min(B) <= m
  BY LeastIs
<1> DEFINE x == Min(B)
<1> HIDE DEF x
<1>2. x \in Nat /\ m \in Nat /\ m <= x /\ x <= m
  BY <1>1 DEF x
<1>3. x = m
  BY <1>2
<1> QED BY <1>3 DEF x

LEMMA GreatestOne ==
  ASSUME NEW B, NEW N \in Nat, B \subseteq 0 .. N, NEW m \in B, \A k \in B : m >= k
  PROVE  Max(B) = m
<1>1. Max(B) \in B /\ Max(B) >= m
  BY GreatestIs
<1> DEFINE x == Max(B)
<1>2. x \in B /\ x >= m
  BY <1>1
<1> HIDE DEF x
<1>3. x = m
  <2>1. B \subseteq Nat
    OBVIOUS
  <2>2. x \in Nat /\ m \in Nat /\ m >= x
    BY <1>2, <2>1
  <2> QED BY <1>2, <2>2
<1> QED BY <1>3 DEF x

LEMMA LesserOf ==
  ASSUME NEW a \in Int, NEW b \in Int
  PROVE  Min({a, b}) = IF a <= b THEN a ELSE b
<1> DEFINE x == IF a <= b THEN a ELSE b
<1>1. x \in {a, b} /\ \A y \in {a, b} : x <= y
  OBVIOUS
<1>2. Min({a, b}) \in {a, b} /\ \A y \in {a, b} : Min({a, b}) <= y
  BY <1>1, Zenon DEF Min
<1> QED BY <1>1, <1>2

LEMMA GreaterOf ==
  ASSUME NEW a \in Int, NEW b \in Int
  PROVE  Max({a, b}) = IF a >= b THEN a ELSE b
<1> DEFINE x == IF a >= b THEN a ELSE b
<1>1. x \in {a, b} /\ \A y \in {a, b} : x >= y
  OBVIOUS
<1>2. Max({a, b}) \in {a, b} /\ \A y \in {a, b} : Max({a, b}) >= y
  BY <1>1, Zenon DEF Max
<1> QED BY <1>1, <1>2
-----------------------------------------------------------------------------
(***************************************************************************)
(* SharedCache: without a fault a generation is the largest ever used or   *)
(* gone, so that whatever is stored under the next one was read after it.  *)
(***************************************************************************)
Singles == {{g} : g \in Access}
CacheKeys == [gen : Nat, print : SUBSET Access]
Snapshots == [gen : Nat, grant : Access, early : BOOLEAN]
Payloads == [key : CacheKeys, built : Access]
Asks == [at : AskSteps, gen : Nat, profile : SUBSET Grants, grant : SUBSET Access,
         key : CacheKeys, answer : SUBSET Access]
Writers == [at : WriterSteps, read : Nat]

CounterOK ==
  /\ lastSeed \in Nat /\ lastSeed >= 1 /\ generation \in Nat /\ generation <= lastSeed
  /\ granted \in Access /\ overtaken \subseteq CacheRequests /\ cacheFaults \in 0 .. MaxCacheFaults
  /\ cacheFaults = 0 => generation \in {0, lastSeed}
  /\ cacheFaults = 0 /\ Rotating => generation # 0

WriterOK(w) == writers[w] \in Writers /\ writers[w].read <= lastSeed

StoredOK ==
  /\ \A s \in snapshots : s \in Snapshots /\ s.gen >= 1 /\ s.gen <= lastSeed
  /\ \A s, t \in snapshots : s.gen = t.gen => s.grant = t.grant
  /\ \A r \in reports : r \in Payloads /\ r.key.gen <= lastSeed /\ r.key.print = {r.built}

AskOK(q) ==
  /\ asks[q] \in Asks
  /\ asks[q].gen <= lastSeed /\ asks[q].key.gen <= lastSeed
  /\ asks[q].at \in {"permission", "missed", "loaded"} => asks[q].gen >= 1
  /\ asks[q].at \in {"profiled", "permission", "missed"} => \E p \in Grants : asks[q].profile = {p}
  /\ asks[q].at \in {"loaded", "scoped", "keyed", "served"} => asks[q].grant \in Singles
  /\ asks[q].at \in {"new", "profiled", "permission", "missed"} => asks[q].grant = {}
  /\ asks[q].at = "keyed" => asks[q].key.print = asks[q].grant
  /\ asks[q].at = "served" => asks[q].answer = asks[q].grant

\* What a request holds is committed, but for a profile it was overtaken in.
Agrees(g, early) == g.rows = granted.rows /\ (early \/ g.profile = granted.profile)
ProfileAgrees(q) == q \in overtaken \/ asks[q].profile = {granted.profile}
Fresh(q) ==
  /\ asks[q].at \in {"permission", "missed"} => ProfileAgrees(q)
  /\ asks[q].at = "loaded" => \A g \in asks[q].grant : Agrees(g, q \in overtaken)
Profiled == \A q \in CacheRequests : asks[q].at = "profiled" => ProfileAgrees(q)

\* So is what is stored, or about to be, under the latest generation.
Latest ==
  cacheFaults = 0 /\ ~ Unrotated =>
    /\ \A s \in snapshots : s.gen = lastSeed => Agrees(s.grant, s.early)
    /\ \A q \in CacheRequests : asks[q].gen = lastSeed => Fresh(q)

CacheFunctions ==
  /\ writers = [w \in AccessWriters |-> writers[w]]
  /\ asks = [q \in CacheRequests |-> asks[q]]

CacheIInv ==
  /\ CacheFunctions /\ CounterOK /\ StoredOK /\ Latest /\ Profiled
  /\ \A w \in AccessWriters : WriterOK(w)
  /\ \A q \in CacheRequests : AskOK(q)

LEMMA InitCache == CacheInit => CacheIInv
<1> SUFFICES ASSUME CacheInit PROVE CacheIInv
  OBVIOUS
<1>1. CacheFunctions /\ StoredOK
  BY Zenon DEF CacheInit, CacheFunctions, StoredOK
<1>2. CounterOK
  <2>1. 0 \in 0 .. MaxCacheFaults
    BY SharedCacheAssumption
  <2> QED BY <2>1 DEF CacheInit, CounterOK
<1>3. ASSUME NEW w \in AccessWriters PROVE WriterOK(w)
  BY <1>3 DEF CacheInit, WriterOK, Writers, WriterSteps
<1>4. ASSUME NEW q \in CacheRequests PROVE AskOK(q)
  <2>1. asks[q] = NewAsk /\ lastSeed = 1
    BY <1>4 DEF CacheInit
  <2> QED BY <2>1 DEF AskOK, NewAsk, NoKey, Asks, AskSteps, CacheKeys
<1>5. Latest /\ Profiled
  <2>1. \A q \in CacheRequests : asks[q].at = "new"
    BY DEF CacheInit, NewAsk
  <2> QED BY <2>1 DEF CacheInit, Latest, Fresh, Profiled
<1> QED BY <1>1, <1>2, <1>3, <1>4, <1>5, Zenon DEF CacheIInv

LEMMA SingleGrant == ASSUME NEW x \in Singles PROVE Cardinality(x) = 1 /\ x # {}
<1>1. PICK g \in Access : x = {g}
  BY DEF Singles
<1> QED BY <1>1, FS_Singleton

LEMMA CacheHolds == CacheIInv => CacheInv
<1> SUFFICES ASSUME CacheIInv PROVE CacheInv
  OBVIOUS
<1>1. SnapshotsFollowAccess
  <2> SUFFICES ASSUME cacheFaults = 0, ~ Unrotated, NEW s \in snapshots, s.gen = generation
               PROVE  s.grant.rows = granted.rows /\ (s.early \/ s.grant.profile = granted.profile)
    BY DEF SnapshotsFollowAccess, Findable
  <2>1. s.gen >= 1 /\ generation \in {0, lastSeed}
    BY DEF CacheIInv, StoredOK, CounterOK
  <2>2. s.gen = lastSeed
    BY <2>1
  <2> QED BY <2>2 DEF CacheIInv, Latest, Agrees
<1>2. ReportMatchesSnapshot
  BY DEF CacheIInv, AskOK, ReportMatchesSnapshot
<1>3. CacheTypeOK
  <2>1. writers \in [AccessWriters -> [at : WriterSteps, read : 0 .. lastSeed]]
    <3>1. ASSUME NEW w \in AccessWriters
          PROVE  writers[w] \in [at : WriterSteps, read : 0 .. lastSeed]
      <4>1. WriterOK(w) /\ lastSeed \in Nat
        BY <3>1 DEF CacheIInv, CounterOK
      <4> QED BY <4>1 DEF WriterOK, Writers
    <3> QED BY <3>1, Zenon DEF CacheIInv, CacheFunctions
  <2>2. \A s \in snapshots : s.gen \in 1 .. lastSeed /\ s.grant \in Access /\ s.early \in BOOLEAN
    BY DEF CacheIInv, StoredOK, Snapshots, CounterOK
  <2>3. \A r \in reports : r.built \in Access /\ r.key.gen <= lastSeed
    BY DEF CacheIInv, StoredOK, Payloads
  <2>4. ASSUME NEW q \in CacheRequests
        PROVE  /\ asks[q].at \in AskSteps /\ asks[q].gen <= lastSeed
               /\ asks[q].profile \subseteq Grants
               /\ asks[q].grant \subseteq Access /\ Cardinality(asks[q].grant) <= 1
               /\ asks[q].at = "served" => asks[q].answer # {}
    <3>1. AskOK(q)
      BY <2>4 DEF CacheIInv
    <3>2. asks[q].grant = {} \/ asks[q].grant \in Singles
      BY <3>1 DEF AskOK, Asks, AskSteps
    <3>3. Cardinality(asks[q].grant) \in {0, 1}
      BY <3>2, SingleGrant, FS_EmptySet
    <3>4. asks[q].at = "served" => asks[q].answer # {}
      <4>1. asks[q].at = "served" => asks[q].answer \in Singles
        BY <3>1 DEF AskOK
      <4> QED BY <4>1, SingleGrant
    <3>5. /\ asks[q].at \in AskSteps /\ asks[q].gen <= lastSeed
          /\ asks[q].profile \subseteq Grants /\ asks[q].grant \subseteq Access
      BY <3>1 DEF AskOK, Asks
    <3> QED BY <3>3, <3>4, <3>5
  <2>5. /\ granted \in Access /\ generation \in 0 .. lastSeed /\ cacheFaults \in 0 .. MaxCacheFaults
        /\ overtaken \subseteq CacheRequests
    BY DEF CacheIInv, CounterOK
  <2> QED BY <2>1, <2>2, <2>3, <2>4, <2>5, Zenon DEF CacheTypeOK
<1> QED BY <1>1, <1>2, <1>3 DEF CacheInv

(***************************************************************************)
(* The counter: read, it is seeded with a number never used; incremented,  *)
(* it passes the largest ever used, unless it was evicted meanwhile.       *)
(***************************************************************************)
LEMMA CounterRead ==
  ASSUME CounterOK, ReadGeneration
  PROVE  /\ lastSeed' \in Nat /\ lastSeed' >= lastSeed /\ generation' = SeededGeneration
         /\ SeededGeneration \in 1 .. lastSeed'
         /\ generation \in {0, lastSeed} => generation' = lastSeed'
         /\ generation = 0 => lastSeed' = lastSeed + 1
         /\ generation # 0 => lastSeed' = lastSeed
BY DEF CounterOK, ReadGeneration, SeededGeneration

LEMMA CounterUp ==
  ASSUME CounterOK, NEW n \in Nat, n <= lastSeed, Increment(n)
  PROVE  /\ lastSeed' \in Nat /\ lastSeed' >= lastSeed
         /\ generation' \in 1 .. lastSeed'
         /\ generation = lastSeed => generation' = lastSeed' /\ lastSeed' = lastSeed + 1
BY DEF CounterOK, Increment, Incremented

(***************************************************************************)
(* A step that leaves the stores and the requests as they are.             *)
(***************************************************************************)
\* A change of the profile overtakes whoever has read it and no generation yet.
Overtakes ==
  /\ overtaken \subseteq overtaken'
  /\ \/ granted'.profile = granted.profile
     \/ \A q \in CacheRequests : asks[q].at = "profiled" => q \in overtaken'

LEMMA StoresKept ==
  ASSUME CacheIInv, UNCHANGED <<snapshots, reports, asks>>, Overtakes,
         lastSeed' \in Nat, lastSeed' >= lastSeed,
         \/ cacheFaults' # 0 \/ Unrotated' \/ lastSeed' > lastSeed
         \/ granted' = granted /\ cacheFaults = 0 /\ ~ Unrotated /\ lastSeed' = lastSeed
  PROVE  StoredOK' /\ Latest' /\ Profiled' /\ \A q \in CacheRequests : AskOK(q)'
<1>0. lastSeed \in Nat /\ StoredOK
  BY DEF CacheIInv, CounterOK
<1>1. StoredOK'
  <2>1. \A s \in snapshots : s \in Snapshots /\ s.gen >= 1 /\ s.gen <= lastSeed'
    BY <1>0 DEF StoredOK, Snapshots
  <2>2. \A r \in reports : r \in Payloads /\ r.key.gen <= lastSeed' /\ r.key.print = {r.built}
    BY <1>0 DEF StoredOK, Payloads, CacheKeys
  <2> QED BY <1>0, <2>1, <2>2, Zenon DEF StoredOK
<1>2. ASSUME NEW q \in CacheRequests PROVE AskOK(q)' /\ asks[q].gen \in Nat /\ asks[q].gen <= lastSeed
  <2>1. AskOK(q)
    BY <1>2 DEF CacheIInv
  <2>2. /\ asks[q].gen \in Nat /\ asks[q].key.gen \in Nat
        /\ asks[q].gen <= lastSeed /\ asks[q].key.gen <= lastSeed
    BY <2>1 DEF AskOK, Asks, CacheKeys
  <2>3. asks[q].gen <= lastSeed' /\ asks[q].key.gen <= lastSeed'
    BY <1>0, <2>2
  <2>4. asks'[q] = asks[q]
    OBVIOUS
  <2> QED BY <2>1, <2>2, <2>3, <2>4, Zenon DEF AskOK
<1>3. Latest'
  <2>1. CASE cacheFaults' # 0 \/ Unrotated'
    BY <2>1 DEF Latest
  <2>2. CASE lastSeed' > lastSeed
    <3>1. \A s \in snapshots : s.gen # lastSeed'
      BY <1>0, <2>2 DEF StoredOK, Snapshots
    <3>2. \A q \in CacheRequests : asks[q].gen # lastSeed'
      BY <1>0, <1>2, <2>2
    <3> QED BY <3>1, <3>2 DEF Latest
  <2>3. CASE granted' = granted /\ cacheFaults = 0 /\ ~ Unrotated /\ lastSeed' = lastSeed
    <3>1. /\ \A s \in snapshots : s.gen = lastSeed => Agrees(s.grant, s.early)
          /\ \A q \in CacheRequests : asks[q].gen = lastSeed => Fresh(q)
      BY <2>3 DEF CacheIInv, Latest
    <3>2. \A q \in CacheRequests : Fresh(q) => Fresh(q)'
      BY <2>3 DEF Fresh, ProfileAgrees, Agrees, Overtakes
    <3>3. \A s \in snapshots : Agrees(s.grant, s.early) => Agrees(s.grant, s.early)'
      BY <2>3 DEF Agrees
    <3> QED BY <2>3, <3>1, <3>2, <3>3 DEF Latest
  <2> QED BY <2>1, <2>2, <2>3
<1>4. Profiled'
  BY DEF Profiled, ProfileAgrees, Overtakes, CacheIInv
<1> QED BY <1>1, <1>2, <1>3, <1>4

(***************************************************************************)
(* A writer's step: only its own row changes.                              *)
(***************************************************************************)
WriterRow(w, row) ==
  /\ writers' = [v \in AccessWriters |-> IF v = w THEN row ELSE writers[v]]
  /\ row \in Writers /\ row.read <= lastSeed'
  /\ lastSeed' \in Nat /\ lastSeed' >= lastSeed

LEMMA WriterRowKept ==
  ASSUME CacheIInv, NEW w \in AccessWriters, NEW row, WriterRow(w, row), UNCHANGED asks
  PROVE  /\ CacheFunctions' /\ \A v \in AccessWriters : WriterOK(v)'
         /\ Rotating' <=> \/ row.at \in {"rotating", "rerotating"}
                          \/ \E v \in AccessWriters \ {w} : writers[v].at \in {"rotating", "rerotating"}
         /\ Unrotated' <=> \/ row.at \in {"committed", "rerotating"}
                           \/ \E v \in AccessWriters \ {w} : writers[v].at \in {"committed", "rerotating"}
<1>1. writers'[w] = row /\ \A v \in AccessWriters \ {w} : writers'[v] = writers[v]
  BY DEF WriterRow
<1>2. CacheFunctions'
  BY Zenon DEF CacheIInv, CacheFunctions, WriterRow
<1>3. ASSUME NEW v \in AccessWriters PROVE WriterOK(v)'
  <2>1. CASE v = w
    BY <1>1, <2>1 DEF WriterRow, WriterOK
  <2>2. CASE v # w
    <3>1. WriterOK(v) /\ lastSeed \in Nat
      BY <1>3 DEF CacheIInv, CounterOK
    <3>2. writers[v].read \in Nat /\ writers[v].read <= lastSeed
      BY <3>1 DEF WriterOK, Writers
    <3>3. writers[v].read <= lastSeed'
      BY <3>1, <3>2 DEF WriterRow
    <3> QED BY <1>1, <1>3, <2>2, <3>1, <3>3, Zenon DEF WriterOK
  <2> QED BY <2>1, <2>2
<1>4. /\ Rotating' <=> \/ row.at \in {"rotating", "rerotating"}
                       \/ \E v \in AccessWriters \ {w} : writers[v].at \in {"rotating", "rerotating"}
  BY <1>1, Zenon DEF Rotating
<1>5. /\ Unrotated' <=> \/ row.at \in {"committed", "rerotating"}
                        \/ \E v \in AccessWriters \ {w} : writers[v].at \in {"committed", "rerotating"}
  BY <1>1, Zenon DEF Unrotated
<1> QED BY <1>2, <1>3, <1>4, <1>5

WriterRowOf(a, n) == [at |-> a, read |-> n]
WithAt(w, b) == [writers EXCEPT ![w].at = b]
WithAtRead(w, b, m) == [writers EXCEPT ![w].at = b, ![w].read = m]

LEMMA RowEdits ==
  ASSUME CacheFunctions, NEW w \in AccessWriters, NEW a, NEW n,
         writers[w] = WriterRowOf(a, n), NEW b, NEW m
  PROVE  /\ WithAt(w, b) = [writers EXCEPT ![w] = WriterRowOf(b, n)]
         /\ WithAtRead(w, b, m) = [writers EXCEPT ![w] = WriterRowOf(b, m)]
<1> DEFINE f == writers
           S == AccessWriters
<1>0. f = [v \in S |-> f[v]] /\ w \in S /\ f[w] = WriterRowOf(a, n)
  BY Zenon DEF CacheFunctions
<1> HIDE DEF f, S
<1> DEFINE r == WriterRowOf(b, n)
           s == WriterRowOf(b, m)
<1>1. [f[w] EXCEPT !.at = b] = r /\ [r EXCEPT !.read = m] = s
  BY <1>0 DEF WriterRowOf
<1>2. [f EXCEPT ![w].at = b] = [f EXCEPT ![w] = [f[w] EXCEPT !.at = b]]
  BY <1>0
<1>3. [f EXCEPT ![w].at = b, ![w].read = m] =
      [[f EXCEPT ![w] = [f[w] EXCEPT !.at = b]] EXCEPT ![w].read = m]
  BY <1>0
<1> HIDE DEF r, s
<1>4. [f EXCEPT ![w].at = b] = [f EXCEPT ![w] = r]
  BY <1>1, <1>2
<1> DEFINE h == [f EXCEPT ![w] = r]
<1>5. h[w] = r /\ h = [v \in S |-> IF v = w THEN r ELSE f[v]]
  BY <1>0
<1>6. [h EXCEPT ![w].read = m] = [f EXCEPT ![w] = s]
  <2>1. [h EXCEPT ![w].read = m] = [h EXCEPT ![w] = [h[w] EXCEPT !.read = m]]
    BY <1>0, <1>5
  <2>2. [h EXCEPT ![w] = s] = [f EXCEPT ![w] = s]
    BY <1>0, <1>5
  <2> HIDE DEF h
  <2> QED BY <1>1, <1>5, <2>1, <2>2
<1>7. [f EXCEPT ![w].at = b, ![w].read = m] = [h EXCEPT ![w].read = m]
  BY <1>1, <1>3
<1> QED BY <1>4, <1>6, <1>7 DEF r, s, f, WithAt, WithAtRead
Owing == {"committed", "rerotating"}

\* What is left of every case: the counter, and whether a rotation is still due.
Moved(w, a, n) ==
  /\ writers' = [writers EXCEPT ![w] = WriterRowOf(a, n)]
  /\ UNCHANGED <<snapshots, reports, asks>>
  /\ granted' \in Access /\ overtaken' \subseteq CacheRequests /\ Overtakes
  /\ cacheFaults' \in 0 .. MaxCacheFaults
  /\ lastSeed' \in Nat /\ lastSeed' >= lastSeed /\ n <= lastSeed'
  /\ generation' \in Nat /\ generation' <= lastSeed'
  /\ generation' = 0 => generation = 0
  /\ cacheFaults' = 0 => cacheFaults = 0 /\ generation' \in {0, lastSeed'}
  /\ a \in {"rotating", "rerotating"} => generation' # 0
  /\ \/ cacheFaults' # 0 \/ a \in Owing \/ lastSeed' > lastSeed
     \/ granted' = granted /\ lastSeed' = lastSeed /\ writers[w].at \notin Owing

LEMMA WriterMoves ==
  ASSUME CacheIInv, NEW w \in AccessWriters,
         NEW a \in WriterSteps, NEW n \in Nat, Moved(w, a, n)
  PROVE  CacheIInv'
<1> DEFINE R == WriterRowOf(a, n)
           Turns == {"rotating", "rerotating"}
<1>0. /\ writers' = [writers EXCEPT ![w] = WriterRowOf(a, n)]
      /\ UNCHANGED <<snapshots, reports, asks>>
      /\ granted' \in Access /\ overtaken' \subseteq CacheRequests /\ Overtakes
      /\ cacheFaults' \in 0 .. MaxCacheFaults
      /\ lastSeed' \in Nat /\ lastSeed' >= lastSeed /\ n <= lastSeed'
      /\ generation' \in Nat /\ generation' <= lastSeed'
      /\ generation' = 0 => generation = 0
      /\ cacheFaults' = 0 => cacheFaults = 0 /\ generation' \in {0, lastSeed'}
      /\ a \in {"rotating", "rerotating"} => generation' # 0
      /\ \/ cacheFaults' # 0 \/ a \in Owing \/ lastSeed' > lastSeed
         \/ granted' = granted /\ lastSeed' = lastSeed /\ writers[w].at \notin Owing
  BY DEF Moved
<1>1. R.at = a /\ R \in Writers /\ R.read = n
  BY DEF WriterRowOf, Writers
<1>2. writers' = [v \in AccessWriters |-> IF v = w THEN R ELSE writers[v]]
  <2> HIDE DEF R
  <2>1. writers = [v \in AccessWriters |-> writers[v]] /\ writers' = [writers EXCEPT ![w] = R]
    BY <1>0 DEF CacheIInv, CacheFunctions, R
  <2> QED BY <2>1
<1> HIDE DEF R
<1>3. WriterRow(w, R)
  BY <1>0, <1>1, <1>2 DEF WriterRow
<1>4. /\ CacheFunctions' /\ \A v \in AccessWriters : WriterOK(v)'
      /\ Rotating' <=> \/ R.at \in {"rotating", "rerotating"}
                       \/ \E v \in AccessWriters \ {w} : writers[v].at \in {"rotating", "rerotating"}
      /\ Unrotated' <=> \/ R.at \in {"committed", "rerotating"}
                        \/ \E v \in AccessWriters \ {w} : writers[v].at \in {"committed", "rerotating"}
  BY <1>0, <1>3, WriterRowKept
<1>5. Rotating' => a \in Turns \/ Rotating
  BY <1>1, <1>4, Zenon DEF Rotating
<1>6. a \in Owing => Unrotated'
  BY <1>1, <1>4, Zenon DEF Owing
<1>7. ~ Unrotated' /\ writers[w].at \notin Owing => ~ Unrotated
  BY <1>4, Zenon DEF Unrotated, Owing
<1>8. CounterOK /\ lastSeed \in Nat /\ lastSeed >= 1
  BY DEF CacheIInv, CounterOK
<1>9. CounterOK'
  <2>1. cacheFaults' = 0 /\ Rotating' => generation' # 0
    <3>1. cacheFaults' = 0 => cacheFaults = 0
      BY <1>0
    <3>2. a \in Turns => generation' # 0
      BY <1>0
    <3>3. generation # 0 => generation' # 0
      BY <1>0
    <3>4. cacheFaults = 0 /\ Rotating => generation # 0
      BY <1>8 DEF CounterOK
    <3> QED BY <1>5, <3>1, <3>2, <3>3, <3>4, Zenon
  <2>2. lastSeed' \in Nat /\ lastSeed' >= 1
    <3>1. lastSeed' \in Nat /\ lastSeed' >= lastSeed
      BY <1>0
    <3> QED BY <1>8, <3>1
  <2>3. /\ generation' \in Nat /\ generation' <= lastSeed'
        /\ granted' \in Access /\ overtaken' \subseteq CacheRequests /\ cacheFaults' \in 0 .. MaxCacheFaults
        /\ cacheFaults' = 0 => generation' \in {0, lastSeed'}
    BY <1>0
  <2> QED BY <2>1, <2>2, <2>3 DEF CounterOK
<1>10. \/ cacheFaults' # 0 \/ Unrotated' \/ lastSeed' > lastSeed
       \/ granted' = granted /\ cacheFaults = 0 /\ ~ Unrotated /\ lastSeed' = lastSeed
  BY <1>0, <1>6, <1>7
<1>11. StoredOK' /\ Latest' /\ Profiled' /\ \A q \in CacheRequests : AskOK(q)'
  BY <1>0, <1>10, StoresKept
<1> QED BY <1>4, <1>9, <1>11, Zenon DEF CacheIInv

LEMMA WriterStep ==
  ASSUME CacheIInv, NEW w \in AccessWriters,
         \/ WriteAccess(w) \/ RotateNow(w) \/ CommitAccess(w) \/ RollbackAccess(w)
         \/ AfterCommit(w) \/ RotateAgain(w) \/ RotationLost(w)
  PROVE  CacheIInv'
<1>0. /\ CounterOK /\ WriterOK(w) /\ writers = [v \in AccessWriters |-> writers[v]]
  BY Zenon DEF CacheIInv, CacheFunctions
<1>1. /\ generation \in Nat /\ generation <= lastSeed /\ lastSeed \in Nat /\ lastSeed >= 1
      /\ granted \in Access /\ overtaken \subseteq CacheRequests /\ cacheFaults \in 0 .. MaxCacheFaults
      /\ cacheFaults = 0 => generation \in {0, lastSeed}
      /\ cacheFaults = 0 /\ Rotating => generation # 0
  BY <1>0 DEF CounterOK
<1>2. PICK a \in WriterSteps, n \in Nat : writers[w] = WriterRowOf(a, n)
  BY <1>0 DEF WriterOK, Writers, WriterRowOf
<1>3. writers[w].at = a /\ writers[w].read = n /\ n <= lastSeed
  BY <1>0, <1>2 DEF WriterOK, WriterRowOf
<1>4. a \in {"rotating", "rerotating"} => Rotating
  BY <1>3 DEF Rotating
<1>5. /\ "rotating" \in WriterSteps /\ "open" \in WriterSteps /\ "committed" \in WriterSteps
      /\ "ended" \in WriterSteps /\ "rerotating" \in WriterSteps
  BY DEF WriterSteps
<1>e. ASSUME NEW b, NEW m
      PROVE  /\ [writers EXCEPT ![w].at = b] = [writers EXCEPT ![w] = WriterRowOf(b, n)]
             /\ [writers EXCEPT ![w].at = b, ![w].read = m] = [writers EXCEPT ![w] = WriterRowOf(b, m)]
  <2>1. CacheFunctions
    BY DEF CacheIInv
  <2>2. /\ [writers EXCEPT ![w].at = b] = [writers EXCEPT ![w] = WriterRowOf(b, n)]
        /\ [writers EXCEPT ![w].at = b, ![w].read = m] = [writers EXCEPT ![w] = WriterRowOf(b, m)]
    <3>1. WithAt(w, b) = [writers EXCEPT ![w] = WriterRowOf(b, n)]
      BY <1>2, <2>1, RowEdits
    <3>2. WithAtRead(w, b, m) = [writers EXCEPT ![w] = WriterRowOf(b, m)]
      BY <1>2, <2>1, RowEdits
    <3> QED BY <3>1, <3>2 DEF WithAt, WithAtRead
  <2> QED BY <2>2
\* Steps that read the counter, and steps that increment it.
<1>6. ASSUME ReadGeneration
      PROVE  /\ lastSeed' \in Nat /\ lastSeed' >= lastSeed /\ generation' = SeededGeneration
             /\ generation' \in Nat /\ generation' >= 1 /\ generation' <= lastSeed'
             /\ cacheFaults = 0 => generation' = lastSeed'
             /\ lastSeed' > lastSeed \/ lastSeed' = lastSeed
  <2>1. /\ lastSeed' \in Nat /\ lastSeed' >= lastSeed /\ generation' = SeededGeneration
        /\ SeededGeneration \in 1 .. lastSeed'
        /\ generation \in {0, lastSeed} => generation' = lastSeed'
    BY <1>0, <1>6, CounterRead
  <2> QED BY <1>1, <2>1
<1>7. ASSUME Increment(n), a \in {"rotating", "rerotating"}
      PROVE  /\ lastSeed' \in Nat /\ lastSeed' >= lastSeed
             /\ generation' \in Nat /\ generation' >= 1 /\ generation' <= lastSeed'
             /\ cacheFaults = 0 => generation' = lastSeed' /\ lastSeed' > lastSeed
  <2>1. /\ lastSeed' \in Nat /\ lastSeed' >= lastSeed
        /\ generation' \in 1 .. lastSeed'
        /\ generation = lastSeed => generation' = lastSeed' /\ lastSeed' = lastSeed + 1
    BY <1>0, <1>3, <1>7, CounterUp
  <2>2. cacheFaults = 0 => generation = lastSeed
    BY <1>1, <1>4, <1>7
  <2> QED BY <1>1, <2>1, <2>2
<1>h. UNCHANGED <<granted, overtaken>> => /\ granted' \in Access /\ overtaken' \subseteq CacheRequests
                                         /\ Overtakes /\ granted' = granted
  BY <1>1 DEF Overtakes
<1>8. CASE WriteAccess(w)
  <2> DEFINE s == generation'
  <2>1. /\ a = "idle" /\ ReadGeneration
        /\ UNCHANGED <<snapshots, reports, asks, granted, overtaken, cacheFaults>>
    BY <1>3, <1>8 DEF WriteAccess, WriterAt, WriterUnchanged, AccessUnchanged
  <2>2. s = SeededGeneration /\ s \in Nat /\ s <= lastSeed' /\ writers[w].at \notin Owing
    BY <1>3, <1>6, <2>1 DEF Owing
  <2>3. writers' = [writers EXCEPT ![w].at = "rotating", ![w].read = SeededGeneration]
    BY <1>8 DEF WriteAccess
  <2>4. writers' = [writers EXCEPT ![w] = WriterRowOf("rotating", s)]
    <3> HIDE DEF s
    <3>1. writers' = [writers EXCEPT ![w].at = "rotating", ![w].read = s]
      BY <2>2, <2>3
    <3> QED BY <3>1, <1>e, Zenon
  <2>9. Moved(w, "rotating", s)
    <3> HIDE DEF s
    <3> QED BY <1>1, <1>6, <1>h, <2>1, <2>2, <2>4 DEF Moved
  <2> HIDE DEF s
  <2> QED BY <1>1, <1>5, <2>2, <2>9, WriterMoves
<1>9. CASE RotateNow(w)
  <2>1. writers' = [writers EXCEPT ![w] = WriterRowOf("open", 0)]
    BY <1>9, <1>e, Zenon DEF RotateNow
  <2>2. /\ a = "rotating" /\ Increment(n)
        /\ UNCHANGED <<snapshots, reports, asks, granted, overtaken, cacheFaults>>
    BY <1>3, <1>9 DEF RotateNow, WriterAt, WriterUnchanged, AccessUnchanged
  <2>3. 0 \in Nat /\ 0 <= lastSeed' /\ writers[w].at \notin Owing
    BY <1>3, <1>7, <2>2 DEF Owing
  <2>9. Moved(w, "open", 0)
    BY <1>1, <1>7, <1>h, <2>1, <2>2, <2>3 DEF Moved
  <2> QED BY <1>1, <1>2, <1>5, <2>9, WriterMoves
<1>10. CASE CommitAccess(w)
  <2>1. writers' = [writers EXCEPT ![w] = WriterRowOf("committed", n)]
    BY <1>10, <1>e, Zenon DEF CommitAccess
  <2>2. /\ "committed" \in Owing
        /\ UNCHANGED <<snapshots, reports, asks, generation, lastSeed, cacheFaults>>
    BY <1>10 DEF CommitAccess, WriterUnchanged, Owing
  <2>3. PICK g \in Access :
          /\ granted' = g
          /\ overtaken' = IF g.profile = granted.profile THEN overtaken
                          ELSE overtaken \cup {q \in CacheRequests : asks[q].at = "profiled"}
    BY <1>10 DEF CommitAccess
  <2>4. granted' \in Access /\ overtaken' \subseteq CacheRequests /\ Overtakes
    BY <1>1, <2>3 DEF Overtakes
  <2>9. Moved(w, "committed", n)
    BY <1>1, <1>3, <2>1, <2>2, <2>4 DEF Moved
  <2> QED BY <1>1, <1>2, <1>5, <2>9, WriterMoves
<1>11. CASE RollbackAccess(w)
  <2>1. writers' = [writers EXCEPT ![w] = WriterRowOf("ended", n)]
    BY <1>11, <1>e, Zenon DEF RollbackAccess
  <2>2. /\ writers[w].at \notin Owing
        /\ UNCHANGED <<snapshots, reports, asks, generation, lastSeed, granted, overtaken, cacheFaults>>
    BY <1>11 DEF RollbackAccess, WriterAt, WriterUnchanged, AccessUnchanged, Owing
  <2>9. Moved(w, "ended", n)
    BY <1>1, <1>3, <1>h, <2>1, <2>2 DEF Moved
  <2> QED BY <1>1, <1>2, <1>5, <2>9, WriterMoves
<1>12. CASE AfterCommit(w)
  <2> DEFINE s == generation'
  <2>1. ReadGeneration /\ UNCHANGED <<snapshots, reports, asks, granted, overtaken, cacheFaults>>
    BY <1>12 DEF AfterCommit, RotatesAfterCommit, WriterUnchanged, AccessUnchanged
  <2>2. s = SeededGeneration /\ s \in Nat /\ s <= lastSeed' /\ "rerotating" \in Owing
    BY <1>6, <2>1 DEF Owing
  <2>3. writers' = [writers EXCEPT ![w].at = "rerotating", ![w].read = SeededGeneration]
    BY <1>12 DEF AfterCommit, RotatesAfterCommit
  <2>4. writers' = [writers EXCEPT ![w] = WriterRowOf("rerotating", s)]
    <3> HIDE DEF s
    <3>1. writers' = [writers EXCEPT ![w].at = "rerotating", ![w].read = s]
      BY <2>2, <2>3
    <3> QED BY <3>1, <1>e, Zenon
  <2>9. Moved(w, "rerotating", s)
    <3> HIDE DEF s
    <3> QED BY <1>1, <1>6, <1>h, <2>1, <2>2, <2>4 DEF Moved
  <2> HIDE DEF s
  <2> QED BY <1>1, <1>2, <1>5, <2>2, <2>9, WriterMoves
<1>13. CASE RotateAgain(w)
  <2>1. writers' = [writers EXCEPT ![w] = WriterRowOf("ended", 0)]
    BY <1>13, <1>e, Zenon DEF RotateAgain
  <2>2. /\ a = "rerotating" /\ Increment(n)
        /\ UNCHANGED <<snapshots, reports, asks, granted, overtaken, cacheFaults>>
    BY <1>3, <1>13 DEF RotateAgain, WriterAt, WriterUnchanged, AccessUnchanged
  <2>3. 0 \in Nat /\ 0 <= lastSeed'
    BY <1>7, <2>2
  <2>4. cacheFaults' # 0 \/ lastSeed' > lastSeed
    BY <1>7, <2>2
  <2>9. Moved(w, "ended", 0)
    BY <1>1, <1>7, <1>h, <2>1, <2>2, <2>3, <2>4 DEF Moved
  <2> QED BY <1>1, <1>2, <1>5, <2>9, WriterMoves
<1>14. CASE RotationLost(w)
  <2>1. writers' = [writers EXCEPT ![w] = WriterRowOf("ended", n)]
    BY <1>14, <1>e, Zenon DEF RotationLost
  <2>2. cacheFaults' \in 0 .. MaxCacheFaults /\ cacheFaults' # 0
    BY <1>1, <1>14, SharedCacheAssumption DEF RotationLost, CacheFault
  <2>3. UNCHANGED <<snapshots, reports, asks, generation, lastSeed, granted, overtaken>>
    BY <1>14 DEF RotationLost, WriterUnchanged, AccessUnchanged
  <2>9. Moved(w, "ended", n)
    BY <1>1, <1>3, <1>h, <2>1, <2>2, <2>3 DEF Moved
  <2> QED BY <1>1, <1>2, <1>5, <2>9, WriterMoves
<1> QED BY <1>8, <1>9, <1>10, <1>11, <1>12, <1>13, <1>14

(***************************************************************************)
(* A request's step: only its own row changes, and it changes no access.   *)
(***************************************************************************)
AskMoves(q, at) ==
  /\ asks' = [p \in CacheRequests |-> IF p = q THEN asks'[q] ELSE asks[p]]
  /\ asks'[q] \in Asks /\ asks'[q].at = at

LEMMA RequestKeeps ==
  ASSUME CacheIInv, NEW q \in CacheRequests, NEW at, AskMoves(q, at),
         UNCHANGED <<granted, overtaken, writers, cacheFaults>>,
         ReadGeneration \/ UNCHANGED <<generation, lastSeed>>
  PROVE  /\ lastSeed \in Nat /\ lastSeed' \in Nat /\ lastSeed' >= lastSeed
         /\ CounterOK' /\ CacheFunctions' /\ \A w \in AccessWriters : WriterOK(w)'
         /\ \A p \in CacheRequests \ {q} : AskOK(p)' /\ asks'[p] = asks[p] /\ asks[p].gen <= lastSeed
         /\ AskOK(q) /\ asks[q] \in Asks
<1>0. CounterOK /\ CacheFunctions /\ AskOK(q) /\ asks[q] \in Asks
  BY DEF CacheIInv, AskOK
<1>1. lastSeed \in Nat /\ generation \in Nat /\ generation <= lastSeed /\ lastSeed >= 1
  BY <1>0 DEF CounterOK
<1>2. /\ lastSeed' \in Nat /\ lastSeed' >= lastSeed
      /\ generation' \in Nat /\ generation' <= lastSeed'
      /\ generation \in {0, lastSeed} => generation' \in {0, lastSeed'}
      /\ generation # 0 => generation' # 0
  <2>1. CASE ReadGeneration
    <3>1. /\ lastSeed' \in Nat /\ lastSeed' >= lastSeed /\ generation' = SeededGeneration
          /\ SeededGeneration \in 1 .. lastSeed'
          /\ generation \in {0, lastSeed} => generation' = lastSeed'
      BY <1>0, <2>1, CounterRead
    <3> QED BY <3>1
  <2>2. CASE UNCHANGED <<generation, lastSeed>>
    BY <1>1, <2>2
  <2> QED BY <2>1, <2>2
<1>3. CounterOK'
  <2>1. Rotating' => Rotating
    BY DEF Rotating
  <2> QED BY <1>0, <1>1, <1>2, <2>1 DEF CounterOK
<1>4. CacheFunctions'
  BY <1>0, Zenon DEF CacheFunctions, AskMoves
<1>5. ASSUME NEW w \in AccessWriters PROVE WriterOK(w)'
  <2>1. WriterOK(w)
    BY DEF CacheIInv
  <2> QED BY <1>1, <1>2, <2>1 DEF WriterOK, Writers
<1>6. ASSUME NEW p \in CacheRequests \ {q}
      PROVE  AskOK(p)' /\ asks'[p] = asks[p] /\ asks[p].gen <= lastSeed
  <2>1. asks'[p] = asks[p] /\ AskOK(p)
    BY DEF AskMoves, CacheIInv
  <2>2. /\ asks[p].gen \in Nat /\ asks[p].key.gen \in Nat
        /\ asks[p].gen <= lastSeed /\ asks[p].key.gen <= lastSeed
    BY <2>1 DEF AskOK, Asks, CacheKeys
  <2>3. asks[p].gen <= lastSeed' /\ asks[p].key.gen <= lastSeed'
    BY <1>1, <1>2, <2>2
  <2> QED BY <2>1, <2>2, <2>3, Zenon DEF AskOK
<1> QED BY <1>0, <1>1, <1>2, <1>3, <1>4, <1>5, <1>6

\* The latest generation, after a request's step that stores no snapshot.
LEMMA RequestLatest ==
  ASSUME CacheIInv, NEW q \in CacheRequests, NEW at, AskMoves(q, at),
         UNCHANGED <<granted, overtaken, writers, cacheFaults, snapshots>>,
         ReadGeneration \/ UNCHANGED <<generation, lastSeed>>,
         cacheFaults = 0 /\ ~ Unrotated /\ at \in {"permission", "missed", "loaded"}
           /\ asks'[q].gen = lastSeed' => Fresh(q)',
         at = "profiled" => ProfileAgrees(q)'
  PROVE  Latest' /\ Profiled'
<1>1. /\ lastSeed \in Nat /\ lastSeed' \in Nat /\ lastSeed' >= lastSeed
      /\ \A p \in CacheRequests \ {q} : asks'[p] = asks[p] /\ asks[p] \in Asks /\ asks[p].gen <= lastSeed
  <2>1. \A p \in CacheRequests : asks[p] \in Asks
    BY DEF CacheIInv, AskOK
  <2> QED BY <2>1, RequestKeeps
<1>2. asks'[q].at = at /\ (Unrotated' <=> Unrotated) /\ Latest /\ Profiled
  BY DEF AskMoves, Unrotated, CacheIInv
<1>3. \A p \in CacheRequests \ {q} : (Fresh(p)' <=> Fresh(p)) /\ (ProfileAgrees(p)' <=> ProfileAgrees(p))
  BY <1>1 DEF Fresh, ProfileAgrees, Agrees
<1>4. ASSUME cacheFaults = 0, ~ Unrotated
      PROVE  /\ \A s \in snapshots : s.gen = lastSeed' => Agrees(s.grant, s.early)
             /\ \A p \in CacheRequests : asks'[p].gen = lastSeed' => Fresh(p)'
  <2>1. ASSUME NEW s \in snapshots, s.gen = lastSeed' PROVE Agrees(s.grant, s.early)
    <3>1. s.gen \in Nat /\ s.gen <= lastSeed
      BY DEF CacheIInv, StoredOK, Snapshots
    <3>2. s.gen = lastSeed
      BY <1>1, <2>1, <3>1
    <3> QED BY <1>2, <1>4, <3>2 DEF Latest
  <2>2. ASSUME NEW p \in CacheRequests, asks'[p].gen = lastSeed' PROVE Fresh(p)'
    <3>1. CASE p = q
      <4>1. CASE at \in {"permission", "missed", "loaded"}
        BY <1>4, <2>2, <3>1, <4>1
      <4>2. CASE at \notin {"permission", "missed", "loaded"}
        BY <1>2, <3>1, <4>2 DEF Fresh
      <4> QED BY <4>1, <4>2
    <3>2. CASE p # q
      <4>1. asks[p].gen \in Nat /\ asks[p].gen = lastSeed' /\ asks[p].gen <= lastSeed
        BY <1>1, <2>2, <3>2 DEF Asks
      <4>2. asks[p].gen = lastSeed
        BY <1>1, <4>1
      <4> QED BY <1>2, <1>3, <1>4, <3>2, <4>2 DEF Latest
    <3> QED BY <3>1, <3>2
  <2> QED BY <2>1, <2>2
<1>5. \A s \in snapshots : Agrees(s.grant, s.early)' <=> Agrees(s.grant, s.early)
  BY DEF Agrees
<1>6. Profiled'
  <2>1. ASSUME NEW p \in CacheRequests, asks'[p].at = "profiled" PROVE ProfileAgrees(p)'
    <3>1. CASE p = q
      BY <1>2, <2>1, <3>1
    <3>2. CASE p # q
      BY <1>1, <1>2, <1>3, <2>1, <3>2 DEF Profiled
    <3> QED BY <3>1, <3>2
  <2> QED BY <2>1 DEF Profiled
<1>7. Latest'
  BY <1>2, <1>4, <1>5 DEF Latest
<1> QED BY <1>6, <1>7

\* Stores that do not change, or lose an entry.
LEMMA StoresShrink ==
  ASSUME StoredOK, lastSeed \in Nat, lastSeed' \in Nat, lastSeed' >= lastSeed,
         snapshots' \subseteq snapshots, reports' \subseteq reports
  PROVE  StoredOK'
<1>1. \A s \in snapshots : s \in Snapshots /\ s.gen >= 1 /\ s.gen <= lastSeed'
  BY DEF StoredOK, Snapshots
<1>2. \A r \in reports : r \in Payloads /\ r.key.gen <= lastSeed' /\ r.key.print = {r.built}
  BY DEF StoredOK, Payloads, CacheKeys
<1> QED BY <1>1, <1>2, Zenon DEF StoredOK

LEMMA RequestStep ==
  ASSUME CacheIInv, NEW q \in CacheRequests,
         \/ ReadProfile(q) \/ ReadPermissionGeneration(q) \/ LookUpSnapshot(q) \/ LoadFromDatabase(q)
         \/ StoreSnapshot(q) \/ BuildKey(q) \/ ServeReport(q)
  PROVE  CacheIInv'
<1>0. /\ CounterOK /\ StoredOK /\ Latest /\ Profiled /\ AskOK(q) /\ asks \in [CacheRequests -> Asks]
      /\ lastSeed \in Nat /\ lastSeed >= 1 /\ granted \in Access
  <2>1. CounterOK /\ StoredOK /\ Latest /\ Profiled /\ CacheFunctions /\ \A p \in CacheRequests : AskOK(p)
    BY DEF CacheIInv
  <2>2. \A p \in CacheRequests : asks[p] \in Asks
    BY <2>1 DEF AskOK
  <2>3. asks \in [CacheRequests -> Asks]
    BY <2>1, <2>2 DEF CacheFunctions
  <2> QED BY <2>1, <2>3 DEF CounterOK
<1>1. /\ asks[q] \in Asks /\ asks[q].gen \in Nat /\ asks[q].key \in CacheKeys
      /\ asks[q].profile \in SUBSET Grants
      /\ asks[q].grant \in SUBSET Access /\ asks[q].answer \in SUBSET Access
      /\ asks[q].gen <= lastSeed /\ asks[q].key.gen <= lastSeed
  BY <1>0 DEF AskOK, Asks
\* What is left of every case.
<1>2. ASSUME NEW at, AskMoves(q, at), UNCHANGED <<granted, overtaken, writers, cacheFaults>>,
             ReadGeneration \/ UNCHANGED <<generation, lastSeed>>,
             AskOK(q)', StoredOK', Latest', Profiled'
      PROVE  CacheIInv'
  <2>1. /\ CounterOK' /\ CacheFunctions' /\ \A w \in AccessWriters : WriterOK(w)'
        /\ \A p \in CacheRequests \ {q} : AskOK(p)'
    BY <1>2, RequestKeeps
  <2> QED BY <1>2, <2>1, Zenon DEF CacheIInv
<1>3. /\ {"profiled", "permission", "missed", "loaded", "scoped", "keyed", "served"} \subseteq AskSteps
      /\ NoKey \in CacheKeys /\ NoKey.gen = 0
  BY DEF AskSteps, NoKey, CacheKeys
<1>4. ASSUME ReadGeneration
      PROVE  /\ lastSeed' \in Nat /\ lastSeed' >= lastSeed
             /\ SeededGeneration \in Nat /\ SeededGeneration >= 1 /\ SeededGeneration <= lastSeed'
  <2>1. lastSeed' \in Nat /\ lastSeed' >= lastSeed /\ SeededGeneration \in 1 .. lastSeed'
    BY <1>0, <1>4, CounterRead
  <2> QED BY <2>1
<1>a. CASE ReadProfile(q)
  <2> DEFINE p == granted.profile
  <2>1. /\ asks' = [asks EXCEPT ![q].at = "profiled", ![q].profile = {p}]
        /\ asks[q].at = "new"
        /\ UNCHANGED <<granted, overtaken, writers, cacheFaults, snapshots, reports, generation, lastSeed>>
    BY <1>a DEF ReadProfile, RequestUnchanged, AccessUnchanged, AskAt
  <2>2. p \in Grants /\ p' = p
    BY <1>0, <2>1 DEF Access
  <2>3. /\ AskMoves(q, "profiled")
        /\ asks'[q].gen = asks[q].gen /\ asks'[q].grant = asks[q].grant
        /\ asks'[q].key = asks[q].key /\ asks'[q].profile = {p}
    <3> HIDE DEF p
    <3> QED BY <1>0, <1>3, <2>1, <2>2 DEF AskMoves, Asks
  <2>4. AskOK(q)' /\ ProfileAgrees(q)'
    BY <1>0, <2>1, <2>2, <2>3 DEF AskOK, AskMoves, ProfileAgrees
  <2>5. StoredOK'
    BY <1>0, <2>1, StoresShrink
  <2>6. Latest' /\ Profiled'
    BY <2>1, <2>3, <2>4, RequestLatest
  <2> QED BY <1>2, <2>1, <2>3, <2>4, <2>5, <2>6
<1>5. CASE ReadPermissionGeneration(q)
  <2>1. /\ asks' = [asks EXCEPT ![q].at = "permission", ![q].gen = SeededGeneration]
        /\ asks[q].at = "profiled" /\ ReadGeneration
        /\ UNCHANGED <<granted, overtaken, writers, cacheFaults, snapshots, reports>>
    BY <1>5 DEF ReadPermissionGeneration, RequestUnchanged, AccessUnchanged, AskAt
  <2> DEFINE s == SeededGeneration
  <2> HIDE DEF s
  <2>2. s \in Nat /\ s >= 1 /\ s <= lastSeed' /\ lastSeed' \in Nat /\ lastSeed' >= lastSeed
    BY <1>4, <2>1 DEF s
  <2>3. /\ AskMoves(q, "permission")
        /\ asks'[q].gen = s /\ asks'[q].grant = asks[q].grant /\ asks'[q].key = asks[q].key
        /\ asks'[q].profile = asks[q].profile
    <3>1. asks' = [asks EXCEPT ![q].at = "permission", ![q].gen = s]
      BY <2>1 DEF s
    <3> QED BY <1>0, <1>3, <2>2, <3>1 DEF AskMoves, Asks
  <2>4. asks[q].key.gen <= lastSeed'
    BY <1>0, <1>1, <2>2 DEF CacheKeys
  <2>5. AskOK(q)'
    BY <1>0, <2>1, <2>2, <2>3, <2>4 DEF AskOK, AskMoves
  <2>6. StoredOK'
    BY <1>0, <2>1, <2>2, StoresShrink
  <2>7. Fresh(q)'
    <3>1. asks'[q].at = "permission" /\ ProfileAgrees(q)
      BY <1>0, <2>1, <2>3 DEF Profiled, AskMoves
    <3> QED BY <2>1, <2>3, <3>1 DEF Fresh, ProfileAgrees
  <2>8. Latest' /\ Profiled'
    BY <2>1, <2>3, <2>7, RequestLatest
  <2> QED BY <1>2, <2>1, <2>3, <2>5, <2>6, <2>8
<1>6. CASE LookUpSnapshot(q)
  <2> DEFINE hits == {s \in snapshots : s.gen = asks[q].gen}
             found == {s.grant : s \in hits}
  <2>1. /\ asks' = IF hits = {} THEN [asks EXCEPT ![q].at = "missed"]
                   ELSE [asks EXCEPT ![q].at = "scoped", ![q].profile = {}, ![q].grant = found]
        /\ asks[q].at = "permission"
        /\ UNCHANGED <<granted, overtaken, writers, cacheFaults, snapshots, reports, generation, lastSeed>>
    BY <1>6 DEF LookUpSnapshot, RequestUnchanged, AccessUnchanged, AskAt
  <2>2. ASSUME hits # {} PROVE found \in Singles /\ found \in SUBSET Access
    <3>1. PICK s \in hits : TRUE
      BY <2>2
    <3>2. found = {s.grant} /\ s.grant \in Access
      BY <1>0 DEF StoredOK, Snapshots
    <3> QED BY <3>2 DEF Singles
  <2> HIDE DEF found, hits
  <2>3. StoredOK'
    BY <1>0, <2>1, StoresShrink
  <2>4. CASE hits = {}
    <3>1. /\ AskMoves(q, "missed") /\ asks'[q].profile = asks[q].profile
          /\ asks'[q].gen = asks[q].gen /\ asks'[q].grant = asks[q].grant /\ asks'[q].key = asks[q].key
      BY <1>0, <1>3, <2>1, <2>4 DEF AskMoves, Asks
    <3>2. AskOK(q)'
      BY <1>0, <2>1, <3>1 DEF AskOK, AskMoves
    <3>3. cacheFaults = 0 /\ ~ Unrotated /\ asks'[q].gen = lastSeed' => Fresh(q)'
      BY <1>0, <2>1, <3>1 DEF Latest, Fresh, ProfileAgrees, AskMoves
    <3>4. Latest' /\ Profiled'
      BY <2>1, <3>1, <3>3, RequestLatest
    <3> QED BY <1>2, <2>1, <2>3, <3>1, <3>2, <3>4
  <2>5. CASE hits # {}
    <3>1. /\ AskMoves(q, "scoped")
          /\ asks'[q].gen = asks[q].gen /\ asks'[q].grant = found /\ asks'[q].key = asks[q].key
      BY <1>0, <1>3, <2>1, <2>2, <2>5 DEF AskMoves, Asks
    <3>2. AskOK(q)'
      BY <1>0, <2>1, <2>2, <2>5, <3>1 DEF AskOK, AskMoves
    <3>3. Latest' /\ Profiled'
      BY <2>1, <3>1, RequestLatest
    <3> QED BY <1>2, <2>1, <2>3, <3>1, <3>2, <3>3
  <2> QED BY <2>4, <2>5
<1>7. CASE LoadFromDatabase(q)
  <2>1. /\ asks' = [asks EXCEPT ![q].at = "loaded", ![q].profile = {},
                       ![q].grant = {[profile |-> p, rows |-> granted.rows] : p \in asks[q].profile}]
        /\ asks[q].at = "missed"
        /\ UNCHANGED <<granted, overtaken, writers, cacheFaults, snapshots, reports, generation, lastSeed>>
    BY <1>7 DEF LoadFromDatabase, RequestUnchanged, AccessUnchanged, AskAt
  <2>2. PICK p \in Grants : asks[q].profile = {p}
    BY <1>0, <2>1 DEF AskOK
  <2> DEFINE g == [profile |-> p, rows |-> granted.rows]
  <2>3. g \in Access /\ g.profile = p /\ g.rows = granted.rows
    BY <1>0 DEF Access
  <2>4. asks' = [asks EXCEPT ![q].at = "loaded", ![q].profile = {}, ![q].grant = {g}]
    BY <2>1, <2>2
  <2> HIDE DEF g
  <2>5. {g} \in Singles /\ {g} \in SUBSET Access
    BY <2>3 DEF Singles
  <2>6. /\ AskMoves(q, "loaded")
        /\ asks'[q].gen = asks[q].gen /\ asks'[q].grant = {g} /\ asks'[q].key = asks[q].key
    BY <1>0, <1>3, <2>4, <2>5 DEF AskMoves, Asks
  <2>7. AskOK(q)'
    BY <1>0, <2>1, <2>5, <2>6 DEF AskOK, AskMoves
  <2>8. StoredOK'
    BY <1>0, <2>1, StoresShrink
  <2>9. cacheFaults = 0 /\ ~ Unrotated /\ asks'[q].gen = lastSeed' => Fresh(q)'
    <3> SUFFICES ASSUME cacheFaults = 0, ~ Unrotated, asks'[q].gen = lastSeed' PROVE Fresh(q)'
      OBVIOUS
    <3>1. ProfileAgrees(q)
      BY <1>0, <2>1, <2>6 DEF Latest, Fresh
    <3>2. Agrees(g, q \in overtaken)
      BY <2>2, <2>3, <3>1 DEF ProfileAgrees, Agrees
    <3>3. g.rows = granted'.rows /\ (q \in overtaken' \/ g.profile = granted'.profile)
      BY <2>1, <3>2 DEF Agrees
    <3>4. \A h \in asks'[q].grant : h.rows = granted'.rows /\ (q \in overtaken' \/ h.profile = granted'.profile)
      BY <2>6, <3>3
    <3> QED BY <2>6, <3>4 DEF Fresh, AskMoves, Agrees
  <2>10. Latest' /\ Profiled'
    BY <2>1, <2>6, <2>9, RequestLatest
  <2> QED BY <1>2, <2>1, <2>6, <2>7, <2>8, <2>10
<1>8. CASE StoreSnapshot(q)
  <2>1. /\ asks' = [asks EXCEPT ![q].at = "scoped"] /\ asks[q].at = "loaded"
        /\ snapshots' = {s \in snapshots : s.gen # asks[q].gen}
                        \cup {[gen |-> asks[q].gen, grant |-> g, early |-> q \in overtaken] :
                                 g \in asks[q].grant}
        /\ UNCHANGED <<granted, overtaken, writers, cacheFaults, reports, generation, lastSeed>>
    BY <1>8 DEF StoreSnapshot, StoredUnder, RequestUnchanged, AccessUnchanged, AskAt
  <2>2. PICK g \in Access : asks[q].grant = {g}
    BY <1>0, <2>1 DEF AskOK, Singles
  <2> DEFINE new == [gen |-> asks[q].gen, grant |-> g, early |-> q \in overtaken]
             others == {s \in snapshots : s.gen # asks[q].gen}
  <2>3. snapshots' = others \cup {new}
    BY <2>1, <2>2
  <2>4. /\ new \in Snapshots /\ new.gen = asks[q].gen /\ new.grant = g
        /\ new.early = (q \in overtaken)
        /\ new.gen >= 1 /\ new.gen <= lastSeed
    BY <1>0, <1>1, <2>1 DEF AskOK, Snapshots
  <2>5. others \subseteq snapshots /\ \A s \in others : s.gen # new.gen
    BY <2>4
  <2> HIDE DEF new, others
  <2>6. StoredOK'
    <3>1. \A s \in snapshots' : s \in Snapshots /\ s.gen >= 1 /\ s.gen <= lastSeed'
      BY <1>0, <2>1, <2>3, <2>4, <2>5 DEF StoredOK
    <3>2. \A s, t \in snapshots' : s.gen = t.gen => s.grant = t.grant
      BY <1>0, <2>3, <2>5 DEF StoredOK
    <3>3. \A r \in reports' : r \in Payloads /\ r.key.gen <= lastSeed' /\ r.key.print = {r.built}
      BY <1>0, <2>1 DEF StoredOK
    <3> QED BY <3>1, <3>2, <3>3, Zenon DEF StoredOK
  <2>7. /\ AskMoves(q, "scoped")
        /\ asks'[q].gen = asks[q].gen /\ asks'[q].grant = asks[q].grant /\ asks'[q].key = asks[q].key
    BY <1>0, <1>3, <2>1 DEF AskMoves, Asks
  <2>8. AskOK(q)'
    BY <1>0, <2>1, <2>7 DEF AskOK, AskMoves
  <2>9. /\ (Unrotated' <=> Unrotated) /\ asks'[q].at = "scoped"
        /\ \A p \in CacheRequests \ {q} : /\ asks'[p] = asks[p] /\ (Fresh(p)' <=> Fresh(p))
                                         /\ (ProfileAgrees(p)' <=> ProfileAgrees(p))
    BY <2>1, <2>7 DEF Unrotated, AskMoves, Fresh, ProfileAgrees, Agrees
  <2>10. Fresh(q)'
    BY <2>9 DEF Fresh
  <2>11. \A s \in snapshots' : Agrees(s.grant, s.early)' <=> Agrees(s.grant, s.early)
    BY <2>1 DEF Agrees
  <2>12. Latest'
    <3>1. ASSUME cacheFaults = 0, ~ Unrotated
          PROVE  /\ \A s \in snapshots' : s.gen = lastSeed => Agrees(s.grant, s.early)
                 /\ \A p \in CacheRequests : asks'[p].gen = lastSeed => Fresh(p)'
      <4>1. asks[q].gen = lastSeed => Agrees(new.grant, new.early)
        BY <1>0, <2>1, <2>2, <2>4, <3>1 DEF Latest, Fresh
      <4>2. \A s \in others : s.gen = lastSeed => Agrees(s.grant, s.early)
        BY <1>0, <2>5, <3>1 DEF Latest
      <4>3. \A p \in CacheRequests : asks'[p].gen = lastSeed => Fresh(p)'
        BY <1>0, <2>9, <2>10, <3>1 DEF Latest
      <4> QED BY <2>3, <2>4, <4>1, <4>2, <4>3
    <3> QED BY <2>1, <2>9, <2>11, <3>1 DEF Latest
  <2>13. Profiled'
    BY <1>0, <2>9 DEF Profiled
  <2> QED BY <1>2, <2>1, <2>6, <2>7, <2>8, <2>12, <2>13
<1>9. CASE BuildKey(q)
  <2> DEFINE s == SeededGeneration
             k == [gen |-> s, print |-> asks[q].grant]
  <2>1. /\ asks' = [asks EXCEPT ![q].at = "keyed", ![q].gen = 0, ![q].key = k]
        /\ asks[q].at = "scoped" /\ ReadGeneration
        /\ UNCHANGED <<granted, overtaken, writers, cacheFaults, snapshots, reports>>
    BY <1>9 DEF BuildKey, Fingerprint, RequestUnchanged, AccessUnchanged, AskAt
  <2> HIDE DEF s
  <2>2. s \in Nat /\ s <= lastSeed' /\ lastSeed' \in Nat /\ lastSeed' >= lastSeed
    BY <1>4, <2>1 DEF s
  <2>3. k \in CacheKeys /\ k.gen = s /\ k.print = asks[q].grant
    BY <1>1, <2>2 DEF CacheKeys
  <2> HIDE DEF k
  <2>4. /\ AskMoves(q, "keyed")
        /\ asks'[q].gen = 0 /\ asks'[q].grant = asks[q].grant /\ asks'[q].key = k
    BY <1>0, <1>3, <2>1, <2>3 DEF AskMoves, Asks
  <2>5. AskOK(q)'
    BY <1>0, <2>1, <2>2, <2>3, <2>4 DEF AskOK, AskMoves
  <2>6. StoredOK'
    BY <1>0, <2>1, <2>2, StoresShrink
  <2>7. Latest' /\ Profiled'
    BY <2>1, <2>4, RequestLatest
  <2> QED BY <1>2, <2>1, <2>4, <2>5, <2>6, <2>7
<1>10. CASE ServeReport(q)
  <2> DEFINE g == asks[q].grant
  <2>1. asks[q].at = "keyed" /\ UNCHANGED <<granted, overtaken, writers, cacheFaults, snapshots, generation, lastSeed>>
    BY <1>10 DEF ServeReport, RequestUnchanged, AccessUnchanged, AskAt
  <2>2. g \in Singles /\ g \in SUBSET Access /\ asks[q].key.print = g
    BY <1>0, <1>1, <2>1 DEF AskOK
  <2>3. PICK x \in Access : g = {x}
    BY <2>2 DEF Singles
  \* What is stored under a key was built for the grant the key names.
  <2>4. Answered(q) = g
    <3>1. \A r \in Cached(q) : {r.built} = g
      BY <1>0, <2>2 DEF Cached, StoredOK
    <3>2. \A r \in Cached(q) : r.built = x
      BY <2>3, <3>1
    <3> QED BY <2>3, <3>2 DEF Answered
  <2> DEFINE new == [key |-> asks[q].key, built |-> x]
  <2>5. /\ asks' = [asks EXCEPT ![q].at = "served", ![q].answer = g, ![q].key = NoKey]
        /\ reports' = {r \in reports : r.key # asks[q].key} \cup {new}
    <3>1. /\ asks' = [asks EXCEPT ![q].at = "served", ![q].answer = Answered(q), ![q].key = NoKey]
          /\ reports' = {r \in reports : r.key # asks[q].key}
                        \cup {[key |-> asks[q].key, built |-> y] : y \in Answered(q)}
      BY <1>10 DEF ServeReport
    <3>2. {[key |-> asks[q].key, built |-> y] : y \in Answered(q)} = {new}
      BY <2>3, <2>4
    <3> QED BY <2>4, <3>1, <3>2
  <2>6. new \in Payloads /\ new.key = asks[q].key /\ new.built = x
    BY <1>1 DEF Payloads
  <2> HIDE DEF g, new
  <2>7. StoredOK'
    <3>1. \A s \in snapshots' : s \in Snapshots /\ s.gen >= 1 /\ s.gen <= lastSeed'
      BY <1>0, <2>1 DEF StoredOK
    <3>2. \A s, t \in snapshots' : s.gen = t.gen => s.grant = t.grant
      BY <1>0, <2>1 DEF StoredOK
    <3>3. ASSUME NEW r \in reports' PROVE r \in Payloads /\ r.key.gen <= lastSeed' /\ r.key.print = {r.built}
      <4>1. r \in reports \/ r = new
        BY <2>5
      <4> QED BY <1>0, <1>1, <2>1, <2>2, <2>3, <2>6, <4>1 DEF StoredOK
    <3> QED BY <3>1, <3>2, <3>3, Zenon DEF StoredOK
  <2>8. /\ AskMoves(q, "served")
        /\ asks'[q].gen = asks[q].gen /\ asks'[q].grant = g
        /\ asks'[q].key = NoKey /\ asks'[q].answer = g
    <3>1. g = asks[q].grant
      BY DEF g
    <3> QED BY <1>0, <1>3, <2>2, <2>5, <3>1 DEF AskMoves, Asks
  <2>9. AskOK(q)'
    BY <1>0, <1>3, <2>1, <2>2, <2>8 DEF AskOK, AskMoves
  <2>10. Latest' /\ Profiled'
    BY <2>1, <2>8, RequestLatest
  <2> QED BY <1>2, <2>1, <2>7, <2>8, <2>9, <2>10
<1> QED BY <1>a, <1>5, <1>6, <1>7, <1>8, <1>9, <1>10

LEMMA EvictionStep ==
  ASSUME CacheIInv, EvictGeneration \/ ExpireSnapshot \/ ExpireReport \/ UNCHANGED cacheVars
  PROVE  CacheIInv'
<1>0. /\ CounterOK /\ StoredOK /\ Latest /\ Profiled /\ CacheFunctions
      /\ lastSeed \in Nat /\ lastSeed >= 1 /\ MaxCacheFaults \in Nat
      /\ cacheFaults \in 0 .. MaxCacheFaults
  BY SharedCacheAssumption DEF CacheIInv, CounterOK
<1>1. UNCHANGED <<granted, overtaken, writers, lastSeed, asks>> /\ snapshots' \subseteq snapshots
      /\ reports' \subseteq reports
  BY DEF EvictGeneration, ExpireSnapshot, ExpireReport, WriterUnchanged, AccessUnchanged, cacheVars
<1>2. /\ cacheFaults' \in 0 .. MaxCacheFaults /\ (cacheFaults' = 0 => cacheFaults = 0)
      /\ \/ UNCHANGED generation
         \/ generation' = 0 /\ (Rotating => cacheFaults' # 0)
  <2>1. CASE EvictGeneration
    BY <1>0, <2>1 DEF EvictGeneration, CacheFault
  <2>2. CASE ExpireSnapshot \/ ExpireReport \/ UNCHANGED cacheVars
    BY <1>0, <2>2 DEF ExpireSnapshot, ExpireReport, cacheVars
  <2> QED BY <2>1, <2>2
<1>3. CounterOK'
  <2>1. Rotating' <=> Rotating
    BY <1>1 DEF Rotating
  <2> QED BY <1>0, <1>1, <1>2, <2>1 DEF CounterOK
<1>4. StoredOK'
  BY <1>0, <1>1, StoresShrink
<1>5. Latest'
  <2>1. Unrotated' <=> Unrotated
    BY <1>1 DEF Unrotated
  <2>2. \A q \in CacheRequests : Fresh(q)' <=> Fresh(q)
    BY <1>1 DEF Fresh, ProfileAgrees, Agrees
  <2>3. \A s \in snapshots : Agrees(s.grant, s.early)' <=> Agrees(s.grant, s.early)
    BY <1>1 DEF Agrees
  <2> QED BY <1>0, <1>1, <1>2, <2>1, <2>2, <2>3 DEF Latest
<1>6. CacheFunctions' /\ (\A w \in AccessWriters : WriterOK(w)') /\ \A q \in CacheRequests : AskOK(q)'
  <2>1. \A w \in AccessWriters : WriterOK(w)'
    BY <1>1, Zenon DEF CacheIInv, WriterOK
  <2>2. \A q \in CacheRequests : AskOK(q)'
    BY <1>1, Zenon DEF CacheIInv, AskOK
  <2>3. CacheFunctions'
    BY <1>0, <1>1, Zenon DEF CacheFunctions
  <2> QED BY <2>1, <2>2, <2>3
<1>7. Profiled'
  BY <1>0, <1>1 DEF Profiled, ProfileAgrees
<1> QED BY <1>3, <1>4, <1>5, <1>6, <1>7 DEF CacheIInv

LEMMA CacheStep == CacheIInv /\ [CacheNext]_cacheVars => CacheIInv'
BY WriterStep, RequestStep, EvictionStep DEF CacheNext

(***************************************************************************)
(* Neither a snapshot nor a report outlives the access it was made for,    *)
(* but for a lost rotation and for the profile that a request carries past *)
(* a change (safe_cache_generation, _invalidate_now_and_after_commit,      *)
(* employee_profile_for_user).                                             *)
(***************************************************************************)
THEOREM CacheCorrect == CacheSpec => []CacheInv
<1> QED BY InitCache, CacheStep, CacheHolds, PTL DEF CacheSpec
-----------------------------------------------------------------------------
(***************************************************************************)
(* OrganizationTree: what one edit under way relies on between its         *)
(* validation and its save.                                                *)
(***************************************************************************)
UnitTyped(row) == row \in UnitRows \cup {NoUnit}

EditOK(e) ==
  editing[e] # NotEditing => editing[e].unit \in Units /\ editing[e].row \in UnitRows

\* The row fits the tree as it is: its parent above it, its children below.
RowFits(u, row) ==
  /\ IF row.type = "branch" THEN row.parent = Root
     ELSE row.parent \in Units \ {u} /\ unit[row.parent].type = ParentType(row.type)
  /\ \A c \in Units : Present(c) /\ unit[c].parent = u => unit[c].type = ChildType(row.type)

Alone ==
  /\ StrictTree
  /\ \A e \in Editors : editing[e] # NotEditing => RowFits(editing[e].unit, editing[e].row)
  /\ \A e, f \in Editors : editing[e] # NotEditing /\ editing[f] # NotEditing => e = f

TreeIInv ==
  /\ TreeTypeOK /\ \A e \in Editors : EditOK(e)
  /\ overlapped \/ Alone

LEMMA UnitFacts ==
  /\ Root \notin Units /\ NoUnit \notin UnitRows /\ NoUnit.parent = Root /\ NoUnit.type = "absent"
  /\ \A row \in UnitRows : row.type \in UnitTypes /\ row.parent \in Units \cup {Root}
  /\ \A t \in UnitTypes : ParentType(t) # t /\ ChildType(t) # t
  /\ \A s, t \in UnitTypes : s = ChildType(t) => t = ParentType(s) /\ s # "branch"
  /\ \A t \in UnitTypes : t # "branch" => ParentType(t) # "absent"
<1>1. Root \notin Units
  BY OrganizationTreeAssumption DEF Root
<1>2. NoUnit \notin UnitRows /\ NoUnit.parent = Root /\ NoUnit.type = "absent"
  BY DEF NoUnit, UnitRows, UnitTypes
<1>3. \A row \in UnitRows : row.type \in UnitTypes /\ row.parent \in Units \cup {Root}
  BY DEF UnitRows
<1>4. /\ \A t \in UnitTypes : ParentType(t) # t /\ ChildType(t) # t
      /\ \A s, t \in UnitTypes : s = ChildType(t) => t = ParentType(s) /\ s # "branch"
      /\ \A t \in UnitTypes : t # "branch" => ParentType(t) # "absent"
  BY DEF UnitTypes, ParentType, ChildType
<1> QED BY <1>1, <1>2, <1>3, <1>4

LEMMA InitTree == TreeInit => TreeIInv
<1> SUFFICES ASSUME TreeInit PROVE TreeIInv
  OBVIOUS
<1>1. unit \in [Units -> UnitRows] /\ StrictTree /\ \A u \in Units : Present(u)
  BY UnitFacts DEF TreeInit, Present
<1>2. place \in [Members -> Units]
  <2> DEFINE shifts == {u \in Units : unit[u].type = "shift"}
  <2>1. shifts \subseteq Units /\ (place \in [Members -> shifts] \/ place \in [Members -> Units])
    BY DEF TreeInit
  <2> HIDE DEF shifts
  <2> QED BY <2>1
<1>3. rule \in [Units -> [Buyers -> [set : BOOLEAN, allow : BOOLEAN, inherit : BOOLEAN]]]
  <2>1. {NoRule} \cup [set : {TRUE}, allow : BOOLEAN, inherit : BOOLEAN]
          \subseteq [set : BOOLEAN, allow : BOOLEAN, inherit : BOOLEAN]
    <3>1. NoRule \in [set : BOOLEAN, allow : BOOLEAN, inherit : BOOLEAN]
      BY DEF NoRule
    <3>2. {TRUE} \subseteq BOOLEAN
      BY Zenon
    <3>3. ASSUME NEW A, NEW B, A \subseteq B
          PROVE  [set : A, allow : BOOLEAN, inherit : BOOLEAN]
                   \subseteq [set : B, allow : BOOLEAN, inherit : BOOLEAN]
      BY <3>3
    <3>4. [set : {TRUE}, allow : BOOLEAN, inherit : BOOLEAN]
            \subseteq [set : BOOLEAN, allow : BOOLEAN, inherit : BOOLEAN]
      BY <3>2, <3>3, Zenon
    <3> QED BY <3>1, <3>4, Zenon
  <2> DEFINE S == {NoRule} \cup [set : {TRUE}, allow : BOOLEAN, inherit : BOOLEAN]
             T == [set : BOOLEAN, allow : BOOLEAN, inherit : BOOLEAN]
  <2>2. rule \in [Units -> [Buyers -> S]] /\ S \subseteq T
    BY <2>1 DEF TreeInit
  <2> HIDE DEF S, T
  <2>3. rule \in [Units -> [Buyers -> T]]
    BY <2>2
  <2> QED BY <2>3 DEF T
<1>4. /\ allotted = Buyers /\ treeEdits = 0 /\ overlapped = FALSE
      /\ editing = [e \in Editors |-> NotEditing]
  BY DEF TreeInit
<1>5. editing \in [Editors -> [unit : Units \cup {Root}, row : UnitRows \cup {NoUnit}]]
  <2>1. NotEditing \in [unit : Units \cup {Root}, row : UnitRows \cup {NoUnit}]
    BY DEF NotEditing
  <2> QED BY <1>4, <2>1
<1>6. 0 \in 0 .. MaxTreeEdits
  BY OrganizationTreeAssumption
<1>7. TreeTypeOK
  <2>1. unit \in [Units -> UnitRows \cup {NoUnit}]
    BY <1>1
  <2>2. \A m \in Members : place[m] \in Units
    BY <1>2
  <2>3. place \in [Members -> Units \cup {Root}]
    BY <1>2
  <2> QED BY <1>1, <1>3, <1>4, <1>5, <1>6, <2>1, <2>2, <2>3 DEF TreeTypeOK
<1>8. \A e \in Editors : editing[e] = NotEditing
  BY <1>4
<1> QED BY <1>1, <1>7, <1>8 DEF TreeIInv, EditOK, Alone

\* A step that changes neither the units nor the edits under way.
LEMMA TreeUntouched ==
  ASSUME TreeIInv, UNCHANGED <<unit, editing, overlapped>>, TreeTypeOK'
  PROVE  TreeIInv'
<1>1. (\A e \in Editors : EditOK(e))' /\ (overlapped \/ Alone)'
  BY Zenon DEF TreeIInv, EditOK, Alone, StrictTree, RowFits, Present
<1> QED BY <1>1 DEF TreeIInv

LEMMA ValidateUnitStep ==
  ASSUME TreeIInv, NEW e \in Editors, ValidateUnit(e)
  PROVE  TreeIInv'
<1>1. PICK u \in Units, row \in UnitRows :
        /\ row.parent \in {Root} \cup {v \in Units : Present(v)} /\ ValidRow(u, row)
        /\ editing' = [editing EXCEPT ![e] = [unit |-> u, row |-> row]]
  BY DEF ValidateUnit
<1>2. /\ UNCHANGED <<unit, rule, place, allotted>> /\ CountEdit
      /\ overlapped' = (overlapped \/ \E f \in Editors : editing[f] # NotEditing)
  BY DEF ValidateUnit
<1> DEFINE new == [unit |-> u, row |-> row]
           K == [unit : Units \cup {Root}, row : UnitRows \cup {NoUnit}]
<1>3. new.unit = u /\ new.row = row /\ new \in K
  OBVIOUS
<1>4. new # NotEditing
  BY <1>3, UnitFacts DEF NotEditing
<1>5. editing \in [Editors -> K] /\ overlapped \in BOOLEAN
  BY DEF TreeIInv, TreeTypeOK
<1> HIDE DEF new, K
<1>6. /\ editing' \in [Editors -> K] /\ editing'[e] = new
      /\ \A f \in Editors \ {e} : editing'[f] = editing[f]
  BY <1>1, <1>3, <1>5 DEF new
<1>7. treeEdits' \in 0 .. MaxTreeEdits /\ overlapped' \in BOOLEAN
  <2>1. treeEdits \in 0 .. MaxTreeEdits /\ MaxTreeEdits \in Nat
    BY OrganizationTreeAssumption DEF TreeIInv, TreeTypeOK
  <2> QED BY <1>2, <1>5, <2>1 DEF CountEdit
<1>8. TreeTypeOK'
  <2>1. TreeTypeOK
    BY DEF TreeIInv
  <2> QED BY <1>2, <1>6, <1>7, <2>1 DEF TreeTypeOK, Present, K
<1>9. ASSUME NEW f \in Editors PROVE EditOK(f)'
  <2>1. CASE f = e
    BY <1>3, <1>6, <2>1 DEF EditOK
  <2>2. CASE f # e
    <3>1. editing'[f] = editing[f] /\ EditOK(f)
      BY <1>6, <2>2 DEF TreeIInv
    <3> QED BY <3>1, Zenon DEF EditOK
  <2> QED BY <2>1, <2>2
<1>10. ASSUME ~ overlapped' PROVE Alone'
  <2>1. Alone /\ \A f \in Editors : editing[f] = NotEditing
    BY <1>2, <1>10 DEF TreeIInv
  <2>2. \A f \in Editors : editing'[f] # NotEditing => f = e
    BY <1>6, <2>1
  <2>3. RowFits(u, row)
    <3>1. IF row.type = "branch" THEN row.parent = Root
          ELSE row.parent \in Units \ {u} /\ unit[row.parent].type = ParentType(row.type)
      BY <1>1 DEF ValidRow
    <3>2. \A c \in Units : Present(c) /\ unit[c].parent = u => unit[c].type = ChildType(row.type)
      BY <1>1 DEF ValidRow, ChildrenOf
    <3> QED BY <3>1, <3>2, Zenon DEF RowFits
  <2>4. RowFits(u, row)'
    BY <1>2, <2>3, Zenon DEF RowFits, Present
  <2>5. StrictTree'
    BY <1>2, <2>1, Zenon DEF Alone, StrictTree, Present
  <2>6. \A f \in Editors : editing'[f] # NotEditing => editing'[f].unit = u /\ editing'[f].row = row
    BY <1>3, <1>6, <2>2
  <2>7. ASSUME NEW f \in Editors, editing'[f] # NotEditing PROVE RowFits(editing[f].unit, editing[f].row)'
    <3>1. f = e /\ editing'[f].unit = u /\ editing'[f].row = row
      BY <2>2, <2>6, <2>7
    <3> QED BY <2>4, <3>1, Zenon DEF RowFits, Present
  <2> QED BY <2>2, <2>5, <2>7, Zenon DEF Alone
<1> QED BY <1>8, <1>9, <1>10, Zenon DEF TreeIInv

LEMMA SaveUnitStep ==
  ASSUME TreeIInv, NEW e \in Editors, SaveUnit(e)
  PROVE  TreeIInv'
<1> DEFINE u == editing[e].unit
           row == editing[e].row
           K == [unit : Units \cup {Root}, row : UnitRows \cup {NoUnit}]
<1>1. /\ editing[e] # NotEditing /\ editing' = [editing EXCEPT ![e] = NotEditing]
      /\ UNCHANGED <<rule, place, allotted, treeEdits, overlapped>>
      /\ unit' = unit \/ unit' = [unit EXCEPT ![u] = row]
  BY DEF SaveUnit
<1>2. u \in Units /\ row \in UnitRows
  BY <1>1 DEF TreeIInv, EditOK
<1>3. editing \in [Editors -> K] /\ unit \in [Units -> UnitRows \cup {NoUnit}]
  BY DEF TreeIInv, TreeTypeOK
<1>4. NotEditing \in K
  BY DEF NotEditing
<1> HIDE DEF K, u, row
<1>5. /\ editing' \in [Editors -> K] /\ editing'[e] = NotEditing
      /\ \A f \in Editors \ {e} : editing'[f] = editing[f]
  BY <1>1, <1>3, <1>4
<1>6. \/ unit' = unit
      \/ /\ unit' \in [Units -> UnitRows \cup {NoUnit}] /\ unit'[u] = row /\ unit'[u] # NoUnit
         /\ \A v \in Units \ {u} : unit'[v] = unit[v]
  BY <1>1, <1>2, <1>3, UnitFacts
<1>7. \A v \in Units : unit[v] # NoUnit => unit'[v] # NoUnit
  BY <1>6
<1>8. TreeTypeOK'
  <2>1. TreeTypeOK
    BY DEF TreeIInv
  <2>2. unit' \in [Units -> UnitRows \cup {NoUnit}]
    BY <1>3, <1>6
  <2>3. \A m \in Members : place[m] # Root => place[m] \in Units /\ unit[place[m]] # NoUnit
    BY <2>1 DEF TreeTypeOK, Present
  <2>4. \A m \in Members : place'[m] # Root => unit'[place'[m]] # NoUnit
    BY <1>1, <1>7, <2>3
  <2> QED BY <1>1, <1>5, <2>1, <2>2, <2>4 DEF TreeTypeOK, Present, K
<1>9. ASSUME NEW f \in Editors PROVE EditOK(f)'
  <2>1. CASE f = e
    BY <1>5, <2>1 DEF EditOK
  <2>2. CASE f # e
    <3>1. editing'[f] = editing[f] /\ EditOK(f)
      BY <1>5, <2>2 DEF TreeIInv
    <3> QED BY <3>1, Zenon DEF EditOK
  <2> QED BY <2>1, <2>2
<1>10. ASSUME ~ overlapped' PROVE Alone'
  <2>1. /\ StrictTree /\ RowFits(u, row)
        /\ \A f \in Editors : editing[f] # NotEditing => f = e
    BY <1>1, <1>10 DEF TreeIInv, Alone, u, row
  <2>2. \A f \in Editors : editing'[f] = NotEditing
    BY <1>5, <2>1
  <2>3. StrictTree'
    <3>1. CASE unit' = unit
      BY <2>1, <3>1, Zenon DEF StrictTree, Present
    <3>2. CASE unit' # unit
      <4> SUFFICES ASSUME NEW v \in Units, unit'[v] # NoUnit
                   PROVE  IF unit'[v].type = "branch" THEN unit'[v].parent = Root
                          ELSE unit'[v].parent # Root /\ unit'[unit'[v].parent].type = ParentType(unit'[v].type)
        BY Zenon DEF StrictTree, Present
      <4>0. /\ unit'[u] = row /\ \A w \in Units \ {u} : unit'[w] = unit[w]
        BY <1>6, <3>2
      <4>1. CASE v = u
        <5>1. row.type = "branch" => row.parent = Root
          BY <2>1 DEF RowFits
        <5>2. row.type # "branch" => /\ row.parent \in Units \ {u}
                                     /\ unit[row.parent].type = ParentType(row.type)
          BY <2>1 DEF RowFits
        <5> QED BY <4>0, <4>1, <5>1, <5>2, UnitFacts
      <4>2. CASE v # u
        <5>1. unit'[v] = unit[v] /\ unit[v] # NoUnit /\ unit[v] \in UnitRows
          BY <1>3, <4>0, <4>2
        <5>2. unit[v].type = "branch" => unit[v].parent = Root
          BY <2>1, <5>1 DEF StrictTree, Present
        <5>3. unit[v].type # "branch" =>
                unit[v].parent # Root /\ unit[unit[v].parent].type = ParentType(unit[v].type)
          BY <2>1, <5>1 DEF StrictTree, Present
        <5>4. unit[v].parent \in Units \cup {Root} /\ unit[v].type \in UnitTypes /\ row.type \in UnitTypes
          BY <1>2, <5>1, UnitFacts
        <5>5. unit[v].parent = u => ParentType(unit[v].type) = row.type
          <6>1. unit[v].parent = u => unit[v].type = ChildType(row.type)
            BY <2>1, <5>1 DEF RowFits, Present
          <6> QED BY <5>4, <6>1, UnitFacts
        <5> QED BY <4>0, <5>1, <5>2, <5>3, <5>4, <5>5
      <4> QED BY <4>1, <4>2
    <3> QED BY <3>1, <3>2
  <2> QED BY <2>2, <2>3 DEF Alone
<1> QED BY <1>8, <1>9, <1>10, Zenon DEF TreeIInv

LEMMA DeleteUnitStep ==
  ASSUME TreeIInv, NEW u \in Units, DeleteUnit(u)
  PROVE  TreeIInv'
<1>1. /\ ChildrenOf(u) = {} /\ CountEdit /\ unit' = [unit EXCEPT ![u] = NoUnit] /\ place' = Vacated(u)
      /\ overlapped' = (overlapped \/ \E f \in Editors : editing[f] # NotEditing)
      /\ UNCHANGED <<rule, allotted, editing>>
  BY DEF DeleteUnit
<1>2. TreeTypeOK /\ unit \in [Units -> UnitRows \cup {NoUnit}] /\ overlapped \in BOOLEAN
      /\ place \in [Members -> Units \cup {Root}]
  BY DEF TreeIInv, TreeTypeOK
<1>3. /\ unit' \in [Units -> UnitRows \cup {NoUnit}] /\ unit'[u] = NoUnit
      /\ \A v \in Units \ {u} : unit'[v] = unit[v]
  BY <1>1, <1>2
<1>4. \A m \in Members : place'[m] = IF place[m] = u THEN Root ELSE place[m]
  BY <1>1 DEF Vacated
<1>5. place' \in [Members -> Units \cup {Root}]
  BY <1>1, <1>2 DEF Vacated
<1>6. \A m \in Members : place'[m] # Root => unit'[place'[m]] # NoUnit
  <2>1. \A m \in Members : place[m] # Root => place[m] \in Units /\ unit[place[m]] # NoUnit
    BY <1>2 DEF TreeTypeOK, Present
  <2> QED BY <1>3, <1>4, <2>1
<1>7. treeEdits' \in 0 .. MaxTreeEdits
  <2>1. treeEdits \in 0 .. MaxTreeEdits /\ MaxTreeEdits \in Nat
    BY OrganizationTreeAssumption DEF TreeIInv, TreeTypeOK
  <2> QED BY <1>1, <2>1 DEF CountEdit
<1>8. overlapped' \in BOOLEAN
  BY <1>1, <1>2
<1>9. TreeTypeOK'
  BY <1>1, <1>2, <1>3, <1>5, <1>6, <1>7, <1>8 DEF TreeTypeOK, Present
<1>10. (\A e \in Editors : EditOK(e))'
  BY <1>1, Zenon DEF TreeIInv, EditOK
<1>11. ASSUME ~ overlapped' PROVE Alone'
  <2>1. StrictTree /\ \A f \in Editors : editing[f] = NotEditing
    BY <1>1, <1>11 DEF TreeIInv, Alone
  <2>2. StrictTree'
    <3> SUFFICES ASSUME NEW v \in Units, unit'[v] # NoUnit
                 PROVE  IF unit'[v].type = "branch" THEN unit'[v].parent = Root
                        ELSE unit'[v].parent # Root /\ unit'[unit'[v].parent].type = ParentType(unit'[v].type)
      BY Zenon DEF StrictTree, Present
    <3>1. v # u /\ unit'[v] = unit[v] /\ unit[v] # NoUnit /\ unit[v] \in UnitRows
      BY <1>2, <1>3
    <3>2. unit[v].parent # u /\ unit[v].parent \in Units \cup {Root}
      BY <1>1, <3>1, UnitFacts DEF ChildrenOf, Present
    <3>3. unit[v].type = "branch" => unit[v].parent = Root
      BY <2>1, <3>1 DEF StrictTree, Present
    <3>4. unit[v].type # "branch" =>
            unit[v].parent # Root /\ unit[unit[v].parent].type = ParentType(unit[v].type)
      BY <2>1, <3>1 DEF StrictTree, Present
    <3> QED BY <1>3, <3>1, <3>2, <3>3, <3>4
  <2>3. \A f \in Editors : editing'[f] = NotEditing
    BY <1>1, <2>1
  <2> QED BY <2>2, <2>3 DEF Alone
<1> QED BY <1>9, <1>10, <1>11, Zenon DEF TreeIInv

LEMMA RuleStep ==
  ASSUME TreeIInv, NEW u \in Units, NEW b \in Buyers, AssignClient(u, b) \/ RemoveClient(u, b)
  PROVE  TreeIInv'
<1> DEFINE R == [set : BOOLEAN, allow : BOOLEAN, inherit : BOOLEAN]
<1>1. UNCHANGED <<unit, place, allotted, editing, overlapped>> /\ CountEdit
  BY DEF AssignClient, RemoveClient
<1>2. PICK r \in R : rule' = [rule EXCEPT ![u][b] = r]
  <2>1. CASE AssignClient(u, b)
    <3>1. PICK allow \in BOOLEAN, inherit \in BOOLEAN :
            rule' = [rule EXCEPT ![u][b] = [set |-> TRUE, allow |-> allow, inherit |-> inherit]]
      BY <2>1 DEF AssignClient
    <3>2. [set |-> TRUE, allow |-> allow, inherit |-> inherit] \in R
      BY <3>1
    <3> QED BY <3>1, <3>2, Zenon
  <2>2. CASE RemoveClient(u, b)
    <3>1. NoRule \in R
      BY DEF NoRule
    <3>2. rule' = [rule EXCEPT ![u][b] = NoRule]
      BY <2>2 DEF RemoveClient
    <3> QED BY <3>1, <3>2, Zenon
  <2> QED BY <2>1, <2>2
<1>3. TreeTypeOK /\ rule \in [Units -> [Buyers -> R]]
  BY DEF TreeIInv, TreeTypeOK
<1> HIDE DEF R
<1>4. rule' \in [Units -> [Buyers -> R]]
  BY <1>2, <1>3
<1>5. treeEdits' \in 0 .. MaxTreeEdits
  <2>1. treeEdits \in 0 .. MaxTreeEdits /\ MaxTreeEdits \in Nat
    BY OrganizationTreeAssumption DEF TreeIInv, TreeTypeOK
  <2> QED BY <1>1, <2>1 DEF CountEdit
<1>6. TreeTypeOK'
  BY <1>1, <1>3, <1>4, <1>5 DEF TreeTypeOK, Present, R
<1> QED BY <1>1, <1>6, TreeUntouched

LEMMA WithdrawStep ==
  ASSUME TreeIInv, NEW b \in Buyers, WithdrawClient(b)
  PROVE  TreeIInv'
<1>1. UNCHANGED <<unit, rule, place, editing, overlapped>> /\ CountEdit /\ allotted' = allotted \ {b}
  BY DEF WithdrawClient
<1>2. treeEdits \in 0 .. MaxTreeEdits /\ MaxTreeEdits \in Nat /\ TreeTypeOK
  BY OrganizationTreeAssumption DEF TreeIInv, TreeTypeOK
<1>3. TreeTypeOK'
  BY <1>1, <1>2 DEF TreeTypeOK, Present, CountEdit
<1> QED BY <1>1, <1>3, TreeUntouched

LEMMA MoveStep ==
  ASSUME TreeIInv, NEW m \in Members, MoveMember(m)
  PROVE  TreeIInv'
<1>1. UNCHANGED <<unit, rule, allotted, editing, overlapped>> /\ CountEdit
  BY DEF MoveMember
<1>2. PICK u \in Units : unit[u].type = "shift" /\ place' = [place EXCEPT ![m] = u]
  BY DEF MoveMember
<1>3. treeEdits \in 0 .. MaxTreeEdits /\ MaxTreeEdits \in Nat /\ TreeTypeOK
  BY OrganizationTreeAssumption DEF TreeIInv, TreeTypeOK
<1>4. place' \in [Members -> Units \cup {Root}] /\ \A n \in Members : place'[n] = IF n = m THEN u ELSE place[n]
  BY <1>2, <1>3 DEF TreeTypeOK
<1>5. unit[u] # NoUnit
  BY <1>2, UnitFacts
<1>6. \A n \in Members : place'[n] # Root => unit'[place'[n]] # NoUnit
  BY <1>1, <1>3, <1>4, <1>5 DEF TreeTypeOK, Present
<1>7. treeEdits' \in 0 .. MaxTreeEdits
  BY <1>1, <1>3 DEF CountEdit
<1>8. TreeTypeOK'
  BY <1>1, <1>3, <1>4, <1>6, <1>7 DEF TreeTypeOK, Present
<1> QED BY <1>1, <1>8, TreeUntouched

LEMMA TreeStep == TreeIInv /\ [TreeNext]_treeVars => TreeIInv'
<1> SUFFICES ASSUME TreeIInv, [TreeNext]_treeVars PROVE TreeIInv'
  OBVIOUS
<1>1. CASE UNCHANGED treeVars
  BY <1>1, Zenon DEF treeVars, TreeIInv, TreeTypeOK, EditOK, Alone, StrictTree, RowFits, Present
<1> QED BY <1>1, ValidateUnitStep, SaveUnitStep, DeleteUnitStep, RuleStep, WithdrawStep, MoveStep
        DEF TreeNext

-----------------------------------------------------------------------------
(***************************************************************************)
(* OrganizationTree: the walk from a unit towards its root.                *)
(***************************************************************************)
WalkOn(s) ==
  LET up == unit[s[Len(s)]].parent
  IN IF up = Root \/ \E i \in 1 .. Len(s) : s[i] = up THEN s ELSE Append(s, up)

\* Walks from u: each the one before, one unit longer or the same.
IsWalk(w, u, N) == w = [n \in 0 .. N |-> IF n = 0 THEN <<u>> ELSE WalkOn(w[n - 1])]

Walks == {s \in Seq(Units) : s # <<>>}

LEMMA WalkOnWalks ==
  ASSUME TreeTypeOK, NEW s \in Walks
  PROVE  WalkOn(s) \in Walks
<1>1. s \in Seq(Units) /\ s # <<>> /\ Len(s) \in 1 .. Len(s)
  BY DEF Walks
<1>2. s[Len(s)] \in Units
  BY <1>1
<1>3. unit[s[Len(s)]].parent \in Units \cup {Root}
  BY <1>2 DEF TreeTypeOK, UnitRows, NoUnit
<1> DEFINE up == unit[s[Len(s)]].parent
<1>4. up # Root => Append(s, up) \in Seq(Units) /\ Append(s, up) # <<>>
  BY <1>1, <1>3
<1> QED BY <1>1, <1>4 DEF WalkOn, Walks

LEMMA WalkIs ==
  ASSUME TreeTypeOK, NEW u \in Units
  PROVE  \E w : /\ IsWalk(w, u, Cardinality(Units)) /\ Ancestry(u) = w[Cardinality(Units)]
                /\ w \in [0 .. Cardinality(Units) -> Walks]
<1> DEFINE N == Cardinality(Units)
           step == [z \in (1 .. N) \X Walks |-> WalkOn(z[2])]
<1>0. N \in Nat /\ <<u>> \in Walks
  <2>1. <<u>> \in Seq(Units) /\ <<u>> # <<>>
    OBVIOUS
  <2> QED BY <2>1, OrganizationTreeAssumption, FS_CardinalityType DEF Walks
<1>1. \A n \in 1 .. N, s \in Walks : step[<<n, s>>] = WalkOn(s) /\ WalkOn(s) \in Walks
  BY WalkOnWalks
<1>2. PICK f : f \in Iterates(N, Walks, <<u>>, step)
  <2> HIDE DEF N, step
  <2> QED BY <1>0, <1>1, IteratesExist
<1>3. IsWalk(f, u, N)
  <2>1. /\ f \in [0 .. N -> Walks] /\ f[0] = <<u>>
        /\ \A n \in 1 .. N : f[n] = step[<<n, f[n - 1]>>]
    BY <1>2 DEF Iterates
  <2> HIDE DEF step, N
  <2>2. \A n \in 0 .. N : f[n] = IF n = 0 THEN <<u>> ELSE WalkOn(f[n - 1])
    <3> SUFFICES ASSUME NEW n \in 0 .. N PROVE f[n] = IF n = 0 THEN <<u>> ELSE WalkOn(f[n - 1])
      OBVIOUS
    <3>1. n # 0 => n \in 1 .. N /\ n - 1 \in 0 .. N
      BY <1>0
    <3> QED BY <1>1, <2>1, <3>1
  <2> QED BY <2>1, <2>2 DEF IsWalk
<1> DEFINE w == CHOOSE g : IsWalk(g, u, N)
<1>4. IsWalk(w, u, N)
  BY <1>3, Zenon
<1>5. Ancestry(u) = w[N]
  BY Zenon DEF Ancestry, IsWalk, WalkOn
<1>6. w \in [0 .. N -> Walks]
  <2> HIDE DEF w, N
  <2> DEFINE G == {n \in 0 .. N : w[n] \in Walks}
  <2>1. 0 \in G
    BY <1>0, <1>4 DEF IsWalk
  <2>2. ASSUME NEW n \in 1 .. N, n - 1 \in G PROVE n \in G
    <3>1. n \in 0 .. N /\ n # 0 /\ w[n - 1] \in Walks
      BY <2>2
    <3>2. w[n] = WalkOn(w[n - 1])
      BY <1>4, <3>1 DEF IsWalk
    <3> QED BY <3>1, <3>2, WalkOnWalks
  <2>3. 0 .. N \subseteq G
    <3> HIDE DEF G
    <3> QED BY <1>0, <2>1, <2>2, UpTo
  <2> QED BY <1>4, <2>3 DEF IsWalk
<1> QED BY <1>4, <1>5, <1>6

-----------------------------------------------------------------------------
(***************************************************************************)
(* OrganizationTree: the fold of the rules from the root down, and the     *)
(* nearest rule that PolicyIsNearest names.                                *)
(***************************************************************************)
RuledFrom(up, b, j) == {i \in j .. Len(up) : rule[up[i]][b].set}
OwnFrom(up, b, j) == {i \in RuledFrom(up, b, j) : ~ rule[up[i]][b].inherit}

NearestFrom(up, b, j) ==
  IF RuledFrom(up, b, j) = {} THEN Unruled
  ELSE [allow |-> rule[up[Min(RuledFrom(up, b, j))]][b].allow,
        range |-> up[IF OwnFrom(up, b, j) = {} THEN Max(RuledFrom(up, b, j))
                                               ELSE Min(OwnFrom(up, b, j))]]

RuleOver(up, b, n, p) ==
  LET v == up[Len(up) + 1 - n]
  IN IF rule[v][b].set THEN Overridden(p, rule[v][b], v) ELSE p

LEMMA NearestStep ==
  ASSUME TreeTypeOK, NEW up \in Seq(Units), NEW b \in Buyers, NEW n \in 1 .. Len(up)
  PROVE  NearestFrom(up, b, Len(up) + 1 - n) = RuleOver(up, b, n, NearestFrom(up, b, Len(up) + 1 - (n - 1)))
<1> DEFINE L == Len(up)
           j == L + 1 - n
           v == up[j]
           R == RuledFrom(up, b, j + 1)
           O == OwnFrom(up, b, j + 1)
<1>0. L \in Nat /\ j \in 1 .. L /\ L + 1 - (n - 1) = j + 1 /\ v \in Units
  OBVIOUS
<1>1. /\ R \subseteq j + 1 .. L /\ O \subseteq R /\ j + 1 .. L \subseteq 0 .. L
      /\ \A i \in j + 1 .. L : up[i] \in Units
  BY <1>0 DEF RuledFrom, OwnFrom
<1>2. j .. L = {j} \cup (j + 1 .. L)
  BY <1>0
<1>3. RuledFrom(up, b, j) = IF rule[v][b].set THEN {j} \cup R ELSE R
  BY <1>2, Zenon DEF RuledFrom
<1>4. OwnFrom(up, b, j) = IF rule[v][b].set /\ ~ rule[v][b].inherit THEN {j} \cup O ELSE O
  <2> HIDE DEF v, j, L
  <2>1. CASE rule[v][b].set
    BY <1>3, <2>1, Zenon DEF OwnFrom, v
  <2>2. CASE ~ rule[v][b].set
    BY <1>3, <2>2, Zenon DEF OwnFrom
  <2> QED BY <2>1, <2>2, Zenon
<1> HIDE DEF L, j, v, R, O
<1>5. CASE ~ rule[v][b].set
  <2>1. RuledFrom(up, b, j) = R /\ OwnFrom(up, b, j) = O
    BY <1>3, <1>4, <1>5
  <2>2. NearestFrom(up, b, j) = NearestFrom(up, b, j + 1)
    BY <2>1, Zenon DEF NearestFrom, R, O
  <2> QED BY <1>0, <1>5, <2>2, Zenon DEF RuleOver, L, j, v
<1>6. CASE rule[v][b].set
  <2>0. /\ RuleOver(up, b, n, NearestFrom(up, b, j + 1)) = Overridden(NearestFrom(up, b, j + 1), rule[v][b], v)
        /\ RuledFrom(up, b, j) = {j} \cup R
    BY <1>3, <1>6, Zenon DEF RuleOver, L, j, v
  <2>1. Min({j} \cup R) = j /\ {j} \cup R \subseteq 0 .. L
    <3>1. /\ {j} \cup R \subseteq Nat /\ {j} \cup R \subseteq 0 .. L
          /\ \A k \in {j} \cup R : j <= k
      BY <1>0, <1>1
    <3> QED BY <3>1, LeastOne
  <2>2. CASE ~ rule[v][b].inherit
    <3>1. OwnFrom(up, b, j) = {j} \cup O
      BY <1>4, <1>6, <2>2
    <3>2. Min({j} \cup O) = j
      <4>1. {j} \cup O \subseteq Nat /\ \A k \in {j} \cup O : j <= k
        BY <1>0, <1>1
      <4> QED BY <4>1, LeastOne
    <3>3. NearestFrom(up, b, j) = [allow |-> rule[v][b].allow, range |-> v]
      <4>1. {j} \cup R # {} /\ {j} \cup O # {}
        OBVIOUS
      <4> QED BY <2>0, <2>1, <3>1, <3>2, <4>1, Zenon DEF NearestFrom, v
    <3>4. Overridden(NearestFrom(up, b, j + 1), rule[v][b], v) = [allow |-> rule[v][b].allow, range |-> v]
      BY <2>2, Zenon DEF Overridden
    <3> QED BY <1>0, <2>0, <3>3, <3>4 DEF L, j
  <2>3. CASE rule[v][b].inherit
    <3>1. OwnFrom(up, b, j) = O
      BY <1>4, <2>3
    <3>2. CASE R = {}
      <4>1. O = {} /\ {j} \cup R = {j} /\ {j} # {}
        BY <1>1, <3>2
      <4>2. Max({j}) = j
        <5>1. j \in {j} /\ {j} \subseteq 0 .. L /\ \A k \in {j} : j >= k
          BY <1>0
        <5> QED BY <1>0, <5>1, GreatestOne
      <4>3. NearestFrom(up, b, j) = [allow |-> rule[v][b].allow, range |-> v]
        BY <2>0, <2>1, <3>1, <4>1, <4>2, Zenon DEF NearestFrom, v
      <4>4. NearestFrom(up, b, j + 1) = Unruled
        BY <3>2, Zenon DEF NearestFrom, R
      <4>5. Overridden(Unruled, rule[v][b], v) = [allow |-> rule[v][b].allow, range |-> v]
        BY Zenon DEF Overridden
      <4> QED BY <1>0, <2>0, <4>3, <4>4, <4>5 DEF L, j
    <3>3. CASE R # {}
      <4> DEFINE p == NearestFrom(up, b, j + 1)
                 r == up[IF O = {} THEN Max(R) ELSE Min(O)]
      <4>1. p = [allow |-> rule[up[Min(R)]][b].allow, range |-> r]
        BY <3>3, Zenon DEF NearestFrom, R, O
      <4>2. Max(R) \in R /\ \A k \in R : Max(R) >= k
        <5>1. R \subseteq 0 .. L
          BY <1>1
        <5> QED BY <1>0, <3>3, <5>1, GreatestIs
      <4>3. O # {} => Min(O) \in O
        <5>1. O \subseteq Nat
          BY <1>0, <1>1
        <5> QED BY <5>1, LeastIs
      <4>4. r \in Units /\ r # Root
        BY <1>1, <4>2, <4>3, OrganizationTreeAssumption DEF Root
      <4>5. Max({j} \cup R) = Max(R)
        <5>1. PICK x \in R : x = Max(R) /\ \A k \in R : x >= k
          BY <4>2, Zenon
        <5>2. x >= j
          <6>1. x \in j + 1 .. L
            BY <1>1
          <6> QED BY <1>0, <6>1
        <5>3. x \in {j} \cup R /\ \A k \in {j} \cup R : x >= k
          BY <5>1, <5>2
        <5>4. Max({j} \cup R) = x
          BY <1>0, <2>1, <5>3, GreatestOne
        <5> QED BY <5>1, <5>4
      <4>6. NearestFrom(up, b, j) = [allow |-> rule[v][b].allow, range |-> r]
        <5>1. {j} \cup R # {}
          OBVIOUS
        <5> QED BY <2>0, <2>1, <3>1, <4>5, <5>1, Zenon DEF NearestFrom, v
      <4> HIDE DEF r
      <4>7. p # Unruled /\ p.range = r
        BY <4>1, <4>4 DEF Unruled
      <4> HIDE DEF p
      <4>8. Overridden(p, rule[v][b], v) = [allow |-> rule[v][b].allow, range |-> r]
        BY <2>3, <4>7, Zenon DEF Overridden
      <4> QED BY <1>0, <2>0, <4>6, <4>8 DEF L, j, p
    <3> QED BY <3>2, <3>3
  <2> QED BY <2>2, <2>3
<1> QED BY <1>5, <1>6

\* The table of the fold.
IsFold(f, up, b) ==
  f = [n \in 0 .. Len(up) |-> IF n = 0 THEN Unruled ELSE RuleOver(up, b, n, f[n - 1])]

LEMMA FoldIs ==
  ASSUME TreeTypeOK, NEW up \in Seq(Units), NEW b \in Buyers
  PROVE  /\ \E f : IsFold(f, up, b)
         /\ \A f : IsFold(f, up, b) => f[Len(up)] = NearestFrom(up, b, 1)
<1> DEFINE L == Len(up)
           g == [n \in 0 .. L |-> NearestFrom(up, b, L + 1 - n)]
<1>0. L \in Nat
  OBVIOUS
<1>1. NearestFrom(up, b, L + 1) = Unruled
  <2>1. L + 1 .. L = {}
    BY <1>0
  <2>2. RuledFrom(up, b, L + 1) = {}
    BY <2>1 DEF RuledFrom
  <2> QED BY <2>2, Zenon DEF NearestFrom
<1>2. \A n \in 1 .. L : NearestFrom(up, b, L + 1 - n) = RuleOver(up, b, n, NearestFrom(up, b, L + 1 - (n - 1)))
  BY NearestStep
<1>3. \A n \in 0 .. L : n # 0 => n \in 1 .. L /\ n - 1 \in 0 .. L
  BY <1>0
<1>4. L + 1 - 0 = L + 1 /\ L + 1 - L = 1 /\ 0 \in 0 .. L /\ L \in 0 .. L
  BY <1>0
<1>5. IsFold(g, up, b)
  <2>1. \A n \in 0 .. L : g[n] = IF n = 0 THEN Unruled ELSE RuleOver(up, b, n, g[n - 1])
    <3> SUFFICES ASSUME NEW n \in 0 .. L
                 PROVE  g[n] = IF n = 0 THEN Unruled ELSE RuleOver(up, b, n, g[n - 1])
      OBVIOUS
    <3> HIDE DEF L
    <3>1. CASE n = 0
      BY <1>1, <1>4, <3>1
    <3>2. CASE n # 0
      <4>1. n \in 1 .. L /\ g[n - 1] = NearestFrom(up, b, L + 1 - (n - 1)) /\ g[n] = NearestFrom(up, b, L + 1 - n)
        BY <1>3, <3>2
      <4> QED BY <1>2, <3>2, <4>1, Zenon
    <3> QED BY <3>1, <3>2
  <2> HIDE DEF L
  <2>2. g = [n \in 0 .. L |-> IF n = 0 THEN Unruled ELSE RuleOver(up, b, n, g[n - 1])]
    <3>1. g = [n \in 0 .. L |-> g[n]]
      OBVIOUS
    <3> HIDE DEF g
    <3> QED BY <2>1, <3>1
  <2> QED BY <2>2 DEF IsFold, L
<1>6. ASSUME NEW f, IsFold(f, up, b) PROVE f[L] = NearestFrom(up, b, 1)
  <2> DEFINE G == {n \in 0 .. L : f[n] = NearestFrom(up, b, L + 1 - n)}
  <2> HIDE DEF L
  <2>0. f = [n \in 0 .. L |-> IF n = 0 THEN Unruled ELSE RuleOver(up, b, n, f[n - 1])]
    BY <1>6, Zenon DEF IsFold, L
  <2>1. 0 \in G
    BY <1>1, <1>4, <2>0
  <2>2. ASSUME NEW n \in 1 .. L, n - 1 \in G PROVE n \in G
    <3>1. n \in 0 .. L /\ n # 0
      BY <1>0
    <3>2. f[n] = RuleOver(up, b, n, f[n - 1]) /\ f[n - 1] = NearestFrom(up, b, L + 1 - (n - 1))
      BY <2>0, <2>2, <3>1
    <3>3. f[n] = NearestFrom(up, b, L + 1 - n)
      BY <1>2, <3>2, Zenon
    <3> QED BY <3>1, <3>3
  <2>3. 0 .. L \subseteq G
    <3> HIDE DEF G
    <3> QED BY <1>0, <2>1, <2>2, UpTo
  <2> QED BY <1>4, <2>3
<1> QED BY <1>5, <1>6

LEMMA NearestPolicy == TreeTypeOK => PolicyIsNearest
<1> SUFFICES ASSUME TreeTypeOK, NEW m \in Members, NEW b \in Buyers, place[m] # Root
             PROVE  LET up == Ancestry(place[m])
                        ruled == {i \in 1 .. Len(up) : rule[up[i]][b].set}
                        own == {i \in ruled : ~ rule[up[i]][b].inherit}
                    IN PolicyOf(place[m], b) =
                         IF ruled = {} \/ b \notin allotted \/ \E i \in 1 .. Len(up) : ~ unit[up[i]].active
                           THEN Unruled
                           ELSE [allow |-> rule[up[Min(ruled)]][b].allow,
                                 range |-> up[IF own = {} THEN Max(ruled) ELSE Min(own)]]
  BY Zenon DEF PolicyIsNearest
<1> DEFINE u == place[m]
           up == Ancestry(u)
<1>1. u \in Units
  BY DEF TreeTypeOK
<1> HIDE DEF u
<1>2. up \in Seq(Units)
  <2>1. PICK w : up = w[Cardinality(Units)] /\ w \in [0 .. Cardinality(Units) -> Walks]
    BY <1>1, WalkIs
  <2>2. Cardinality(Units) \in 0 .. Cardinality(Units)
    BY OrganizationTreeAssumption, FS_CardinalityType
  <2>3. up \in Walks
    BY <2>1, <2>2
  <2> QED BY <2>3 DEF Walks
<1> HIDE DEF up
<1> DEFINE f == CHOOSE g : IsFold(g, up, b)
<1>3. PolicyOf(u, b) = IF Closed(u) \/ b \notin allotted THEN Unruled ELSE f[Len(up)]
  BY Zenon DEF PolicyOf, IsFold, RuleOver, up
<1>4. IsFold(f, up, b)
  BY <1>2, FoldIs, Zenon
<1>5. f[Len(up)] = NearestFrom(up, b, 1)
  <2> HIDE DEF f
  <2> QED BY <1>2, <1>4, FoldIs
<1> HIDE DEF f
<1> QED BY <1>3, <1>5, Zenon DEF NearestFrom, RuledFrom, OwnFrom, Closed, up, u

-----------------------------------------------------------------------------
(***************************************************************************)
(* OrganizationTree: the rollup of a unit adds up disjoint parts of its    *)
(* subtree, level by level, and the walks of the members below end in it.  *)
(***************************************************************************)
LEMMA SmallestFamily ==
  ASSUME NEW S, IsFiniteSet(S), NEW B, B \subseteq SUBSET S, B # {}
  PROVE  \E s \in B : \A r \in B : ~ (r \subseteq s /\ r # s)
<1>1. B \subseteq FiniteSubsetsOf(S)
  BY FS_FiniteSubsetsOfFinite, Zenon
<1>2. PICK s \in B : \A r \in B : ~ (<<r, s>> \in StrictSubsetOrdering(S))
  BY <1>1, WFMin, FS_StrictSubsetOrderingWellFounded, Zenon
<1>3. ASSUME NEW r \in B, r \subseteq s, r # s PROVE FALSE
  <2>1. <<r, s>> \in StrictSubsetOrdering(S)
    BY <1>3 DEF StrictSubsetOrdering
  <2> QED BY <1>2, <2>1
<1> QED BY <1>2, <1>3

PlacedIn(U) == {m \in Members : place[m] \in U}

\* The members placed in the parts that a set of units names.
InParts(part, s) == {m \in Members : \E c \in s : place[m] \in part[c]}

CountIn(part, s) == Cardinality(InParts(part, s))

Disjoint(part, S) == \A c, d \in S : c # d => part[c] \cap part[d] = {}

\* The table of MapThenSumSet over the sums of one level less.
IsSumTable(t, S, f) ==
  t = [s \in SUBSET S |->
         IF s = {} THEN 0
         ELSE f[CHOOSE x \in s : TRUE] + t[s \ {CHOOSE x \in s : TRUE}]]

LEMMA PartsAdd ==
  ASSUME NEW S, NEW part, Disjoint(part, S),
         NEW s \in SUBSET S, NEW x \in s
  PROVE  CountIn(part, s) = Cardinality(PlacedIn(part[x])) + CountIn(part, s \ {x})
<1> DEFINE P == PlacedIn(part[x])
           Q == InParts(part, s \ {x})
<1>1. InParts(part, s) = P \cup Q /\ P \cap Q = {}
  BY DEF InParts, PlacedIn, Disjoint
<1>2. IsFiniteSet(P) /\ IsFiniteSet(Q)
  <2>1. P \in SUBSET Members /\ Q \in SUBSET Members
    BY DEF InParts, PlacedIn
  <2> HIDE DEF P, Q
  <2> QED BY <2>1, OrganizationTreeAssumption, FS_Subset
<1> HIDE DEF P, Q
<1>3. Cardinality(P \cup Q) = Cardinality(P) + Cardinality(Q) - Cardinality(P \cap Q)
  BY <1>2, FS_Union
<1>4. Cardinality(P \cap Q) = 0 /\ Cardinality(P) \in Nat /\ Cardinality(Q) \in Nat
  BY <1>1, <1>2, FS_EmptySet, FS_CardinalityType
<1>5. Cardinality(P \cup Q) = Cardinality(P) + Cardinality(Q)
  BY <1>3, <1>4
<1> QED BY <1>1, <1>5, Zenon DEF P, Q, CountIn

LEMMA SumIs ==
  ASSUME NEW S, IsFiniteSet(S), NEW part, Disjoint(part, S),
         NEW f, \A c \in S : f[c] = Cardinality(PlacedIn(part[c]))
  PROVE  /\ \E t : IsSumTable(t, S, f)
         /\ \A t : IsSumTable(t, S, f) => t[S] = CountIn(part, S)
<1> DEFINE pick(r) == CHOOSE x \in r : TRUE
           t0 == [s \in SUBSET S |-> CountIn(part, s)]
<1>1. CountIn(part, {}) = 0
  <2>1. InParts(part, {}) = {}
    BY DEF InParts
  <2> QED BY <2>1, FS_EmptySet DEF CountIn
<1>2. ASSUME NEW s \in SUBSET S, s # {}
      PROVE  /\ pick(s) \in s /\ s \ {pick(s)} \in SUBSET S
             /\ s \ {pick(s)} \subseteq s /\ s \ {pick(s)} # s
             /\ CountIn(part, s) = f[pick(s)] + CountIn(part, s \ {pick(s)})
  <2>1. pick(s) \in s
    BY <1>2, Zenon
  <2> DEFINE x == pick(s)
  <2> HIDE DEF x
  <2>2. x \in s /\ x \in S
    BY <2>1 DEF x
  <2>3. CountIn(part, s) = Cardinality(PlacedIn(part[x])) + CountIn(part, s \ {x})
    BY <2>2, PartsAdd
  <2>4. /\ s \ {x} \in SUBSET S /\ s \ {x} \subseteq s /\ s \ {x} # s
        /\ f[x] = Cardinality(PlacedIn(part[x]))
    BY <2>2
  <2> QED BY <2>2, <2>3, <2>4 DEF x
<1> HIDE DEF pick
<1>3. IsSumTable(t0, S, f)
  <2>1. \A s \in SUBSET S : t0[s] = IF s = {} THEN 0 ELSE f[pick(s)] + t0[s \ {pick(s)}]
    <3> SUFFICES ASSUME NEW s \in SUBSET S
                 PROVE  t0[s] = IF s = {} THEN 0 ELSE f[pick(s)] + t0[s \ {pick(s)}]
      OBVIOUS
    <3>1. CASE s = {}
      BY <1>1, <3>1
    <3>2. CASE s # {}
      <4>1. t0[s] = CountIn(part, s) /\ t0[s \ {pick(s)}] = CountIn(part, s \ {pick(s)})
        BY <1>2, <3>2
      <4> QED BY <1>2, <3>2, <4>1
    <3> QED BY <3>1, <3>2
  <2>2. t0 = [s \in SUBSET S |-> t0[s]]
    OBVIOUS
  <2> HIDE DEF t0
  <2>3. t0 = [s \in SUBSET S |-> IF s = {} THEN 0 ELSE f[pick(s)] + t0[s \ {pick(s)}]]
    BY <2>1, <2>2
  <2> QED BY <2>3, Zenon DEF IsSumTable, pick
<1>4. ASSUME NEW t, IsSumTable(t, S, f) PROVE t[S] = CountIn(part, S)
  <2> DEFINE B == {s \in SUBSET S : t[s] # CountIn(part, s)}
  <2>0. t = [s \in SUBSET S |-> IF s = {} THEN 0 ELSE f[pick(s)] + t[s \ {pick(s)}]]
    BY <1>4, Zenon DEF IsSumTable, pick
  <2>1. B = {}
    <3> SUFFICES ASSUME B # {} PROVE FALSE
      OBVIOUS
    <3>1. B \subseteq SUBSET S
      OBVIOUS
    <3>2. PICK s \in B : \A r \in B : ~ (r \subseteq s /\ r # s)
      <4> HIDE DEF B
      <4> QED BY <3>1, SmallestFamily
    <3>3. s \in SUBSET S /\ t[s] # CountIn(part, s)
      BY <3>2
    <3>4. s # {}
      BY <1>1, <2>0, <3>3
    <3>5. t[s \ {pick(s)}] = CountIn(part, s \ {pick(s)})
      BY <1>2, <3>2, <3>3, <3>4
    <3>6. t[s] = f[pick(s)] + t[s \ {pick(s)}]
      BY <2>0, <3>3, <3>4
    <3>7. t[s] = CountIn(part, s)
      BY <1>2, <3>3, <3>4, <3>5, <3>6
    <3> QED BY <3>3, <3>7
  <2> QED BY <2>1
<1> QED BY <1>3, <1>4

\* A unit and at most n - 1 levels of what is below it.
BelowThat(v) == {g \in Units : \E c \in ChildrenOf(v) : g \in ChildrenOf(c)}
Below(n, v) ==
  IF n = 0 THEN {}
  ELSE IF n = 1 THEN {v}
  ELSE IF n = 2 THEN {v} \cup ChildrenOf(v)
  ELSE {v} \cup ChildrenOf(v) \cup BelowThat(v)

LEMMA Kids ==
  ASSUME TreeTypeOK, StrictTree, NEW v \in Units, NEW x \in ChildrenOf(v)
  PROVE  /\ x \in Units /\ Present(x) /\ unit[x].parent = v
         /\ \/ unit[v].type = "branch" /\ unit[x].type = "sub_branch"
            \/ unit[v].type = "sub_branch" /\ unit[x].type = "shift"
<1>1. x \in Units /\ Present(x) /\ unit[x].parent = v
  BY DEF ChildrenOf
<1>2. unit[x] \in UnitRows /\ unit[v] \in UnitRows \cup {NoUnit}
  BY <1>1 DEF TreeTypeOK, Present
<1>3. v # Root
  BY OrganizationTreeAssumption DEF Root
<1>4. unit[x].type # "branch" /\ unit[v].type = ParentType(unit[x].type)
  BY <1>1, <1>3 DEF StrictTree
<1>5. unit[x].type \in UnitTypes
  BY <1>2 DEF UnitRows
<1> QED BY <1>1, <1>4, <1>5 DEF ParentType, UnitTypes

LEMMA NoGreatGrandchildren ==
  ASSUME TreeTypeOK, StrictTree, NEW v \in Units, NEW c \in ChildrenOf(v), NEW d \in ChildrenOf(c)
  PROVE  ChildrenOf(d) = {}
<1>1. c \in Units /\ unit[c].type \in {"sub_branch", "shift"}
  BY Kids
<1>2. d \in Units /\ unit[d].type = "shift"
  BY <1>1, Kids
<1>3. ASSUME NEW e \in ChildrenOf(d) PROVE FALSE
  BY <1>2, <1>3, Kids
<1> QED BY <1>3

\* A unit's part of the tree is itself and the parts of its children, which
\* have nothing in common.
LEMMA BelowSplits ==
  ASSUME TreeTypeOK, StrictTree, NEW v \in Units, NEW n \in Nat, n # 0
  PROVE  /\ Below(n, v) = {v} \cup UNION {Below(n - 1, c) : c \in ChildrenOf(v)}
         /\ \A c \in ChildrenOf(v) : v \notin Below(n - 1, c)
         /\ \A c, d \in ChildrenOf(v) : c # d => Below(n - 1, c) \cap Below(n - 1, d) = {}
<1> DEFINE K == ChildrenOf(v)
<1>1. \A c \in K : /\ c \in Units /\ unit[c].parent = v
                   /\ \/ unit[v].type = "branch" /\ unit[c].type = "sub_branch"
                      \/ unit[v].type = "sub_branch" /\ unit[c].type = "shift"
  BY Kids
<1>2. \A c \in K : \A x \in ChildrenOf(c) :
        x \in Units /\ unit[x].parent = c /\ unit[c].type = "sub_branch" /\ unit[x].type = "shift"
  BY <1>1, Kids
<1>3. \A c \in K : BelowThat(c) = {}
  BY NoGreatGrandchildren DEF BelowThat
<1>4. \A c \in K : Below(n - 1, c) = IF n - 1 = 0 THEN {} ELSE IF n - 1 = 1 THEN {c} ELSE {c} \cup ChildrenOf(c)
  BY <1>3, Zenon DEF Below
<1>5. BelowThat(v) = UNION {ChildrenOf(c) : c \in K}
  BY <1>2 DEF BelowThat
<1>6. Below(n, v) = {v} \cup UNION {Below(n - 1, c) : c \in K}
  <2>1. CASE n = 1
    <3>1. \A c \in K : Below(n - 1, c) = {}
      BY <1>4, <2>1
    <3>2. UNION {Below(n - 1, c) : c \in K} = {}
      BY <3>1
    <3> QED BY <2>1, <3>2 DEF Below
  <2>2. CASE n = 2
    <3>1. \A c \in K : Below(n - 1, c) = {c}
      BY <1>4, <2>2
    <3>2. UNION {Below(n - 1, c) : c \in K} = K
      BY <3>1
    <3> QED BY <2>2, <3>2 DEF Below
  <2>3. CASE n # 1 /\ n # 2
    <3>1. n - 1 # 0 /\ n - 1 # 1
      BY <2>3
    <3>2. \A c \in K : Below(n - 1, c) = {c} \cup ChildrenOf(c)
      BY <1>4, <3>1
    <3>3. UNION {Below(n - 1, c) : c \in K} = K \cup UNION {ChildrenOf(c) : c \in K}
      BY <3>2
    <3>4. Below(n, v) = {v} \cup K \cup BelowThat(v)
      BY <2>3 DEF Below
    <3> QED BY <1>5, <3>3, <3>4
  <2> QED BY <2>1, <2>2, <2>3
<1>7. \A c \in K : Below(n - 1, c) \subseteq {c} \cup ChildrenOf(c)
  BY <1>4
<1>8. ASSUME NEW c \in K PROVE v \notin Below(n - 1, c)
  BY <1>1, <1>2, <1>7
<1>9. ASSUME NEW c \in K, NEW d \in K, c # d PROVE Below(n - 1, c) \cap Below(n - 1, d) = {}
  <2>1. c \notin ChildrenOf(d) /\ d \notin ChildrenOf(c) /\ ChildrenOf(c) \cap ChildrenOf(d) = {}
    BY <1>1, <1>2, <1>9
  <2> QED BY <1>7, <1>9, <2>1
<1> QED BY <1>6, <1>8, <1>9

\* The table of the rollup, and one level of it from the level below.
LevelFrom(f) == [v \in Units |-> Cardinality({m \in Members : place[m] = v})
                                    + MapThenSumSet(LAMBDA c : f[c], ChildrenOf(v))]

IsRollup(f) ==
  f = [n \in 0 .. Cardinality(Units) |-> IF n = 0 THEN [v \in Units |-> 0] ELSE LevelFrom(f[n - 1])]

LEMMA LevelIs ==
  ASSUME TreeTypeOK, StrictTree, NEW n \in Nat, n # 0, NEW v \in Units, NEW f,
         \A c \in Units : f[c] = Cardinality(PlacedIn(Below(n - 1, c)))
  PROVE  LevelFrom(f)[v] = Cardinality(PlacedIn(Below(n, v)))
<1> DEFINE K == ChildrenOf(v)
           part == [c \in Units |-> Below(n - 1, c)]
           A == {m \in Members : place[m] = v}
           T == CHOOSE t : IsSumTable(t, K, f)
<1>1. K \subseteq Units /\ IsFiniteSet(K)
  <2>1. K \in SUBSET Units
    BY DEF ChildrenOf
  <2> QED BY <2>1, OrganizationTreeAssumption, FS_Subset
<1>2. /\ Below(n, v) = {v} \cup UNION {Below(n - 1, c) : c \in K}
      /\ \A c \in K : v \notin Below(n - 1, c)
      /\ \A c, d \in K : c # d => Below(n - 1, c) \cap Below(n - 1, d) = {}
  BY BelowSplits
<1>3. Disjoint(part, K) /\ \A c \in K : part[c] = Below(n - 1, c)
  BY <1>1, <1>2 DEF Disjoint
<1>4. \A c \in K : f[c] = Cardinality(PlacedIn(part[c]))
  BY <1>1, <1>3
<1>5. LevelFrom(f)[v] = Cardinality(A) + T[K]
  BY Zenon DEF LevelFrom, MapThenSumSet, MapThenFoldSet, IsSumTable
<1> HIDE DEF K, part
<1>6. IsSumTable(T, K, f)
  BY <1>1, <1>3, <1>4, SumIs, Zenon
<1> HIDE DEF T
<1>7. T[K] = CountIn(part, K)
  BY <1>1, <1>3, <1>4, <1>6, SumIs
<1> DEFINE Q == InParts(part, K)
<1>8. PlacedIn(Below(n, v)) = A \cup Q /\ A \cap Q = {}
  BY <1>2, <1>3 DEF PlacedIn, InParts
<1>9. IsFiniteSet(A) /\ IsFiniteSet(Q)
  <2>1. A \in SUBSET Members /\ Q \in SUBSET Members
    BY DEF InParts
  <2> HIDE DEF A, Q
  <2> QED BY <2>1, OrganizationTreeAssumption, FS_Subset
<1> HIDE DEF A, Q
<1>10. Cardinality(A \cup Q) = Cardinality(A) + Cardinality(Q)
  <2>1. Cardinality(A \cup Q) = Cardinality(A) + Cardinality(Q) - Cardinality(A \cap Q)
    BY <1>9, FS_Union
  <2>2. Cardinality(A \cap Q) = 0 /\ Cardinality(A) \in Nat /\ Cardinality(Q) \in Nat
    BY <1>8, <1>9, FS_EmptySet, FS_CardinalityType
  <2> QED BY <2>1, <2>2
<1>11. T[K] = Cardinality(Q)
  BY <1>7, Zenon DEF CountIn, Q
<1> QED BY <1>5, <1>8, <1>10, <1>11, Zenon

LEMMA RollupIs ==
  ASSUME TreeTypeOK, StrictTree, NEW u \in Units
  PROVE  RollupMembers(u) = Cardinality(PlacedIn(Below(Cardinality(Units), u)))
<1> DEFINE N == Cardinality(Units)
           level(n) == [v \in Units |-> Cardinality(PlacedIn(Below(n, v)))]
           F == CHOOSE f : IsRollup(f)
           g == [n \in 0 .. N |-> level(n)]
<1>0. N \in Nat
  BY OrganizationTreeAssumption, FS_CardinalityType
<1>1. level(0) = [v \in Units |-> 0]
  <2>1. \A v \in Units : PlacedIn(Below(0, v)) = {}
    BY DEF PlacedIn, Below
  <2> QED BY <2>1, FS_EmptySet
<1>2. \A n \in Nat : n # 0 => level(n) = LevelFrom(level(n - 1))
  <2> SUFFICES ASSUME NEW n \in Nat, n # 0
               PROVE  level(n) = LevelFrom(level(n - 1))
    OBVIOUS
  <2>1. \A c \in Units : level(n - 1)[c] = Cardinality(PlacedIn(Below(n - 1, c)))
    OBVIOUS
  <2> DEFINE f == level(n - 1)
  <2> HIDE DEF f
  <2>2. \A v \in Units : LevelFrom(f)[v] = Cardinality(PlacedIn(Below(n, v)))
    BY <2>1, LevelIs DEF f
  <2>3. LevelFrom(f) = [v \in Units |-> LevelFrom(f)[v]]
    BY DEF LevelFrom
  <2>4. LevelFrom(f) = [v \in Units |-> Cardinality(PlacedIn(Below(n, v)))]
    BY <2>2, <2>3
  <2> QED BY <2>4 DEF f
<1> HIDE DEF N, level
<1>3. \A n \in 0 .. N : n # 0 => n \in Nat /\ n \in 1 .. N /\ n - 1 \in 0 .. N
  BY <1>0
<1>4. IsRollup(g)
  <2>1. \A n \in 0 .. N :
          g[n] = IF n = 0 THEN [v \in Units |-> 0] ELSE LevelFrom(g[n - 1])
    <3> SUFFICES ASSUME NEW n \in 0 .. N
                 PROVE  g[n] = IF n = 0 THEN [v \in Units |-> 0] ELSE LevelFrom(g[n - 1])
      BY Zenon
    <3>1. CASE n = 0
      BY <1>1, <3>1, Zenon
    <3>2. CASE n # 0
      <4>1. n \in Nat /\ g[n] = level(n) /\ g[n - 1] = level(n - 1)
        BY <1>3, <3>2
      <4> HIDE DEF g
      <4> QED BY <1>2, <3>2, <4>1, Zenon
    <3> QED BY <3>1, <3>2
  <2>2. g = [n \in 0 .. N |-> g[n]]
    OBVIOUS
  <2> HIDE DEF g
  <2> QED BY <2>1, <2>2, Zenon DEF IsRollup, N
<1>5. IsRollup(F)
  BY <1>4, Zenon
<1>6. RollupMembers(u) = F[N][u]
  BY Zenon DEF RollupMembers, IsRollup, LevelFrom, N
<1>7. F[N] = level(N)
  <2> HIDE DEF F
  <2> DEFINE G == {n \in 0 .. N : F[n] = level(n)}
  <2>0. \A n \in 0 .. N :
          F[n] = IF n = 0 THEN [v \in Units |-> 0] ELSE LevelFrom(F[n - 1])
    BY <1>5, Zenon DEF IsRollup, N
  <2>1. 0 \in G
    <3>1. 0 \in 0 .. N
      BY <1>0
    <3>2. F[0] = level(0)
      BY <1>1, <2>0, <3>1, Zenon
    <3> QED BY <3>1, <3>2
  <2>2. ASSUME NEW n \in 1 .. N, n - 1 \in G PROVE n \in G
    <3>1. n \in 0 .. N /\ n # 0 /\ n \in Nat /\ F[n - 1] = level(n - 1)
      BY <1>0, <2>2
    <3>2. F[n] = level(n)
      BY <1>2, <2>0, <3>1, Zenon
    <3> QED BY <3>1, <3>2
  <2>3. 0 .. N \subseteq G
    <3> HIDE DEF G
    <3> QED BY <1>0, <2>1, <2>2, UpTo
  <2> QED BY <1>0, <2>3
<1> HIDE DEF F
<1>8. level(N)[u] = Cardinality(PlacedIn(Below(N, u)))
  BY DEF level
<1> QED BY <1>6, <1>7, <1>8 DEF N

LEMMA ParentIs ==
  ASSUME TreeTypeOK, StrictTree, NEW v \in Units, Present(v)
  PROVE  \/ unit[v].type = "branch" /\ unit[v].parent = Root
         \/ /\ unit[v].type \in {"sub_branch", "shift"}
            /\ unit[v].parent \in Units /\ Present(unit[v].parent) /\ unit[v].parent # v
            /\ unit[unit[v].parent].type = IF unit[v].type = "shift" THEN "sub_branch" ELSE "branch"
<1>1. unit[v].type \in UnitTypes /\ unit[v].parent \in Units \cup {Root}
  BY DEF TreeTypeOK, Present, UnitRows
<1>2. CASE unit[v].type = "branch"
  BY <1>2 DEF StrictTree
<1>3. CASE unit[v].type # "branch"
  <2>1. unit[v].parent \in Units /\ unit[unit[v].parent].type = ParentType(unit[v].type)
    BY <1>1, <1>3 DEF StrictTree
  <2>2. unit[unit[v].parent].type = IF unit[v].type = "shift" THEN "sub_branch" ELSE "branch"
    BY <1>1, <1>3, <2>1 DEF ParentType, UnitTypes
  <2>3. Present(unit[v].parent) /\ unit[v].parent # v
    BY <1>1, <1>3, <2>2 DEF Present, NoUnit, UnitTypes
  <2> QED BY <1>1, <1>3, <2>1, <2>2, <2>3 DEF UnitTypes
<1> QED BY <1>2, <1>3

\* The walk from a unit of an intact tree, step by step.
LineOf(v, n) ==
  LET p == unit[v].parent
      q == unit[p].parent
  IN IF n = 0 \/ p = Root THEN <<v>>
     ELSE IF n = 1 \/ q = Root THEN <<v, p>> ELSE <<v, p, q>>

LEMMA ShortWalks ==
  ASSUME NEW v, NEW p, NEW q
  PROVE  /\ WalkOn(<<v>>) = IF unit[v].parent \in {Root, v} THEN <<v>> ELSE <<v, unit[v].parent>>
         /\ WalkOn(<<v, p>>) = IF unit[p].parent \in {Root, v, p} THEN <<v, p>> ELSE <<v, p, unit[p].parent>>
         /\ unit[q].parent = Root => WalkOn(<<v, p, q>>) = <<v, p, q>>
<1>1. Len(<<v>>) = 1 /\ <<v>>[1] = v /\ 1 .. 1 = {1} /\ \A x : Append(<<v>>, x) = <<v, x>>
  <2>1. Len(<<v>>) = 1 /\ <<v>>[1] = v /\ 1 .. 1 = {1}
    OBVIOUS
  <2>2. ASSUME NEW x PROVE Append(<<v>>, x) = <<v, x>>
    <3> DEFINE a == Append(<<v>>, x)
               b == <<v, x>>
    <3>1. <<v>> \in Seq({v, x})
      OBVIOUS
    <3>2. a \in Seq({v, x}) /\ Len(a) = 2 /\ a[1] = v /\ a[2] = x
      BY <2>1, <3>1, AppendProperties
    <3>3. b \in Seq({v, x}) /\ Len(b) = 2 /\ b[1] = v /\ b[2] = x
      OBVIOUS
    <3> HIDE DEF a, b
    <3>4. \A i \in 1 .. 2 : a[i] = b[i]
      BY <3>2, <3>3
    <3>5. a = b
      BY <3>2, <3>3, <3>4, SeqEqual
    <3> QED BY <3>5 DEF a, b
  <2> QED BY <2>1, <2>2
<1>2. /\ Len(<<v, p>>) = 2 /\ <<v, p>>[1] = v /\ <<v, p>>[2] = p /\ 1 .. 2 = {1, 2}
      /\ \A x : Append(<<v, p>>, x) = <<v, p, x>>
  <2>1. Len(<<v, p>>) = 2 /\ <<v, p>>[1] = v /\ <<v, p>>[2] = p /\ 1 .. 2 = {1, 2}
    OBVIOUS
  <2>2. ASSUME NEW x PROVE Append(<<v, p>>, x) = <<v, p, x>>
    <3> DEFINE a == Append(<<v, p>>, x)
               b == <<v, p, x>>
    <3>1. <<v, p>> \in Seq({v, p, x})
      OBVIOUS
    <3>2. a \in Seq({v, p, x}) /\ Len(a) = 3 /\ a[1] = v /\ a[2] = p /\ a[3] = x
      BY <2>1, <3>1, AppendProperties
    <3>3. b \in Seq({v, p, x}) /\ Len(b) = 3 /\ b[1] = v /\ b[2] = p /\ b[3] = x
      OBVIOUS
    <3> HIDE DEF a, b
    <3>4. \A i \in 1 .. 3 : a[i] = b[i]
      BY <3>2, <3>3
    <3>5. a = b
      BY <3>2, <3>3, <3>4, SeqEqual
    <3> QED BY <3>5 DEF a, b
  <2> QED BY <2>1, <2>2
<1>3. Len(<<v, p, q>>) = 3 /\ <<v, p, q>>[3] = q
  OBVIOUS
<1>4. WalkOn(<<v>>) = IF unit[v].parent \in {Root, v} THEN <<v>> ELSE <<v, unit[v].parent>>
  BY <1>1, Zenon DEF WalkOn
<1>5. WalkOn(<<v, p>>) = IF unit[p].parent \in {Root, v, p} THEN <<v, p>> ELSE <<v, p, unit[p].parent>>
  BY <1>2, Zenon DEF WalkOn
<1>6. unit[q].parent = Root => WalkOn(<<v, p, q>>) = <<v, p, q>>
  BY <1>3, Zenon DEF WalkOn
<1> QED BY <1>4, <1>5, <1>6

LEMMA LineStep ==
  ASSUME TreeTypeOK, StrictTree, NEW v \in Units, Present(v), NEW n \in Nat, n # 0
  PROVE  LineOf(v, n) = WalkOn(LineOf(v, n - 1))
<1> DEFINE p == unit[v].parent
           q == unit[p].parent
<1>0. v # Root
  BY OrganizationTreeAssumption DEF Root
<1>1. CASE p = Root
  BY <1>1, ShortWalks DEF LineOf
<1>2. CASE p # Root
  <2>1. /\ p \in Units /\ Present(p) /\ p # v /\ unit[v].type \in {"sub_branch", "shift"}
        /\ unit[p].type = IF unit[v].type = "shift" THEN "sub_branch" ELSE "branch"
    BY <1>2, ParentIs
  <2>2. CASE q = Root
    <3>1. WalkOn(<<v>>) = <<v, p>> /\ WalkOn(<<v, p>>) = <<v, p>>
      BY <1>2, <2>1, <2>2, ShortWalks
    <3>2. LineOf(v, n) = <<v, p>> /\ LineOf(v, n - 1) \in {<<v>>, <<v, p>>}
      BY <1>2, <2>2, Zenon DEF LineOf
    <3> QED BY <3>1, <3>2
  <2>3. CASE q # Root
    <3>1. unit[p].type = "sub_branch" /\ unit[v].type = "shift"
      BY <2>1, <2>3, ParentIs
    <3>2. q \in Units /\ Present(q) /\ q # p /\ unit[q].type = "branch" /\ q # v
      BY <2>1, <2>3, <3>1, ParentIs
    <3>3. unit[q].parent = Root
      BY <3>2, ParentIs
    <3>4. /\ WalkOn(<<v>>) = <<v, p>> /\ WalkOn(<<v, p>>) = <<v, p, q>>
          /\ WalkOn(<<v, p, q>>) = <<v, p, q>>
      BY <1>2, <2>1, <2>3, <3>2, <3>3, ShortWalks
    <3>5. /\ LineOf(v, n) = IF n = 1 THEN <<v, p>> ELSE <<v, p, q>>
          /\ LineOf(v, n - 1) = IF n - 1 = 0 THEN <<v>> ELSE IF n - 1 = 1 THEN <<v, p>> ELSE <<v, p, q>>
      BY <1>2, <2>3, Zenon DEF LineOf
    <3>6. (n = 1 <=> n - 1 = 0) /\ (n - 1 = 1 => n # 1)
      OBVIOUS
    <3> QED BY <3>4, <3>5, <3>6, Zenon
  <2> QED BY <2>2, <2>3
<1> QED BY <1>1, <1>2

LEMMA AncestryIs ==
  ASSUME TreeTypeOK, StrictTree, NEW v \in Units, Present(v)
  PROVE  Ancestry(v) = LineOf(v, Cardinality(Units))
<1> DEFINE N == Cardinality(Units)
<1>0. N \in Nat
  BY OrganizationTreeAssumption, FS_CardinalityType
<1>1. PICK w : IsWalk(w, v, N) /\ Ancestry(v) = w[N]
  BY WalkIs
<1> HIDE DEF N
<1> DEFINE G == {n \in 0 .. N : w[n] = LineOf(v, n)}
<1>2. \A n \in 0 .. N : w[n] = IF n = 0 THEN <<v>> ELSE WalkOn(w[n - 1])
  BY <1>1, Zenon DEF IsWalk
<1>3. 0 \in G
  BY <1>0, <1>2 DEF LineOf
<1>4. ASSUME NEW n \in 1 .. N, n - 1 \in G PROVE n \in G
  <2>1. n \in 0 .. N /\ n # 0 /\ n \in Nat /\ w[n - 1] = LineOf(v, n - 1)
    BY <1>0, <1>4
  <2>2. w[n] = LineOf(v, n)
    BY <1>2, <2>1, LineStep
  <2> QED BY <2>1, <2>2
<1>5. 0 .. N \subseteq G
  <2> HIDE DEF G
  <2> QED BY <1>0, <1>3, <1>4, UpTo
<1>6. w[N] = LineOf(v, N)
  BY <1>0, <1>5
<1> QED BY <1>1, <1>6 DEF N

\* The unit itself, its parent and its grandparent, as far as there are any.
Above(v) ==
  {v} \cup {u \in Units : u = unit[v].parent}
      \cup {u \in Units : unit[v].parent # Root /\ u = unit[unit[v].parent].parent}

LEMMA EnoughLevels ==
  ASSUME TreeTypeOK, StrictTree, NEW v \in Units, Present(v)
  PROVE  /\ Cardinality(Units) \in Nat /\ Cardinality(Units) >= 1
         /\ unit[v].parent # Root => Cardinality(Units) >= 2
         /\ unit[v].parent # Root /\ unit[unit[v].parent].parent # Root => Cardinality(Units) >= 3
<1> DEFINE N == Cardinality(Units)
           p == unit[v].parent
           q == unit[p].parent
<1>0. IsFiniteSet(Units) /\ N \in Nat
  BY OrganizationTreeAssumption, FS_CardinalityType
<1>1. Cardinality({v}) = 1 /\ IsFiniteSet({v}) /\ {v} \in SUBSET Units
  BY FS_Singleton
<1>2. N >= 1
  <2>1. Cardinality({v}) <= N
    BY <1>0, <1>1, FS_Subset
  <2> QED BY <1>0, <1>1, <2>1
<1>3. ASSUME p # Root
      PROVE  /\ p \in Units /\ p # v /\ Present(p)
             /\ Cardinality({v} \cup {p}) = 2 /\ IsFiniteSet({v} \cup {p}) /\ {v} \cup {p} \in SUBSET Units
  <2>1. p \in Units /\ p # v /\ Present(p)
    BY <1>3, ParentIs
  <2>2. Cardinality({v} \cup {p}) = Cardinality({v}) + 1 /\ IsFiniteSet({v} \cup {p})
    <3>1. p \notin {v}
      BY <2>1
    <3> HIDE DEF p
    <3> QED BY <1>1, <3>1, FS_AddElement, Zenon
  <2> QED BY <1>1, <2>1, <2>2
<1>4. p # Root => N >= 2
  <2> SUFFICES ASSUME p # Root PROVE N >= 2
    OBVIOUS
  <2>1. Cardinality({v} \cup {p}) <= N
    BY <1>0, <1>3, FS_Subset
  <2> QED BY <1>0, <1>3, <2>1
<1>5. p # Root /\ q # Root => N >= 3
  <2> SUFFICES ASSUME p # Root, q # Root PROVE N >= 3
    OBVIOUS
  <2>1. /\ unit[p].type = "sub_branch" /\ unit[v].type = "shift"
    BY <1>3, ParentIs
  <2>2. q \in Units /\ unit[q].type = "branch"
    BY <1>3, <2>1, ParentIs
  <2>3. q \notin {v} \cup {p}
    BY <2>1, <2>2
  <2>4. Cardinality({v} \cup {p} \cup {q}) = Cardinality({v} \cup {p}) + 1
    <3> DEFINE T == {v} \cup {p}
    <3>1. IsFiniteSet(T) /\ q \notin T
      BY <1>3, <2>3
    <3> HIDE DEF T, q
    <3>2. Cardinality(T \cup {q}) = Cardinality(T) + 1
      BY <3>1, FS_AddElement, Zenon
    <3> QED BY <3>2 DEF T
  <2>5. Cardinality({v} \cup {p} \cup {q}) <= N
    <3>1. {v} \cup {p} \cup {q} \in SUBSET Units
      BY <1>3, <2>2
    <3> QED BY <1>0, <3>1, FS_Subset
  <2> QED BY <1>0, <1>3, <2>4, <2>5
<1> QED BY <1>0, <1>2, <1>4, <1>5

LEMMA BelowIsAbove ==
  ASSUME TreeTypeOK, StrictTree, NEW v \in Units, Present(v), NEW u \in Units
  PROVE  v \in Below(Cardinality(Units), u) <=> u \in Above(v)
<1> DEFINE N == Cardinality(Units)
           p == unit[v].parent
           q == unit[p].parent
<1>0. u # Root
  BY OrganizationTreeAssumption DEF Root
<1>1. /\ N \in Nat /\ N >= 1 /\ (p # Root => N >= 2) /\ (p # Root /\ q # Root => N >= 3)
  BY EnoughLevels
<1>2. p # Root => p \in Units /\ Present(p)
  BY ParentIs
<1>3. v \in ChildrenOf(u) <=> p = u
  BY DEF ChildrenOf
<1>4. v \in BelowThat(u) <=> p # Root /\ q = u
  <2>1. ASSUME v \in BelowThat(u) PROVE p # Root /\ q = u
    <3>1. PICK c \in ChildrenOf(u) : v \in ChildrenOf(c)
      BY <2>1 DEF BelowThat
    <3>2. c \in Units /\ unit[c].parent = u /\ p = c
      BY <3>1 DEF ChildrenOf
    <3> QED BY <3>2, OrganizationTreeAssumption DEF Root
  <2>2. ASSUME p # Root, q = u PROVE v \in BelowThat(u)
    <3>1. p \in ChildrenOf(u) /\ v \in ChildrenOf(p)
      BY <1>2, <2>2 DEF ChildrenOf
    <3> QED BY <3>1 DEF BelowThat
  <2> QED BY <2>1, <2>2
<1>5. u \in Above(v) <=> u = v \/ u = p \/ (p # Root /\ u = q)
  BY DEF Above
<1> HIDE DEF N, p, q
<1>6. N = 1 => p = Root
  BY <1>1
<1>7. N = 2 => p = Root \/ q = Root
  BY <1>1
<1>8. N # 0
  BY <1>1
<1>9. v \in Below(N, u) <=> v = u \/ (N # 1 /\ v \in ChildrenOf(u)) \/ (N # 1 /\ N # 2 /\ v \in BelowThat(u))
  BY <1>8 DEF Below
<1>10. v \in Below(N, u) <=> u \in Above(v)
  BY <1>0, <1>3, <1>4, <1>5, <1>6, <1>7, <1>9
<1> QED BY <1>10 DEF N

LEMMA AncestryAbove ==
  ASSUME TreeTypeOK, StrictTree, NEW v \in Units, Present(v), NEW u \in Units
  PROVE  InAncestry(v, u) <=> u \in Above(v)
<1> DEFINE N == Cardinality(Units)
           p == unit[v].parent
           q == unit[p].parent
<1>0. u # Root
  BY OrganizationTreeAssumption DEF Root
<1>1. /\ N \in Nat /\ N >= 1 /\ (p # Root => N >= 2) /\ (p # Root /\ q # Root => N >= 3)
  BY EnoughLevels
<1>2. Ancestry(v) = LineOf(v, N)
  BY AncestryIs
<1>3. u \in Above(v) <=> u = v \/ u = p \/ (p # Root /\ u = q)
  BY DEF Above
<1>4. LineOf(v, N) = IF p = Root THEN <<v>> ELSE IF q = Root THEN <<v, p>> ELSE <<v, p, q>>
  BY <1>1 DEF LineOf
<1> HIDE DEF N, p, q
<1>5. (\E i \in 1 .. Len(<<v>>) : <<v>>[i] = u) <=> u = v
  OBVIOUS
<1>6. (\E i \in 1 .. Len(<<v, p>>) : <<v, p>>[i] = u) <=> u = v \/ u = p
  OBVIOUS
<1>7. (\E i \in 1 .. Len(<<v, p, q>>) : <<v, p, q>>[i] = u) <=> u = v \/ u = p \/ u = q
  OBVIOUS
<1>8. CASE p = Root
  <2>1. Ancestry(v) = <<v>>
    BY <1>2, <1>4, <1>8
  <2> QED BY <1>0, <1>3, <1>5, <1>8, <2>1 DEF InAncestry
<1>9. CASE p # Root /\ q = Root
  <2>1. Ancestry(v) = <<v, p>>
    BY <1>2, <1>4, <1>9
  <2> QED BY <1>0, <1>3, <1>6, <1>9, <2>1 DEF InAncestry
<1>10. CASE p # Root /\ q # Root
  <2>1. Ancestry(v) = <<v, p, q>>
    BY <1>2, <1>4, <1>10
  <2> QED BY <1>0, <1>3, <1>7, <1>10, <2>1 DEF InAncestry
<1> QED BY <1>8, <1>9, <1>10

LEMMA CountedOnceInRollup == TreeTypeOK => RollupCountsOnce
<1> SUFFICES ASSUME TreeTypeOK, StrictTree, NEW u \in Units, Present(u)
             PROVE  RollupMembers(u) = Cardinality({m \in Members : place[m] # Root /\ InAncestry(place[m], u)})
  BY DEF RollupCountsOnce
<1> DEFINE N == Cardinality(Units)
           S == {m \in Members : place[m] # Root /\ InAncestry(place[m], u)}
<1>1. ASSUME NEW m \in Members PROVE place[m] \in Below(N, u) <=> place[m] # Root /\ InAncestry(place[m], u)
  <2>1. CASE place[m] = Root
    <3>1. Root \notin Units
      BY OrganizationTreeAssumption DEF Root
    <3>2. Below(N, u) \subseteq Units
      BY DEF Below, ChildrenOf, BelowThat
    <3> QED BY <2>1, <3>1, <3>2
  <2>2. CASE place[m] # Root
    <3>1. place[m] \in Units /\ Present(place[m])
      BY <2>2 DEF TreeTypeOK
    <3> QED BY <2>2, <3>1, BelowIsAbove, AncestryAbove
  <2> QED BY <2>1, <2>2
<1>2. PlacedIn(Below(N, u)) = S
  BY <1>1, Zenon DEF PlacedIn
<1> QED BY <1>2, RollupIs, Zenon

-----------------------------------------------------------------------------
LEMMA TreeHolds == TreeIInv => TreeInv
<1>1. TreeIInv => TreeTypeOK /\ StrictUnlessOverlapped
  BY DEF TreeIInv, Alone, StrictUnlessOverlapped
<1> QED BY <1>1, NearestPolicy, CountedOnceInRollup DEF TreeInv

(***************************************************************************)
(* The organization tree: however deep it is and whatever rules it carries,*)
(* resolve_buyer_policy keeps the nearest rule, build_organization_tree    *)
(* adds every member once to each unit above, and OrganizationUnit.clean   *)
(* keeps Branch -> Sub-branch -> Shift while no two edits overlap.         *)
(***************************************************************************)
THEOREM TreeCorrect == TreeSpec => []TreeInv
<1> QED BY InitTree, TreeStep, TreeHolds, PTL DEF TreeSpec
-----------------------------------------------------------------------------
(***************************************************************************)
(* SupplierScope: the inventory query and the entry check agree, whatever  *)
(* prices, ranges, rules and grants are stored.                            *)
(***************************************************************************)
LEMMA RangesAgree ==
  ASSUME NEW price \in Prices \cup {NoPrice}, NEW r \in Ranges
  PROVE  QueryInRange(price, r) <=> InRange(price, r.min, r.max)
<1>1. /\ r.min \in Limits /\ r.max \in Limits
      /\ Prices \subseteq Nat /\ NoPrice \notin Prices /\ Unlimited \notin Prices
  BY SupplierScopeAssumption DEF Ranges
<1>2. CASE price = NoPrice
  BY <1>1, <1>2 DEF QueryInRange, InRange
<1>3. CASE price # NoPrice
  BY <1>1, <1>3 DEF QueryInRange, InRange
<1> QED BY <1>2, <1>3

LEMMA ListedResolved == ScopeTypeOK => ListedIffResolved
<1> SUFFICES ASSUME ScopeTypeOK, NEW o \in Offers
             PROVE  ListedForUser(o) <=> Resolves(o, offer[o].price, offer[o].left)
  BY DEF ListedIffResolved
<1> DEFINE a == OfferedBy[o]
<1>1. a \in Accounts
  BY SupplierScopeAssumption
<1>2. /\ offer[o].price \in Prices \cup {NoPrice}
      /\ offer[o].left \in 0 .. 1
      /\ grant[a].range \in Ranges
      /\ policy.of[a].range \in Ranges
  BY <1>1 DEF ScopeTypeOK
<1> DEFINE price == offer[o].price
           g     == grant[a].range
           p     == policy.of[a].range
<1>3. /\ QueryInRange(price, g) <=> InRange(price, g.min, g.max)
      /\ QueryInRange(price, p) <=> InRange(price, p.min, p.max)
  BY <1>2, RangesAgree
<1>4. offer[o].left > 0 <=> offer[o].left >= 1
  BY <1>2
<1>5. PolicyLists(o) <=>
        (policy.unit => /\ policy.of[a].allow /\ buyer[a]
                        /\ InRange(price, p.min, p.max))
  BY <1>3 DEF PolicyLists
<1> QED BY <1>3, <1>4, <1>5 DEF ListedForUser, Resolves, NotExcepted

\* Who was admitted was admitted to an offer.
ScopeIInv ==
  /\ ScopeTypeOK
  /\ \A e \in Entrants : entrant[e].pc = "admitted" => entrant[e].offer \in Offers

LEMMA AnyPriceRange == AnyPrice \in Ranges
BY DEF AnyPrice, Ranges, Limits

LEMMA InitScope == ScopeInit => ScopeIInv
<1> SUFFICES ASSUME ScopeInit PROVE ScopeIInv
  OBVIOUS
<1>1. 0 \in 0 .. MaxScopeEdits
  BY SupplierScopeAssumption
<1>2. NoGrant \in [set : BOOLEAN, on : BOOLEAN, open : BOOLEAN, range : Ranges]
  BY AnyPriceRange DEF NoGrant
<1>3. grant \in [Accounts -> [set : BOOLEAN, on : BOOLEAN, open : BOOLEAN, range : Ranges]]
  BY <1>2 DEF ScopeInit
<1>4. offer \in [Offers -> [price : Prices \cup {NoPrice}, left : 0 .. 1, live : BOOLEAN]]
  <2>1. [price : Prices, left : {1}, live : {TRUE}]
          \subseteq [price : Prices \cup {NoPrice}, left : 0 .. 1, live : BOOLEAN]
    <3> SUFFICES ASSUME NEW x \in [price : Prices, left : {1}, live : {TRUE}]
                 PROVE  x \in [price : Prices \cup {NoPrice}, left : 0 .. 1, live : BOOLEAN]
      OBVIOUS
    <3>1. /\ x = [price |-> x.price, left |-> x.left, live |-> x.live]
          /\ x.price \in Prices \cup {NoPrice} /\ x.left \in 0 .. 1
      OBVIOUS
    <3>2. x.live \in {TRUE}
      OBVIOUS
    <3>3. x.live \in BOOLEAN
      BY <3>2, Zenon
    <3> QED BY <3>1, <3>3, Zenon
  <2> QED BY <2>1 DEF ScopeInit
<1>5. policy.unit \in BOOLEAN /\ policy.of \in [Accounts -> [allow : BOOLEAN, range : Ranges]]
  BY AnyPriceRange DEF ScopeInit
<1>6. entrant \in [Entrants -> [pc : {"idle", "admitted"}, offer : Offers \cup {"none"},
                     keyed : BOOLEAN, price : Prices \cup {NoPrice}, left : 0 .. 1]]
  BY DEF ScopeInit, NotEntering
<1> QED BY <1>1, <1>3, <1>4, <1>5, <1>6 DEF ScopeInit, ScopeIInv, ScopeTypeOK, NoException,
           NotEntering

\* Each conjunct of the type invariant is disturbed by few actions.
LEMMA ScopeStep ==
  ASSUME ScopeIInv, [ScopeNext]_scopeVars
  PROVE  ScopeIInv'
<1> USE DEF CountScopeEdit
<1>0. /\ buyer \in [Accounts -> BOOLEAN]
      /\ supplier \in [active : BOOLEAN, commercial : BOOLEAN, api : BOOLEAN]
      /\ grant \in [Accounts -> [set : BOOLEAN, on : BOOLEAN, open : BOOLEAN, range : Ranges]]
      /\ exception \in [Offers -> [set : BOOLEAN, on : BOOLEAN, open : BOOLEAN]]
      /\ offer \in [Offers -> [price : Prices \cup {NoPrice}, left : 0 .. 1, live : BOOLEAN]]
      /\ policy.unit \in BOOLEAN /\ policy.of \in [Accounts -> [allow : BOOLEAN, range : Ranges]]
      /\ apiKey \in [on : BOOLEAN, grants : SUBSET {a \in Accounts : grant[a].set}]
      /\ entrant \in [Entrants -> [pc : {"idle", "admitted"}, offer : Offers \cup {"none"},
                       keyed : BOOLEAN, price : Prices \cup {NoPrice}, left : 0 .. 1]]
      /\ held \in [Entrants -> Offers \cup {"none"}]
      /\ scopeEdits \in 0 .. MaxScopeEdits /\ MaxScopeEdits \in Nat
      /\ \A e \in Entrants : entrant[e].pc = "admitted" => entrant[e].offer \in Offers
  BY SupplierScopeAssumption DEF ScopeIInv, ScopeTypeOK
<1>c. CountScopeEdit => scopeEdits' \in 0 .. MaxScopeEdits
  BY <1>0
<1>1. ASSUME NEW e \in Entrants, AdmitLink(e) PROVE ScopeIInv'
  <2>1. PICK o \in Offers, keyed \in BOOLEAN :
          entrant' = [entrant EXCEPT ![e] =
            [pc |-> "admitted", offer |-> o, keyed |-> keyed,
             price |-> offer[o].price, left |-> offer[o].left]]
    BY <1>1 DEF AdmitLink
  <2> DEFINE n == [pc |-> "admitted", offer |-> o, keyed |-> keyed,
                   price |-> offer[o].price, left |-> offer[o].left]
  <2>2. n \in [pc : {"idle", "admitted"}, offer : Offers \cup {"none"},
               keyed : BOOLEAN, price : Prices \cup {NoPrice}, left : 0 .. 1]
    BY <1>0
  <2>3. n.offer \in Offers
    BY <2>1
  <2> HIDE DEF n
  <2>4. /\ entrant' \in [Entrants -> [pc : {"idle", "admitted"}, offer : Offers \cup {"none"},
                           keyed : BOOLEAN, price : Prices \cup {NoPrice}, left : 0 .. 1]]
        /\ \A f \in Entrants : entrant'[f].pc = "admitted" => entrant'[f].offer \in Offers
    BY <1>0, <2>1, <2>2, <2>3 DEF n
  <2> QED BY <1>0, <1>1, <2>4 DEF AdmitLink, ScopeIInv, ScopeTypeOK
<1>2. ASSUME NEW e \in Entrants, ReserveEntry(e) PROVE ScopeIInv'
  <2>1. /\ entrant' \in [Entrants -> [pc : {"idle", "admitted"}, offer : Offers \cup {"none"},
                           keyed : BOOLEAN, price : Prices \cup {NoPrice}, left : 0 .. 1]]
        /\ \A f \in Entrants : entrant'[f].pc = "admitted" => entrant'[f].offer \in Offers
    BY <1>0, <1>2 DEF ReserveEntry, NotEntering
  <2>2. held' \in [Entrants -> Offers \cup {"none"}]
    BY <1>0, <1>2 DEF ReserveEntry
  <2> QED BY <1>0, <1>2, <2>1, <2>2 DEF ReserveEntry, ScopeIInv, ScopeTypeOK
<1>g. ASSUME NEW a \in Accounts,
             NEW n \in [set : BOOLEAN, on : BOOLEAN, open : BOOLEAN, range : Ranges],
             grant' = [grant EXCEPT ![a] = n], grant[a].set => n.set,
             CountScopeEdit, UNCHANGED <<buyer, supplier, exception, offer, policy, apiKey,
                                         entrant, held>>
      PROVE  ScopeIInv'
  <2>1. grant' \in [Accounts -> [set : BOOLEAN, on : BOOLEAN, open : BOOLEAN, range : Ranges]]
    BY <1>0, <1>g
  <2>2. \A b \in Accounts : grant[b].set => grant'[b].set
    BY <1>0, <1>g
  <2>3. apiKey' \in [on : BOOLEAN, grants : SUBSET {b \in Accounts : grant'[b].set}]
    <3>1. {b \in Accounts : grant[b].set} \subseteq {b \in Accounts : grant'[b].set}
      BY <2>2
    <3> QED BY <1>0, <1>g, <3>1
  <2> QED BY <1>0, <1>c, <1>g, <2>1, <2>3 DEF ScopeIInv, ScopeTypeOK
<1>3. ASSUME NEW a \in Accounts, SaveGrant(a) PROVE ScopeIInv'
  <2>1. PICK on \in BOOLEAN, r \in Ranges :
          grant' = [grant EXCEPT ![a] = [set |-> TRUE, on |-> on, range |-> r,
                                         open |-> IF grant[a].set THEN grant[a].open ELSE TRUE]]
    BY <1>3 DEF SaveGrant
  <2> DEFINE n == [set |-> TRUE, on |-> on, range |-> r,
                   open |-> IF grant[a].set THEN grant[a].open ELSE TRUE]
  <2>2. n \in [set : BOOLEAN, on : BOOLEAN, open : BOOLEAN, range : Ranges] /\ n.set
    <3>1. grant[a].open \in BOOLEAN
      BY <1>0
    <3> QED BY <3>1
  <2>3. grant' = [grant EXCEPT ![a] = n]
    BY <2>1
  <2> HIDE DEF n
  <2> QED BY <1>3, <1>g, <2>2, <2>3 DEF SaveGrant
<1>4. ASSUME NEW a \in Accounts, WindowCloses(a) PROVE ScopeIInv'
  <2> DEFINE n == [grant[a] EXCEPT !.open = FALSE]
  <2>1. grant' = [grant EXCEPT ![a] = n]
    BY <1>0, <1>4 DEF WindowCloses
  <2>2. n \in [set : BOOLEAN, on : BOOLEAN, open : BOOLEAN, range : Ranges]
        /\ n.set = grant[a].set
    <3>1. grant[a] \in [set : BOOLEAN, on : BOOLEAN, open : BOOLEAN, range : Ranges]
      BY <1>0
    <3> QED BY <3>1
  <2> HIDE DEF n
  <2> QED BY <1>4, <1>g, <2>1, <2>2 DEF WindowCloses
<1>5. ASSUME NEW o \in Offers, SyncOffer(o) PROVE ScopeIInv'
  <2>1. offer' \in [Offers -> [price : Prices \cup {NoPrice}, left : 0 .. 1, live : BOOLEAN]]
    BY <1>0, <1>5 DEF SyncOffer
  <2> QED BY <1>0, <1>c, <1>5, <2>1 DEF SyncOffer, ScopeIInv, ScopeTypeOK
<1>6. ASSUME NEW o \in Offers, NEW assigned \in BOOLEAN, SetAccess(o, assigned) PROVE ScopeIInv'
  <2>1. exception' \in [Offers -> [set : BOOLEAN, on : BOOLEAN, open : BOOLEAN]]
    <3>1. PICK n \in [set : BOOLEAN, on : BOOLEAN, open : BOOLEAN] :
            exception' = exception \/ exception' = [exception EXCEPT ![o] = n]
      <4> DEFINE kept == [exception[o] EXCEPT !.on = assigned]
                 new  == [set |-> TRUE, on |-> FALSE, open |-> TRUE]
                 Rule == [set : BOOLEAN, on : BOOLEAN, open : BOOLEAN]
      <4>1. kept \in Rule /\ new \in Rule
        BY <1>0
      <4>2. \/ exception' = exception \/ exception' = [exception EXCEPT ![o] = kept]
            \/ exception' = [exception EXCEPT ![o] = new]
        BY <1>6 DEF SetAccess
      <4> HIDE DEF kept, new, Rule
      <4>3. \E n \in Rule : exception' = exception \/ exception' = [exception EXCEPT ![o] = n]
        BY <4>1, <4>2
      <4> QED BY <4>3 DEF Rule
    <3> QED BY <1>0, <3>1
  <2> QED BY <1>0, <1>c, <1>6, <2>1 DEF SetAccess, ScopeIInv, ScopeTypeOK
<1>7. CASE SwitchAccount
  <2>1. /\ buyer' \in [Accounts -> BOOLEAN]
        /\ supplier' \in [active : BOOLEAN, commercial : BOOLEAN, api : BOOLEAN]
    BY <1>0, <1>7 DEF SwitchAccount
  <2> QED BY <1>0, <1>c, <1>7, <2>1 DEF SwitchAccount, ScopeIInv, ScopeTypeOK
<1>8. CASE SaveKey
  <2>1. apiKey' \in [on : BOOLEAN, grants : SUBSET {a \in Accounts : grant[a].set}]
    <3>1. PICK as \in (SUBSET Keyable) \ {{}} : apiKey' = [on |-> TRUE, grants |-> as]
      BY <1>8 DEF SaveKey
    <3>2. as \subseteq {a \in Accounts : grant[a].set}
      BY DEF Keyable
    <3> QED BY <3>1, <3>2
  <2> QED BY <1>0, <1>c, <1>8, <2>1 DEF SaveKey, ScopeIInv, ScopeTypeOK
<1>9. CASE RevokeKey
  <2>1. apiKey' \in [on : BOOLEAN, grants : SUBSET {a \in Accounts : grant[a].set}]
    BY <1>0, <1>9 DEF RevokeKey
  <2> QED BY <1>0, <1>c, <1>9, <2>1 DEF RevokeKey, ScopeIInv, ScopeTypeOK
<1>10. CASE AssignPolicy
  <2>1. policy'.unit \in BOOLEAN /\ policy'.of \in [Accounts -> [allow : BOOLEAN, range : Ranges]]
    BY <1>0, <1>10 DEF AssignPolicy
  <2> QED BY <1>0, <1>c, <1>10, <2>1 DEF AssignPolicy, ScopeIInv, ScopeTypeOK
<1>11. CASE UNCHANGED scopeVars
  BY <1>0, <1>11 DEF scopeVars, ScopeIInv, ScopeTypeOK
<1> QED BY <1>1, <1>2, <1>3, <1>4, <1>5, <1>6, <1>7, <1>8, <1>9, <1>10, <1>11 DEF ScopeNext

LEMMA ScopeInvariance == ScopeSpec => []ScopeIInv
<1>1. ScopeIInv /\ [ScopeNext]_scopeVars => ScopeIInv'
  BY ScopeStep
<1> QED BY <1>1, InitScope, PTL DEF ScopeSpec

(***************************************************************************)
(* scope_surveys_for_user lists what resolve_vendor_survey_context lets in.*)
(***************************************************************************)
THEOREM ScopeCorrect == ScopeSpec => []ScopeInv
<1>1. ScopeIInv => ScopeInv
  BY ListedResolved DEF ScopeIInv, ScopeInv
<1> QED BY <1>1, ScopeInvariance, PTL

LEMMA ReservationStep ==
  ASSUME ScopeIInv, [ScopeNext]_scopeVars, NEW e \in Entrants, held'[e] # held[e]
  PROVE  /\ GrantActive(OfferedBy[held'[e]]) /\ NotExcepted(held'[e])
         /\ offer[held'[e]].left > 0
         /\ QueryInRange(entrant[e].price, grant[OfferedBy[held'[e]]].range)
         /\ policy.unit => QueryInRange(entrant[e].price, policy.of[OfferedBy[held'[e]]].range)
<1>1. PICK f \in Entrants : ReserveEntry(f)
  BY DEF ScopeNext, scopeVars, AdmitLink, SaveGrant, WindowCloses, SyncOffer, SetAccess,
         SwitchAccount, SaveKey, RevokeKey, AssignPolicy
<1>0. /\ held \in [Entrants -> Offers \cup {"none"}]
      /\ entrant[e].price \in Prices \cup {NoPrice}
      /\ entrant[e].pc = "admitted" => entrant[e].offer \in Offers
      /\ grant \in [Accounts -> [set : BOOLEAN, on : BOOLEAN, open : BOOLEAN, range : Ranges]]
      /\ policy.of \in [Accounts -> [allow : BOOLEAN, range : Ranges]]
      /\ offer \in [Offers -> [price : Prices \cup {NoPrice}, left : 0 .. 1, live : BOOLEAN]]
  BY DEF ScopeIInv, ScopeTypeOK
<1> DEFINE o == entrant[e].offer
           a == OfferedBy[o]
<1>2. f = e /\ StillResolves(e) /\ Reserves(o) /\ held'[e] = o /\ entrant[e].pc = "admitted"
  BY <1>0, <1>1 DEF ReserveEntry
<1>3. o \in Offers /\ a \in Accounts
  BY <1>0, <1>2, SupplierScopeAssumption
<1>4. grant[a].range \in Ranges /\ policy.of[a].range \in Ranges /\ offer[o].left \in 0 .. 1
  BY <1>0, <1>3
<1>5. /\ InRange(entrant[e].price, grant[a].range.min, grant[a].range.max)
      /\ policy.unit => InRange(entrant[e].price, policy.of[a].range.min, policy.of[a].range.max)
  BY <1>2 DEF StillResolves, Resolves
<1>6. /\ QueryInRange(entrant[e].price, grant[a].range)
      /\ policy.unit => QueryInRange(entrant[e].price, policy.of[a].range)
  BY <1>0, <1>4, <1>5, RangesAgree
<1>7. GrantActive(a) /\ NotExcepted(o) /\ offer[o].left > 0
  BY <1>2, <1>4 DEF Reserves
<1> QED BY <1>2, <1>6, <1>7

LEMMA ReservedLive ==
  ScopeIInv /\ [ScopeNext]_scopeVars =>
    [\A e \in Entrants : held'[e] # held[e] =>
       /\ GrantActive(OfferedBy[held'[e]]) /\ NotExcepted(held'[e])
       /\ offer[held'[e]].left > 0]_scopeVars
BY ReservationStep

LEMMA ReservedPriced ==
  ScopeIInv /\ [ScopeNext]_scopeVars =>
    [\A e \in Entrants : held'[e] # held[e] =>
       LET r == grant[OfferedBy[held'[e]]].range
       IN /\ QueryInRange(entrant[e].price, r)
          /\ policy.unit => QueryInRange(entrant[e].price,
                                         policy.of[OfferedBy[held'[e]]].range)]_scopeVars
BY ReservationStep

(***************************************************************************)
(* A reservation is made under the records as they are when it is made, and*)
(* at a price that was inside the ranges when its link was admitted.       *)
(***************************************************************************)
THEOREM ReservationsCorrect == ScopeSpec => ReservationsCovered
<1> QED BY ReservedLive, ReservedPriced, ScopeInvariance, PTL
           DEF ScopeSpec, ReservationsCovered, ReservedUnderLiveGrant, ReservedPriceWasAllowed
-----------------------------------------------------------------------------
(***************************************************************************)
(* SupplierPricing: arithmetic of one and of two roundings to a cent.      *)
(***************************************************************************)
LEMMA Scaled ==
  ASSUME NEW d \in Int, NEW v \in 0 .. 100, -50 <= d, d <= 50
  PROVE  -5000 <= d * v /\ d * v <= 5000
OBVIOUS

LEMMA RoundedToCent ==
  ASSUME NEW x \in Int
  PROVE  /\ (x + 50) \div 100 \in Int
         /\ 100 * ((x + 50) \div 100) <= x + 50
         /\ x + 50 < 100 * ((x + 50) \div 100) + 100
OBVIOUS

LEMMA WholeKept == ASSUME NEW x \in Int PROVE (x * 100 + 50) \div 100 = x
OBVIOUS

Twice(x, v) == (((x + 50) \div 100) * v + 50) \div 100
Once(x, v) == (x * v + 5000) \div 10000

LEMMA RoundedTwice ==
  ASSUME NEW x \in Int, NEW v \in 0 .. 100
  PROVE  Twice(x, v) - Once(x, v) <= 1 /\ Once(x, v) - Twice(x, v) <= 1
<1> DEFINE p == (x + 50) \div 100
           y == p * v
           z == x * v
           q == (y + 50) \div 100
           r == (z + 5000) \div 10000
<1>1. p \in Int /\ -50 <= 100 * p - x /\ 100 * p - x <= 50
  BY RoundedToCent
<1> HIDE DEF p
<1>2. -5000 <= (100 * p - x) * v /\ (100 * p - x) * v <= 5000
  BY <1>1, Scaled
<1>3. y \in Int /\ z \in Int /\ (100 * p - x) * v = 100 * y - z
  BY <1>1
<1> HIDE DEF y, z
<1>4. q \in Int /\ 100 * q <= y + 50 /\ y + 50 < 100 * q + 100
  BY <1>3, RoundedToCent
<1>5. r \in Int /\ 10000 * r <= z + 5000 /\ z + 5000 < 10000 * r + 10000
  BY <1>3
<1> HIDE DEF q, r
<1>6. q - r <= 1 /\ r - q <= 1
  BY <1>2, <1>3, <1>4, <1>5
<1> QED BY <1>6 DEF q, r, y, z, p, Twice, Once

LEMMA OneRounding ==
  ASSUME NEW k \in Int
  PROVE  (k * 100 + 5000) \div 10000 = (k + 50) \div 100
OBVIOUS

LEMMA PayableBounds ==
  ASSUME NEW s \in Nat, NEW c \in 0 .. 100
  PROVE  Payable(s, c) \in 0 .. s
<1>1. s * (100 - c) \in Nat /\ s * (100 - c) <= s * 100
  OBVIOUS
<1> DEFINE k == s * (100 - c)
<1> HIDE DEF k
<1>2. (k + 50) \div 100 \in 0 .. s
  BY <1>1 DEF k
<1> QED BY <1>2 DEF Payable, Whole, k

(***************************************************************************)
(* Every price is the same two roundings: the supplier's cut, which is none*)
(* for a viewer outside the external scope, then the share of the role.    *)
(***************************************************************************)
PriceRecords ==
  /\ PriceTypeOK
  /\ cuts \in [default : Cuts, client : Cuts \cup {Inherited},
               project : [set : BOOLEAN, cut : Cuts \cup {Inherited}]]

PriceIInv ==
  /\ PriceRecords
  /\ frozen.set => frozen.payable = Payable(frozen.source, frozen.cut)
  /\ priceEdits = 0 => visible = Whole
  /\ priceEdits = 0 /\ frozen.set /\ viewer \in ExternalScope => seen = frozen.payable

Paid == Payable(source, SupplierCut)

LEMMA CutInRange ==
  ASSUME PriceRecords
  PROVE  /\ SupplierCut \in Cuts /\ SupplierCut \in 0 .. 100
         /\ viewer \notin ExternalScope => SupplierCut = 0
         /\ Visible \in 0 .. 100
         /\ source \in Nat
<1>1. /\ cuts.default \in Cuts /\ cuts.client \in Cuts \cup {Inherited}
      /\ cuts.project.cut \in Cuts \cup {Inherited}
      /\ 0 \in Cuts /\ Cuts \subseteq 0 .. 100 /\ Amounts \subseteq Nat
      /\ visible \in Cuts \cup {100} /\ source \in Amounts
  BY SupplierPricingAssumption DEF PriceRecords, PriceTypeOK, Whole
<1>2. EffectiveShare(cuts.client, cuts.default) \in Cuts
  BY <1>1 DEF EffectiveShare
<1>3. EffectiveShare(cuts.project.cut, EffectiveShare(cuts.client, cuts.default)) \in Cuts
  BY <1>1, <1>2 DEF EffectiveShare
<1>4. SupplierCut \in Cuts /\ (viewer \notin ExternalScope => SupplierCut = 0)
  BY <1>1, <1>2, <1>3 DEF SupplierCut
<1>5. Visible \in 0 .. 100
  BY <1>1 DEF Visible, Whole
<1> QED BY <1>1, <1>4, <1>5

LEMMA CutsAgree ==
  ASSUME PriceRecords
  PROVE  AnnotatedCut = SupplierCut
<1>1. Inherited \notin Cuts
  BY SupplierPricingAssumption
<1> QED BY <1>1 DEF PriceRecords, AnnotatedCut, SupplierCut, EffectiveShare

LEMMA PaidWhole ==
  ASSUME PriceRecords, SupplierCut = 0
  PROVE  Paid = source
<1>1. source \in Int
  BY CutInRange
<1> QED BY <1>1, WholeKept DEF Paid, Payable, Whole

LEMMA RowPriceIs ==
  ASSUME PriceRecords
  PROVE  RowPrice = ApplyPercentage(Paid, Visible)
<1>1. Paid \in Int /\ source \in Int /\ Visible \in 0 .. 100
  <2>1. source \in Nat /\ SupplierCut \in 0 .. 100 /\ Visible \in 0 .. 100
    BY CutInRange
  <2>2. Paid \in 0 .. source
    BY <2>1, PayableBounds DEF Paid
  <2> HIDE DEF Paid
  <2> QED BY <2>1, <2>2
<1>2. (IF viewer \in Scoped THEN Payable(source, SupplierCut) ELSE source) = Paid
  <2>1. CASE viewer \in Scoped
    BY <2>1 DEF Paid
  <2>2. CASE viewer \notin Scoped
    <3>1. viewer \notin ExternalScope
      BY <2>2 DEF Scoped, ExternalScope
    <3> QED BY <2>2, <3>1, CutInRange, PaidWhole
  <2> QED BY <2>1, <2>2
<1>3. RowPrice = IF viewer \in Employees THEN Payable(Paid, Whole - visible) ELSE Paid
  BY <1>2 DEF RowPrice
<1>4. CASE viewer \in Employees
  <2>1. Visible = visible
    BY <1>4 DEF Visible
  <2>2. Payable(Paid, Whole - Visible) = ApplyPercentage(Paid, Visible)
    <3>1. Whole - (Whole - Visible) = Visible
      BY <1>1 DEF Whole
    <3> QED BY <3>1 DEF Payable, ApplyPercentage
  <2> QED BY <1>3, <1>4, <2>1, <2>2
<1>5. CASE viewer \notin Employees
  <2>1. Visible = Whole
    BY <1>5 DEF Visible
  <2> QED BY <1>1, <1>3, <1>5, <2>1, WholeKept DEF ApplyPercentage, Whole
<1> QED BY <1>4, <1>5

(***************************************************************************)
(* The database rounds once what the row rounds twice.                     *)
(***************************************************************************)
LEMMA AnnotatedClose == PriceRecords => AnnotatedWithinACent
<1> SUFFICES ASSUME PriceRecords PROVE AnnotatedWithinACent
  OBVIOUS
<1> DEFINE x == source * (100 - SupplierCut)
           v == Visible
           p == (x + 50) \div 100
           q == (p * v + 50) \div 100
           r == (x * v + 5000) \div 10000
<1>1. /\ SupplierCut \in 0 .. 100 /\ v \in 0 .. 100 /\ source \in Int
  BY CutInRange
<1>2. x \in Int
  BY <1>1
<1>3. RowPrice = q
  BY RowPriceIs DEF ApplyPercentage, Paid, Payable, Whole
<1>4. AnnotatedPrice = r
  <2>1. Whole * Whole = 10000 /\ (Whole * Whole) \div 2 = 5000
    BY DEF Whole
  <2> QED BY <2>1, CutsAgree DEF AnnotatedPrice, Whole
<1>5. p \in Int /\ p * v \in Int /\ x * v \in Int
  BY <1>1, <1>2
<1>6. q \in Int /\ r \in Int
  <2> HIDE DEF p, x
  <2>1. ASSUME NEW k \in Int PROVE (k + 50) \div 100 \in Int /\ (k + 5000) \div 10000 \in Int
    OBVIOUS
  <2> QED BY <1>5, <2>1
<1>7. q - r <= 1 /\ r - q <= 1
  <2> HIDE DEF x, v
  <2>1. Twice(x, v) - Once(x, v) <= 1 /\ Once(x, v) - Twice(x, v) <= 1
    BY <1>1, <1>2, RoundedTwice
  <2> QED BY <2>1 DEF Twice, Once
<1>8. ASSUME SupplierCut = 0 PROVE q = r
  <2>1. p = source
    BY <1>1, <1>8, WholeKept
  <2>2. x * v = (source * v) * 100
    BY <1>1, <1>8
  <2>3. source * v \in Int
    BY <1>1
  <2> HIDE DEF p, x, v
  <2> QED BY <2>1, <2>2, <2>3, OneRounding
<1>9. ASSUME v = 100 PROVE q = r
  <2> HIDE DEF x, v
  <2>1. q = p
    BY <1>5, <1>9, WholeKept
  <2> QED BY <1>2, <1>9, <2>1, OneRounding
<1> HIDE DEF x, v, p, q, r
<1>10. Apart(RowPrice, AnnotatedPrice) <= 1
  BY <1>3, <1>4, <1>6, <1>7 DEF Apart
<1>11. SupplierCut = 0 \/ Visible = Whole => RowPrice = AnnotatedPrice
  BY <1>3, <1>4, <1>8, <1>9 DEF v, Whole
<1> QED BY <1>10, <1>11 DEF AnnotatedWithinACent

(***************************************************************************)
(* Reports: a past entry's price from its snapshot, and the current one.   *)
(***************************************************************************)
LEMMA ReportsAgree == PriceIInv => ReportShowsEntryPrice /\ ReportFollowsInventory
<1> SUFFICES ASSUME PriceIInv PROVE ReportShowsEntryPrice /\ ReportFollowsInventory
  OBVIOUS
<1>0. PriceRecords /\ frozen.payable \in Int
  <2>1. PriceRecords /\ frozen.source \in Amounts \cup {0} /\ frozen.payable \in 0 .. frozen.source
    BY DEF PriceIInv, PriceRecords, PriceTypeOK
  <2>2. frozen.source \in Int
    <3>1. Amounts \subseteq Nat
      BY SupplierPricingAssumption, Zenon
    <3>2. ASSUME NEW n \in Amounts \cup {0} PROVE n \in Int
      BY <3>1
    <3> QED BY <2>1, <3>2, Zenon
  <2>3. ASSUME NEW n \in Int, NEW k \in 0 .. n PROVE k \in Int
    OBVIOUS
  <2> QED BY <2>1, <2>2, <2>3, Zenon
<1>1. ASSUME frozen.set, viewer \in ExternalScope
      PROVE  /\ ReportPrice(FALSE) = ApplyPercentage(Payable(frozen.source, frozen.cut), Visible)
             /\ priceEdits = 0 => ReportPrice(FALSE) = seen
  <2>1. ~ CanViewCommercials
    BY <1>1 DEF CanViewCommercials, ExternalScope
  <2>2. ReportPrice(FALSE) = ApplyPercentage(frozen.payable, Visible)
    BY <1>1, <2>1 DEF ReportPrice
  <2>3. frozen.payable = Payable(frozen.source, frozen.cut)
    BY <1>1 DEF PriceIInv
  <2>4. ASSUME priceEdits = 0 PROVE ReportPrice(FALSE) = seen
    <3>1. Visible = Whole /\ seen = frozen.payable
      BY <1>1, <2>4 DEF PriceIInv, Visible
    <3>2. ApplyPercentage(frozen.payable, Whole) = frozen.payable
      BY <1>0, WholeKept DEF ApplyPercentage, Whole
    <3> QED BY <2>2, <3>1, <3>2
  <2> QED BY <2>2, <2>3, <2>4
<1>2. ASSUME ~ CanViewCommercials, frozen.cut = SupplierCut
      PROVE  ReportPrice(TRUE) = RowPrice
  <2> DEFINE base == IF viewer \notin ExternalScope THEN source
                     ELSE ApplyPercentage(source, Whole - frozen.cut)
  <2>1. ReportPrice(TRUE) = ApplyPercentage(base, Visible)
    BY <1>2 DEF ReportPrice
  <2>2. base = Paid
    <3>1. CASE viewer \in ExternalScope
      BY <1>2, <3>1 DEF Paid, Payable, ApplyPercentage
    <3>2. CASE viewer \notin ExternalScope
      BY <1>0, <3>2, CutInRange, PaidWhole
    <3> QED BY <3>1, <3>2
  <2> HIDE DEF base
  <2> QED BY <1>0, <2>1, <2>2, RowPriceIs
<1> QED BY <1>1, <1>2 DEF ReportShowsEntryPrice, ReportFollowsInventory

LEMMA InitPrice == PriceInit => PriceIInv
<1> SUFFICES ASSUME PriceInit PROVE PriceIInv
  OBVIOUS
<1>1. /\ 0 \in Cuts /\ MaxPriceEdits \in Nat
  BY SupplierPricingAssumption
<1>2. cuts \in [default : Cuts, client : Cuts \cup {Inherited},
                project : [set : BOOLEAN, cut : Cuts \cup {Inherited}]]
  BY <1>1 DEF PriceInit, NoProject
<1>3. PriceTypeOK
  BY <1>1, <1>2 DEF PriceInit, PriceTypeOK, NotFrozen
<1> QED BY <1>2, <1>3 DEF PriceIInv, PriceRecords, PriceInit, NotFrozen

LEMMA PriceStep ==
  ASSUME PriceIInv, [PriceNext]_priceVars
  PROVE  PriceIInv'
<1> USE DEF CountPriceEdit
<1>0. /\ PriceRecords /\ MaxPriceEdits \in Nat /\ 0 \in Cuts
      /\ priceEdits \in 0 .. MaxPriceEdits
  BY SupplierPricingAssumption DEF PriceIInv, PriceRecords, PriceTypeOK
<1>c. CountPriceEdit => priceEdits' \in 0 .. MaxPriceEdits /\ priceEdits' # 0
  BY <1>0
<1>1. CASE SyncPrice
  BY <1>0, <1>c, <1>1 DEF SyncPrice, PriceIInv, PriceRecords, PriceTypeOK
<1>2. CASE EditCut
  <2>1. PICK c \in Cuts, o \in Cuts \cup {Inherited} :
          cuts' \in {[cuts EXCEPT !.default = c], [cuts EXCEPT !.client = o],
                     [cuts EXCEPT !.project = [set |-> TRUE, cut |-> o]],
                     [cuts EXCEPT !.project = NoProject]}
    BY <1>2 DEF EditCut
  <2>2. /\ [set |-> TRUE, cut |-> o] \in [set : BOOLEAN, cut : Cuts \cup {Inherited}]
        /\ NoProject \in [set : BOOLEAN, cut : Cuts \cup {Inherited}]
    BY DEF NoProject
  <2> DEFINE K == [default : Cuts, client : Cuts \cup {Inherited},
                   project : [set : BOOLEAN, cut : Cuts \cup {Inherited}]]
             on == [set |-> TRUE, cut |-> o]
  <2>3. cuts \in K
    BY <1>0 DEF PriceRecords
  <2>4. cuts' \in K
    <3> HIDE DEF on
    <3>1. /\ [cuts EXCEPT !.default = c] \in K
          /\ [cuts EXCEPT !.client = o] \in K
          /\ [cuts EXCEPT !.project = on] \in K
          /\ [cuts EXCEPT !.project = NoProject] \in K
      BY <2>2, <2>3 DEF on
    <3> HIDE DEF K
    <3> QED BY <2>1, <3>1 DEF on
  <2> QED BY <1>0, <1>c, <1>2, <2>4 DEF EditCut, PriceIInv, PriceRecords, PriceTypeOK
<1>3. CASE EditVisibility
  BY <1>0, <1>c, <1>3 DEF EditVisibility, PriceIInv, PriceRecords, PriceTypeOK
<1>4. CASE FreezePrice
  <2>1. /\ frozen' = [set |-> TRUE, source |-> source, cut |-> SupplierCut, payable |-> Paid]
        /\ seen' = RowPrice
        /\ UNCHANGED <<viewer, source, cuts, visible, priceEdits>>
    BY <1>4 DEF FreezePrice, Paid
  <2>2. SupplierCut \in Cuts /\ source \in Amounts /\ Paid \in 0 .. source
    BY <1>0, CutInRange, PayableBounds DEF Paid, PriceRecords, PriceTypeOK
  <2>3. source \in Nat /\ Visible \in 0 .. 100
    BY <1>0, CutInRange
  <2>4. RowPrice = ApplyPercentage(Paid, Visible)
    BY <1>0, RowPriceIs
  <2>5. RowPrice \in Nat
    <3>1. Paid * Visible \in Nat
      BY <2>2, <2>3
    <3> QED BY <2>4, <3>1 DEF ApplyPercentage, Whole
  <2>6. visible = Whole => RowPrice = Paid
    <3>1. visible = Whole => Visible = Whole
      BY DEF Visible
    <3> QED BY <2>2, <2>3, <2>4, <3>1, WholeKept DEF ApplyPercentage, Whole
  <2>7. /\ frozen'.set = TRUE /\ frozen'.source = source /\ frozen'.cut = SupplierCut
        /\ frozen'.payable = Paid
    BY <2>1
  <2>8. PriceTypeOK'
    BY <1>0, <2>1, <2>2, <2>5, <2>7 DEF PriceRecords, PriceTypeOK
  <2>9. priceEdits' = 0 => visible' = Whole
    BY <2>1 DEF PriceIInv
  <2> QED BY <1>0, <2>1, <2>6, <2>7, <2>8, <2>9 DEF PriceIInv, PriceRecords, Paid, Payable
<1>5. CASE UNCHANGED priceVars
  BY <1>0, <1>5 DEF priceVars, PriceIInv, PriceRecords, PriceTypeOK
<1> QED BY <1>1, <1>2, <1>3, <1>4, <1>5 DEF PriceNext

LEMMA PriceHolds == PriceIInv => PriceInv
BY AnnotatedClose, ReportsAgree DEF PriceIInv, PriceRecords, PriceInv

(***************************************************************************)
(* A scoped user sees one price, whichever way the code computes it.       *)
(***************************************************************************)
THEOREM PriceCorrect == PriceSpec => []PriceInv
<1>1. PriceIInv /\ [PriceNext]_priceVars => PriceIInv'
  BY PriceStep
<1> QED BY <1>1, InitPrice, PriceHolds, PTL DEF PriceSpec
-----------------------------------------------------------------------------
(***************************************************************************)
(* IntegrationSettings: but for the races noted, a managed provider's      *)
(* verdict is about the connection stored with it, the interval is the     *)
(* provider's, and what is fetched is fetched with the token stored.       *)
(***************************************************************************)
\* What LoadSettings lets an editor ask for.
Edited(loaded, wants) == wants.status = loaded.status /\ Acceptable(loaded, wants)

Editing == {r \in [busy : {TRUE}, at : EditSteps, loaded : Rows, wants : Rows] :
              Edited(r.loaded, r.wants)}
EditsOK == /\ edits = [e \in SettingEditors |-> edits[e]]
           /\ \A e \in SettingEditors : edits[e] \in {NoEdit} \cup Editing

RowsTyped ==
  /\ EditsOK /\ integration \in Rows /\ links \in Tokens \cup {NoCredential}
  /\ tests = [t \in Testers |-> tests[t]]
  /\ \A t \in Testers : tests[t].busy => tests[t].loaded \in Rows
  /\ fetching \subseteq Tokens \cup {NoCredential}
  /\ verified \subseteq Connections /\ races \subseteq Races
  /\ settingEdits \in 0 .. MaxSettingEdits

VerdictOK(row, tested) ==
  row.conn \in Managed =>
    /\ row.status = "success" => row.conn \in tested
    /\ row.scheduled => row.status = "success"

IntervalOK(row) ==
  row.conn \in Managed /\ row.scheduled => row.interval >= MinimumInterval(row.conn)

LinksOK(row, linked, under) ==
  linked \in {NoCredential, row.token} /\ under \subseteq {row.token}

\* The races each of them is subject to.
VerdictRaces == {"lost_update", "foreign_verdict", "torn_save"}
IntervalRaces == {"foreign_verdict"}
LinkRaces == {"lost_update", "late_fetch"}

SettingIInv ==
  /\ RowsTyped
  /\ Without(VerdictRaces) => VerdictOK(integration, verified)
  /\ Without(IntervalRaces) => IntervalOK(integration)
  /\ Without(LinkRaces) => LinksOK(integration, links, fetching)

\* A race once noted stays, but for a torn save.
LEMMA RacesStay ==
  ASSUME NEW kinds, NEW more, races' = races \cup more, Without(kinds)'
  PROVE  Without(kinds) /\ more \cap kinds = {}
BY DEF Without

LEMMA NotBusy == ~ NoEdit.busy
BY DEF NoEdit

LEMMA BusyEditing ==
  ASSUME EditsOK, NEW e \in SettingEditors, edits[e].busy
  PROVE  /\ edits[e] \in Editing /\ edits[e].at \in EditSteps
         /\ edits[e].loaded \in Rows /\ edits[e].wants \in Rows
         /\ Edited(edits[e].loaded, edits[e].wants)
BY NotBusy DEF EditsOK, Editing

LEMMA InitSetting == SettingInit => SettingIInv
<1> SUFFICES ASSUME SettingInit PROVE SettingIInv
  OBVIOUS
<1>1. /\ integration \in Rows /\ integration.status = "" /\ integration.token = NoCredential
      /\ Acceptable([integration EXCEPT !.scheduled = FALSE], integration)
  BY DEF SettingInit
<1>2. RowsTyped
  <2>0. /\ edits = [e \in SettingEditors |-> NoEdit] /\ tests = [t \in Testers |-> NoEdit]
        /\ links = NoCredential /\ fetching = {} /\ verified = {}
        /\ races = {} /\ settingEdits = 0
    BY DEF SettingInit
  <2>1. /\ EditsOK
        /\ tests = [t \in Testers |-> tests[t]]
        /\ \A t \in Testers : ~ tests[t].busy
    BY <2>0, NotBusy DEF EditsOK
  <2>2. settingEdits \in 0 .. MaxSettingEdits
    BY <2>0, IntegrationSettingsAssumption
  <2>3. races \subseteq Races
    BY <2>0
  <2> QED BY <1>1, <2>0, <2>1, <2>2, <2>3 DEF RowsTyped
<1>3. VerdictOK(integration, verified) /\ IntervalOK(integration)
  <2>1. /\ ~ [integration EXCEPT !.scheduled = FALSE].scheduled
        /\ [integration EXCEPT !.scheduled = FALSE].status = ""
    BY <1>1 DEF Rows
  <2> QED BY <1>1, <2>1 DEF Acceptable, VerdictOK, IntervalOK
<1>4. LinksOK(integration, links, fetching)
  BY DEF SettingInit, LinksOK
<1> QED BY <1>2, <1>3, <1>4 DEF SettingIInv

(***************************************************************************)
(* What an editor asks for is a row with the verdict it loaded.            *)
(***************************************************************************)
LEMMA ChangesKeep ==
  ASSUME NEW row \in Rows, NEW wants \in Changes(row)
  PROVE  wants \in Rows /\ wants.status = row.status
BY DEF Changes, Rows

(***************************************************************************)
(* update: what is saved over the row that was read keeps the verdict true *)
(* if the connection stays, and is within the provider's limit in any case.*)
(***************************************************************************)
LEMMA SavedSound ==
  ASSUME NEW loaded \in Rows, NEW wants \in Rows, Edited(loaded, wants)
  PROVE  LET row == [wants EXCEPT !.token = loaded.token] IN
         /\ row \in Rows /\ row.token = loaded.token
         /\ IntervalOK(row)
         /\ \A tested : VerdictOK(loaded, tested) /\ ~ Resets(loaded, wants) => VerdictOK(row, tested)
<1> DEFINE row == [wants EXCEPT !.token = loaded.token]
<1>1. /\ row \in Rows /\ row.token = loaded.token /\ row.conn = wants.conn /\ row.status = wants.status
      /\ row.scheduled = wants.scheduled /\ row.interval = wants.interval
  BY DEF Rows
<1> HIDE DEF row
<1>2. IntervalOK(row)
  BY <1>1 DEF IntervalOK, Edited, Acceptable
<1>3. ASSUME NEW tested, VerdictOK(loaded, tested), ~ Resets(loaded, wants) PROVE VerdictOK(row, tested)
  BY <1>1, <1>3 DEF VerdictOK, Edited, Acceptable, Resets
<1> QED BY <1>1, <1>2, <1>3 DEF row

LEMMA ClearedSound ==
  ASSUME NEW row, NEW loaded, NEW wants, LinksOK(row, links, {}), row.token = loaded.token,
         NEW new, new.token = wants.token
  PROVE  LinksOK(new, Cleared(loaded, wants), {})
BY DEF LinksOK, Cleared

LEMMA SettingStep ==
  ASSUME SettingIInv, [SettingNext]_settingVars
  PROVE  SettingIInv'
<1> USE DEF CountSettingEdit
<1>0. /\ RowsTyped
      /\ Without(VerdictRaces) => VerdictOK(integration, verified)
      /\ Without(IntervalRaces) => IntervalOK(integration)
      /\ Without(LinkRaces) => LinksOK(integration, links, fetching)
      /\ MaxSettingEdits \in Nat /\ NoCredential \notin Tokens
  BY IntegrationSettingsAssumption DEF SettingIInv
<1>c. CountSettingEdit => settingEdits' \in 0 .. MaxSettingEdits
  BY <1>0 DEF RowsTyped
<1>1. ASSUME NEW e \in SettingEditors, LoadSettings(e) PROVE SettingIInv'
  <2>1. PICK wants \in Changes(integration) :
          /\ Acceptable(integration, wants)
          /\ edits' = [edits EXCEPT ![e] =
                         [busy |-> TRUE, at |-> "loaded", loaded |-> integration, wants |-> wants]]
    BY <1>1 DEF LoadSettings
  <2>2. wants \in Rows /\ wants.status = integration.status
    BY <1>0, ChangesKeep DEF RowsTyped
  <2>3. EditsOK'
    BY <1>0, <2>1, <2>2 DEF RowsTyped, EditsOK, Editing, Edited, EditSteps
  <2> QED BY <1>0, <1>c, <1>1, <2>3 DEF LoadSettings, SettingIInv, RowsTyped, Without
<1>e. ASSUME NEW e \in SettingEditors, edits[e].busy,
             edits' = [edits EXCEPT ![e] = NoEdit] \/ \E step \in EditSteps : edits' = [edits EXCEPT ![e].at = step]
      PROVE  EditsOK'
  <2>1. EditsOK
    BY <1>0 DEF RowsTyped
  <2>2. CASE edits' = [edits EXCEPT ![e] = NoEdit]
    BY <2>1, <2>2 DEF EditsOK
  <2>3. CASE \E step \in EditSteps : edits' = [edits EXCEPT ![e].at = step]
    <3>1. PICK step \in EditSteps : edits' = [edits EXCEPT ![e].at = step]
      BY <2>3
    <3>2. edits[e] \in Editing
      BY <1>e, <2>1, BusyEditing
    <3>3. [edits[e] EXCEPT !.at = step] \in Editing
      BY <3>2 DEF Editing
    <3> QED BY <2>1, <3>1, <3>3 DEF EditsOK
  <2> QED BY <1>e, <2>2, <2>3
<1>t. ASSUME NEW t \in Testers, tests' = [tests EXCEPT ![t] = NoEdit]
      PROVE  /\ tests' = [u \in Testers |-> tests'[u]]
             /\ \A u \in Testers : tests'[u].busy => tests'[u].loaded \in Rows
  BY <1>0, <1>t, NotBusy DEF RowsTyped
<1>2. ASSUME NEW e \in SettingEditors, SaveSettings(e) PROVE SettingIInv'
  <2> DEFINE l == edits[e].loaded
             w == edits[e].wants
             r == [w EXCEPT !.token = l.token]
             n == Noted("lost_update", l # integration)
             m == Noted("torn_save", Resets(l, w))
  <2>e. edits[e].busy
    BY <1>2 DEF SaveSettings, EditAt
  <2>0. l \in Rows /\ w \in Rows /\ Edited(l, w)
    BY <1>0, <2>e, BusyEditing DEF RowsTyped
  <2>1. /\ integration' = r /\ races' = races \cup (n \cup m)
        /\ edits' = [edits EXCEPT ![e].at = "saved"]
        /\ UNCHANGED <<tests, links, fetching, verified, settingEdits>>
    BY <1>2 DEF SaveSettings
  <2>2. /\ n \subseteq Races /\ m \subseteq Races
        /\ \A kinds : "lost_update" \in kinds /\ n \cap kinds = {} => l = integration
        /\ \A kinds : "torn_save" \in kinds /\ m \cap kinds = {} => ~ Resets(l, w)
    BY DEF Noted, Races
  <2>3. /\ r \in Rows /\ r.token = l.token /\ IntervalOK(r)
        /\ \A tested : VerdictOK(l, tested) /\ ~ Resets(l, w) => VerdictOK(r, tested)
    BY <2>0, SavedSound
  <2> HIDE DEF l, w, r, n, m
  <2>4. RowsTyped'
    <3>1. \E step \in EditSteps : edits' = [edits EXCEPT ![e].at = step]
      BY <2>1 DEF EditSteps
    <3>2. EditsOK'
      BY <1>e, <2>e, <3>1
    <3> QED BY <1>0, <2>1, <2>2, <2>3, <3>2 DEF RowsTyped
  <2>5. ASSUME Without(VerdictRaces)' PROVE VerdictOK(integration', verified)
    <3>1. Without(VerdictRaces) /\ (n \cup m) \cap VerdictRaces = {}
      BY <2>1, <2>5, RacesStay
    <3>2. l = integration /\ ~ Resets(l, w)
      BY <2>2, <3>1 DEF VerdictRaces
    <3> QED BY <1>0, <2>1, <2>3, <3>1, <3>2
  <2>6. ASSUME Without(LinkRaces)' PROVE LinksOK(integration', links, fetching)
    <3>1. Without(LinkRaces) /\ (n \cup m) \cap LinkRaces = {}
      BY <2>1, <2>6, RacesStay
    <3>2. l = integration
      BY <2>2, <3>1 DEF LinkRaces
    <3> QED BY <1>0, <2>1, <2>3, <3>1, <3>2 DEF LinksOK
  <2> QED BY <2>1, <2>3, <2>4, <2>5, <2>6 DEF SettingIInv
<1>k. ASSUME NEW e \in SettingEditors, StoreToken(e) PROVE SettingIInv'
  <2> DEFINE l == edits[e].loaded
             w == edits[e].wants
             r == [integration EXCEPT !.token = w.token]
             n == Noted("lost_update", integration.token # l.token)
             m == Noted("late_fetch", fetching # {})
  <2>e. edits[e].busy
    BY <1>k DEF StoreToken, EditAt
  <2>0. l \in Rows /\ w \in Rows /\ integration \in Rows
    BY <1>0, <2>e, BusyEditing DEF RowsTyped
  <2>1. /\ edits' = [edits EXCEPT ![e].at = "stored"]
        /\ UNCHANGED <<tests, fetching, verified, settingEdits>>
        /\ IF w.token = l.token THEN UNCHANGED <<integration, links, races>>
           ELSE /\ integration' = r /\ links' = Cleared(l, w)
                /\ races' = races \cup (n \cup m)
    BY <1>k DEF StoreToken
  <2>2. /\ n \subseteq Races /\ m \subseteq Races
        /\ \A kinds : "lost_update" \in kinds /\ n \cap kinds = {} => integration.token = l.token
        /\ \A kinds : "late_fetch" \in kinds /\ m \cap kinds = {} => fetching = {}
    BY DEF Noted, Races
  <2>3. /\ r \in Rows /\ r.token = w.token /\ r.conn = integration.conn /\ r.status = integration.status
        /\ r.scheduled = integration.scheduled /\ r.interval = integration.interval
    BY <2>0 DEF Rows
  <2>4. Cleared(l, w) \in Tokens \cup {NoCredential}
    BY <1>0 DEF Cleared, RowsTyped
  <2>5. EditsOK'
    <3>1. \E step \in EditSteps : edits' = [edits EXCEPT ![e].at = step]
      BY <2>1 DEF EditSteps
    <3> QED BY <1>e, <2>e, <3>1
  <2> HIDE DEF l, w, r, n, m
  <2>6. CASE w.token = l.token
    <3>1. RowsTyped'
      BY <1>0, <2>1, <2>5, <2>6 DEF RowsTyped
    <3> QED BY <1>0, <2>1, <2>6, <3>1 DEF SettingIInv, Without
  <2>7. CASE w.token # l.token
    <3>0. integration' = r /\ links' = Cleared(l, w) /\ races' = races \cup (n \cup m)
      BY <2>1, <2>7
    <3>1. RowsTyped'
      BY <1>0, <2>1, <2>2, <2>3, <2>4, <2>5, <3>0 DEF RowsTyped
    <3>2. ASSUME Without(VerdictRaces)' PROVE VerdictOK(integration', verified)
      <4>1. Without(VerdictRaces)
        BY <3>0, <3>2, RacesStay
      <4> QED BY <1>0, <2>3, <3>0, <4>1 DEF VerdictOK
    <3>3. ASSUME Without(IntervalRaces)' PROVE IntervalOK(integration')
      <4>1. Without(IntervalRaces)
        BY <3>0, <3>3, RacesStay
      <4> QED BY <1>0, <2>3, <3>0, <4>1 DEF IntervalOK
    <3>4. ASSUME Without(LinkRaces)' PROVE LinksOK(integration', links', fetching)
      <4>1. Without(LinkRaces) /\ (n \cup m) \cap LinkRaces = {}
        BY <3>0, <3>4, RacesStay
      <4>2. integration.token = l.token /\ fetching = {}
        BY <2>2, <4>1 DEF LinkRaces
      <4>3. LinksOK(r, Cleared(l, w), {})
        BY <1>0, <2>3, <4>1, <4>2, ClearedSound
      <4> QED BY <3>0, <4>2, <4>3
    <3> QED BY <2>1, <3>1, <3>2, <3>3, <3>4 DEF SettingIInv
  <2> QED BY <2>6, <2>7
<1>v. ASSUME NEW e \in SettingEditors, ResetVerdict(e) PROVE SettingIInv'
  <2> DEFINE l == edits[e].loaded
             w == edits[e].wants
             r == [integration EXCEPT !.status = "", !.scheduled = FALSE]
  <2>1. /\ edits' = [edits EXCEPT ![e] = NoEdit]
        /\ UNCHANGED <<tests, links, fetching, verified, settingEdits>>
        /\ IF Resets(l, w) THEN integration' = r /\ races' = races \ {"torn_save"}
           ELSE UNCHANGED <<integration, races>>
    BY <1>v DEF ResetVerdict
  <2>2. EditsOK'
    BY <1>e, <1>v, <2>1 DEF ResetVerdict, EditAt
  <2>3. r \in Rows /\ r.status = "" /\ ~ r.scheduled /\ r.token = integration.token
    BY <1>0 DEF RowsTyped, Rows
  <2> HIDE DEF l, w, r
  <2>4. CASE ~ Resets(l, w)
    <3>1. RowsTyped'
      BY <1>0, <2>1, <2>2, <2>4 DEF RowsTyped
    <3> QED BY <1>0, <2>1, <2>4, <3>1 DEF SettingIInv, Without
  <2>5. CASE Resets(l, w)
    <3>1. RowsTyped'
      BY <1>0, <2>1, <2>2, <2>3, <2>5 DEF RowsTyped
    <3>2. VerdictOK(r, verified) /\ IntervalOK(r)
      BY <2>3 DEF VerdictOK, IntervalOK
    <3>3. Without(LinkRaces)' => Without(LinkRaces)
      BY <2>1, <2>5 DEF Without, LinkRaces
    <3>4. Without(LinkRaces) => LinksOK(r, links, fetching)
      BY <1>0, <2>3 DEF LinksOK
    <3> QED BY <2>1, <2>5, <3>1, <3>2, <3>3, <3>4 DEF SettingIInv
  <2> QED BY <2>4, <2>5
<1>b. ASSUME NEW e \in SettingEditors, BreakOffEdit(e) PROVE SettingIInv'
  <2>1. /\ edits' = [edits EXCEPT ![e] = NoEdit]
        /\ UNCHANGED <<integration, tests, links, fetching, verified, races, settingEdits>>
    BY <1>b DEF BreakOffEdit
  <2>2. EditsOK'
    BY <1>e, <1>b, <2>1 DEF BreakOffEdit, EditAt
  <2> QED BY <1>0, <2>1, <2>2 DEF SettingIInv, RowsTyped, Without
<1>3. ASSUME NEW t \in Testers, StartTest(t) PROVE SettingIInv'
  <2>1. /\ tests' = [u \in Testers |-> tests'[u]]
        /\ \A u \in Testers : tests'[u].busy => tests'[u].loaded \in Rows
    BY <1>0, <1>3 DEF StartTest, RowsTyped
  <2> QED BY <1>0, <1>c, <1>3, <2>1 DEF StartTest, SettingIInv, RowsTyped, EditsOK, Without
<1>4. ASSUME NEW t \in Testers, TestSucceeds(t) PROVE SettingIInv'
  <2> DEFINE l == tests[t].loaded
             r == [integration EXCEPT !.status = "success", !.scheduled = TRUE,
                                      !.interval = TestedInterval(l)]
  <2>0. l \in Rows /\ integration \in Rows
    BY <1>0, <1>4 DEF TestSucceeds, RowsTyped
  <2>1. /\ integration' = r /\ verified' = verified \cup {l.conn}
        /\ tests' = [tests EXCEPT ![t] = NoEdit]
        /\ races' = IF l.conn = integration.conn THEN races \ {"torn_save"}
                    ELSE races \cup {"foreign_verdict"}
        /\ UNCHANGED <<edits, links, fetching, settingEdits>>
    BY <1>4 DEF TestSucceeds, Judged
  <2>2. TestedInterval(l) \in Intervals
        /\ (l.conn \in Managed => TestedInterval(l) >= MinimumInterval(l.conn))
    <3>1. l.interval \in 1 .. 2
      BY <2>0 DEF Rows, Intervals
    <3>2. MinimumInterval(l.conn) \in 1 .. 2
      BY DEF MinimumInterval
    <3> QED BY <3>1, <3>2 DEF TestedInterval, LargerOf, Intervals
  <2>3. /\ r \in Rows
        /\ r.conn = integration.conn /\ r.token = integration.token
        /\ r.status = "success" /\ r.interval = TestedInterval(l)
    BY <2>0, <2>2 DEF Rows
  <2> HIDE DEF r
  <2>4. RowsTyped'
    BY <1>0, <1>t, <2>0, <2>1, <2>3 DEF RowsTyped, EditsOK, Rows, Races
  <2>5. /\ (Without(VerdictRaces) \/ Without(IntervalRaces))' => l.conn = integration.conn
        /\ Without(LinkRaces)' => Without(LinkRaces)
    BY <2>1 DEF Without, VerdictRaces, IntervalRaces, LinkRaces
  <2>6. l.conn = integration.conn => VerdictOK(r, verified') /\ IntervalOK(r)
    BY <2>1, <2>2, <2>3 DEF VerdictOK, IntervalOK
  <2>7. Without(LinkRaces) => LinksOK(r, links, fetching)
    BY <1>0, <2>3 DEF LinksOK
  <2> QED BY <2>1, <2>4, <2>5, <2>6, <2>7 DEF SettingIInv
<1>5. ASSUME NEW t \in Testers, TestFails(t) PROVE SettingIInv'
  <2> DEFINE l == tests[t].loaded
             s == FailedSchedule(l)
             r == [integration EXCEPT !.status = "failed", !.scheduled = s]
  <2>0. l \in Rows /\ integration \in Rows
    BY <1>0, <1>5 DEF TestFails, RowsTyped
  <2>1. /\ integration' = r /\ verified' = verified \ {l.conn}
        /\ tests' = [tests EXCEPT ![t] = NoEdit]
        /\ races' = IF l.conn = integration.conn THEN races \ {"torn_save"}
                    ELSE races \cup {"foreign_verdict"}
        /\ UNCHANGED <<edits, links, fetching, settingEdits>>
    BY <1>5 DEF TestFails, Judged
  <2>2. s \in BOOLEAN /\ (l.conn \in Managed => ~ s)
    BY DEF FailedSchedule
  <2>3. /\ r \in Rows
        /\ r.conn = integration.conn /\ r.token = integration.token
        /\ r.status = "failed" /\ (r.scheduled <=> s)
    <3> HIDE DEF s
    <3> QED BY <2>0, <2>2 DEF Rows
  <2> HIDE DEF r
  <2>4. RowsTyped'
    BY <1>0, <1>t, <2>0, <2>1, <2>3 DEF RowsTyped, EditsOK, Rows, Races
  <2>5. /\ (Without(VerdictRaces) \/ Without(IntervalRaces))' => l.conn = integration.conn
        /\ Without(LinkRaces)' => Without(LinkRaces)
    BY <2>1 DEF Without, VerdictRaces, IntervalRaces, LinkRaces
  <2>6. l.conn = integration.conn => VerdictOK(r, verified') /\ IntervalOK(r)
    BY <2>2, <2>3 DEF VerdictOK, IntervalOK
  <2>7. Without(LinkRaces) => LinksOK(r, links, fetching)
    BY <1>0, <2>3 DEF LinksOK
  <2> QED BY <2>1, <2>4, <2>5, <2>6, <2>7 DEF SettingIInv
<1>6. CASE StartFetch
  <2>1. integration.token \in Tokens \cup {NoCredential}
    BY <1>0 DEF RowsTyped, Rows
  <2>2. RowsTyped'
    BY <1>0, <1>c, <1>6, <2>1 DEF StartFetch, RowsTyped, EditsOK
  <2> QED BY <1>0, <1>6, <2>2 DEF StartFetch, SettingIInv, LinksOK, Without
<1>7. CASE StoreFetched
  <2>1. PICK k \in fetching : links' = k /\ fetching' = fetching \ {k}
    BY <1>7 DEF StoreFetched
  <2>2. RowsTyped'
    BY <1>0, <1>7, <2>1 DEF StoreFetched, RowsTyped, EditsOK
  <2> QED BY <1>0, <1>7, <2>1, <2>2 DEF StoreFetched, SettingIInv, LinksOK, Without
<1>8. CASE ReconcileCredential
  <2>1. PICK k \in Tokens \ {integration.token} :
          /\ integration' = [integration EXCEPT !.token = k]
          /\ links' = Cleared(integration, [integration EXCEPT !.token = k])
    BY <1>8 DEF ReconcileCredential
  <2>2. /\ CountSettingEdit /\ UNCHANGED <<edits, tests, fetching, verified>>
        /\ races' = races \cup Noted("late_fetch", fetching # {})
    BY <1>8 DEF ReconcileCredential
  <2> DEFINE r == [integration EXCEPT !.token = k]
  <2>3. /\ r \in Rows /\ r.token = k
        /\ r.conn = integration.conn /\ r.status = integration.status
        /\ r.scheduled = integration.scheduled /\ r.interval = integration.interval
    BY <1>0 DEF RowsTyped, Rows
  <2>x. integration' = r /\ links' = Cleared(integration, r)
    BY <2>1
  <2> HIDE DEF r
  <2> DEFINE m == Noted("late_fetch", fetching # {})
  <2>m. /\ m \subseteq Races /\ races' = races \cup m
        /\ \A kinds : "late_fetch" \in kinds /\ m \cap kinds = {} => fetching = {}
    BY <2>2 DEF Noted, Races
  <2> HIDE DEF m
  <2>4. links' \in Tokens \cup {NoCredential} /\ races' \subseteq Races
    BY <1>0, <2>m, <2>x DEF Cleared, RowsTyped
  <2>5. RowsTyped'
    BY <1>0, <1>c, <2>2, <2>3, <2>x, <2>4 DEF RowsTyped, EditsOK
  <2>6. ASSUME Without(VerdictRaces)' PROVE VerdictOK(r, verified)
    <3>1. Without(VerdictRaces)
      BY <2>m, <2>6, RacesStay
    <3> QED BY <1>0, <2>3, <3>1 DEF VerdictOK
  <2>7. ASSUME Without(IntervalRaces)' PROVE IntervalOK(r)
    <3>1. Without(IntervalRaces)
      BY <2>m, <2>7, RacesStay
    <3> QED BY <1>0, <2>3, <3>1 DEF IntervalOK
  <2>8. ASSUME Without(LinkRaces)' PROVE LinksOK(r, links', fetching)
    <3>1. Without(LinkRaces) /\ m \cap LinkRaces = {}
      BY <2>m, <2>8, RacesStay
    <3>2. fetching = {}
      BY <2>m, <3>1 DEF LinkRaces
    <3>3. LinksOK(r, Cleared(integration, r), {})
      BY <1>0, <3>1, <3>2, ClearedSound
    <3> QED BY <2>x, <3>2, <3>3
  <2> QED BY <2>2, <2>5, <2>6, <2>7, <2>8, <2>x DEF SettingIInv
<1>9. CASE UNCHANGED settingVars
  BY <1>0, <1>9 DEF settingVars, SettingIInv, RowsTyped, EditsOK, Without
<1> QED BY <1>1, <1>2, <1>k, <1>v, <1>b, <1>3, <1>4, <1>5, <1>6, <1>7, <1>8, <1>9 DEF SettingNext

LEMMA SettingHolds == SettingIInv => SettingInv
BY BusyEditing DEF SettingIInv, RowsTyped, SettingInv, SettingsTypeOK, VerdictOK, IntervalOK, LinksOK,
       VerdictRaces, IntervalRaces, LinkRaces, Polled, Verified,
       ScheduledWasVerified, PolledWithinLimit, LinksOfCurrentToken

(***************************************************************************)
(* Edits and tests that overlap or break off: what is scheduled was        *)
(* verified and is within the provider's limit, and the links are the      *)
(* stored token's, each but for the races that it names.                   *)
(***************************************************************************)
THEOREM SettingCorrect == SettingSpec => []SettingInv
<1>1. SettingIInv /\ [SettingNext]_settingVars => SettingIInv'
  BY SettingStep
<1> QED BY <1>1, InitSetting, SettingHolds, PTL DEF SettingSpec
-----------------------------------------------------------------------------
(***************************************************************************)
(* AccessControl: the rows of accounts, and what one PATCH makes of one.   *)
(***************************************************************************)
AccountRows ==
  [exists : BOOLEAN, active : BOOLEAN, super : BOOLEAN,
   role : RoleSlugs \cup {NoRole}, type : AccountTypes,
   overrides : [Codes -> {"none", "allow", "deny"}], creator : People \cup {NoAccount}]
RoleRows ==
  [exists : BOOLEAN, active : BOOLEAN, codes : SUBSET Codes, owner : People \cup {NoAccount}]

Clean(row) == row.type = "external" => \A c \in Forbidden : row.overrides[c] # "allow"
Admissible(patch, loaded) ==
  "allow" \in DOMAIN patch /\ loaded.type = "external" => patch.allow \cap Forbidden = {}

PatchOK(r) ==
  patches[r].busy =>
    /\ patches[r].target \in Staff /\ patches[r].patch \in Patches
    /\ Admissible(patches[r].patch, patches[r].loaded)

AccountsOK ==
  /\ accounts \in [People -> AccountRows] /\ roles \in [RoleSlugs -> RoleRows]
  /\ \A p \in People : ~ accounts[p].exists => accounts[p] = Vacant
  /\ \A p \in People : accounts[p].creator # NoAccount => accounts[accounts[p].creator].exists
  /\ \A q \in People : ~ crossed => Clean(accounts[q])

AccessIInv ==
  /\ AccountsOK
  /\ functions \subseteq Codes /\ crossed \in BOOLEAN /\ accountEdits \in 0 .. MaxAccountEdits
  /\ roleCheck.role \in RoleSlugs \cup {NoRole} /\ roleCheck.holders = {}
  /\ patches = [r \in AccessRequests |-> patches[r]]
  /\ \A r \in AccessRequests : PatchOK(r)

LEMMA VacantRow == Vacant \in AccountRows /\ Clean(Vacant) /\ Vacant.creator = NoAccount /\ ~ Vacant.exists
<1>1. NoOverrides \in [Codes -> {"none", "allow", "deny"}]
  BY DEF NoOverrides
<1> DEFINE n == NoOverrides
<1> HIDE DEF n
<1>2. Vacant = [exists |-> FALSE, active |-> FALSE, super |-> FALSE, role |-> NoRole,
                type |-> "employee", overrides |-> n, creator |-> NoAccount]
  BY DEF Vacant, n
<1>3. n \in [Codes -> {"none", "allow", "deny"}]
  BY <1>1 DEF n
<1> QED BY <1>2, <1>3 DEF AccountRows, Clean, AccountTypes

LEMMA OverridesRow ==
  ASSUME NEW allow, NEW deny
  PROVE  /\ Overrides(allow, deny) \in [Codes -> {"none", "allow", "deny"}]
         /\ \A c \in Codes : Overrides(allow, deny)[c] = "allow" => c \in allow
BY DEF Overrides

\* A PATCH names one field, or both lists of overrides.
LEMMA PatchKinds ==
  ASSUME NEW patch \in Patches
  PROVE  \/ /\ DOMAIN patch = {"type"} /\ patch.type \in AccountTypes
         \/ /\ DOMAIN patch = {"role"} /\ patch.role \in RoleSlugs
         \/ /\ DOMAIN patch = {"allow", "deny"}
<1>1. CASE \E t \in AccountTypes : patch = [type |-> t]
  BY <1>1
<1>2. CASE \E s \in {"employee", "admin", "custom"} : patch = [role |-> s]
  BY <1>2 DEF RoleSlugs
<1>3. CASE \E a \in PassedOn, d \in {{}, {"plain"}} : patch = [allow |-> a, deny |-> d]
  BY <1>3
<1> QED BY <1>1, <1>2, <1>3 DEF Patches

LEMMA ForcedIn ==
  ASSUME NEW t, NEW s \in RoleSlugs \cup {NoRole}
  PROVE  ForcedRole(t, s) \in RoleSlugs \cup {NoRole}
BY DEF ForcedRole, RoleSlugs

LEMMA StrippedRow ==
  ASSUME NEW row \in AccountRows
  PROVE  /\ Stripped(row) \in AccountRows /\ Clean(Stripped(row))
         /\ Stripped(row).exists = row.exists /\ Stripped(row).creator = row.creator
         /\ Stripped(row).type = row.type
<1>1. CASE row.type # "external"
  BY <1>1 DEF Stripped, Clean
<1>2. CASE row.type = "external"
  <2> DEFINE o == [c \in Codes |-> IF c \in Forbidden THEN "none" ELSE row.overrides[c]]
  <2>1. o \in [Codes -> {"none", "allow", "deny"}] /\ \A c \in Forbidden : o[c] # "allow"
    BY DEF AccountRows, Forbidden
  <2>2. Stripped(row) = [row EXCEPT !.overrides = o]
    BY <1>2 DEF Stripped
  <2> HIDE DEF o
  <2>3. [row EXCEPT !.overrides = o] \in AccountRows
    BY <2>1 DEF AccountRows
  <2>4. /\ [row EXCEPT !.overrides = o].overrides = o
        /\ [row EXCEPT !.overrides = o].exists = row.exists
        /\ [row EXCEPT !.overrides = o].creator = row.creator
        /\ [row EXCEPT !.overrides = o].type = row.type
    BY DEF AccountRows
  <2> QED BY <2>1, <2>2, <2>3, <2>4 DEF Clean
<1> QED BY <1>1, <1>2

LEMMA UpdatedRow ==
  ASSUME NEW row \in AccountRows, NEW patch \in Patches, NEW loaded
  PROVE  /\ Updated(row, patch, loaded) \in AccountRows
         /\ Updated(row, patch, loaded).exists = row.exists
         /\ Updated(row, patch, loaded).creator = row.creator
         /\ loaded = row /\ Admissible(patch, loaded) => Clean(Updated(row, patch, loaded))
<1> DEFINE type == IF "type" \in DOMAIN patch THEN patch.type ELSE loaded.type
           typed == IF "type" \in DOMAIN patch THEN [row EXCEPT !.type = patch.type] ELSE row
           wanted == IF "role" \in DOMAIN patch THEN patch.role ELSE row.role
           r == ForcedRole(type, wanted)
           placed == [typed EXCEPT !.role = r]
           kept == Stripped(placed)
           o == Overrides(patch.allow, patch.deny)
           last == [kept EXCEPT !.overrides = o]
<1>1. Updated(row, patch, loaded) = IF "allow" \in DOMAIN patch THEN last ELSE kept
  BY DEF Updated
<1>2. "type" \in DOMAIN patch => patch.type \in AccountTypes /\ "allow" \notin DOMAIN patch
  BY PatchKinds
<1>3. wanted \in RoleSlugs \cup {NoRole}
  BY PatchKinds DEF AccountRows
<1>4. r \in RoleSlugs \cup {NoRole}
  <2> HIDE DEF type, wanted
  <2> QED BY <1>3, ForcedIn
<1>5. /\ typed \in AccountRows /\ typed.exists = row.exists /\ typed.creator = row.creator
      /\ "allow" \in DOMAIN patch => typed.type = row.type
  <2> DEFINE t == patch.type
  <2> HIDE DEF t
  <2>1. CASE "type" \in DOMAIN patch
    <3>1. typed = [row EXCEPT !.type = t] /\ t \in AccountTypes
      BY <1>2, <2>1 DEF t
    <3> HIDE DEF typed
    <3> QED BY <1>2, <2>1, <3>1 DEF AccountRows
  <2>2. CASE "type" \notin DOMAIN patch
    BY <2>2
  <2> QED BY <2>1, <2>2
<1> HIDE DEF r, typed
<1>6. /\ placed \in AccountRows /\ placed.exists = row.exists /\ placed.creator = row.creator
      /\ "allow" \in DOMAIN patch => placed.type = row.type
  BY <1>4, <1>5 DEF AccountRows
<1> HIDE DEF placed
<1>7. /\ kept \in AccountRows /\ kept.exists = row.exists /\ kept.creator = row.creator /\ Clean(kept)
      /\ "allow" \in DOMAIN patch => kept.type = row.type
  BY <1>6, StrippedRow
<1> HIDE DEF kept
<1>8. /\ o \in [Codes -> {"none", "allow", "deny"}]
      /\ \A c \in Codes : o[c] = "allow" => c \in patch.allow
  BY OverridesRow
<1> HIDE DEF o
<1>9. /\ last \in AccountRows /\ last.exists = row.exists /\ last.creator = row.creator
      /\ last.overrides = o
      /\ "allow" \in DOMAIN patch => last.type = row.type
  BY <1>7, <1>8 DEF AccountRows
<1>10. ASSUME "allow" \in DOMAIN patch, loaded = row, Admissible(patch, loaded) PROVE Clean(last)
  <2>1. last.type = "external" => patch.allow \cap Forbidden = {}
    BY <1>9, <1>10 DEF Admissible
  <2>2. Forbidden \subseteq Codes
    BY DEF Forbidden
  <2> QED BY <1>8, <1>9, <2>1, <2>2 DEF Clean
<1> HIDE DEF last
<1> QED BY <1>1, <1>7, <1>9, <1>10

(***************************************************************************)
(* The overrides one after the other, and all at once.                     *)
(***************************************************************************)
LEMMA ShownHolds == AccessIInv => ShownIsEnforced
<1> SUFFICES ASSUME AccessIInv, NEW q \in People PROVE Serialized(accounts[q]) = Effective(accounts[q])
  BY DEF ShownIsEnforced
<1> DEFINE x == accounts[q]
<1>1. /\ x \in AccountRows /\ functions \subseteq Codes /\ roles \in [RoleSlugs -> RoleRows]
  BY DEF AccessIInv, AccountsOK
<1> HIDE DEF x
<1>2. /\ \A c \in functions : x.overrides[c] \in {"none", "allow", "deny"}
      /\ x.active \in BOOLEAN /\ x.super \in BOOLEAN
  BY <1>1 DEF AccountRows
<1>3. \A c \in functions : c \in RoleCodes(x.role) <=>
        x.role # NoRole /\ roles[x.role].active /\ c \in roles[x.role].codes
  BY <1>1 DEF RoleCodes, RoleRows, AccountRows
<1>4. RoleCodes(x.role) \subseteq functions
  BY DEF RoleCodes
<1>5. \A c : c \in Overriding(x, "allow") <=> c \in functions /\ x.overrides[c] = "allow"
  BY DEF Overriding
<1>6. \A c : c \in Overriding(x, "deny") <=> c \in functions /\ x.overrides[c] = "deny"
  BY DEF Overriding
<1>7. \A c : c \in Serialized(x) <=>
        /\ c \in functions /\ x.active
        /\ \/ x.super
           \/ /\ \/ x.overrides[c] = "allow"
                 \/ x.overrides[c] = "none" /\ x.role # NoRole
                    /\ roles[x.role].active /\ c \in roles[x.role].codes
              /\ x.type # "external" \/ c \notin Forbidden
  BY Zenon DEF Serialized
<1>8. \A c : c \in Effective(x) <=>
        /\ x.active
        /\ \/ x.super /\ c \in functions
           \/ /\ ~ x.super
              /\ c \in RoleCodes(x.role) \/ c \in Overriding(x, "allow")
              /\ c \notin Overriding(x, "deny")
              /\ ~ (x.type = "external" /\ c \in Forbidden)
  BY <1>2 DEF Effective
<1>9. ASSUME NEW c PROVE c \in Serialized(x) <=> c \in Effective(x)
  <2>1. CASE c \in functions
    <3>1. x.overrides[c] \in {"none", "allow", "deny"}
      BY <1>2, <2>1
    <3> QED BY <1>2, <1>3, <1>5, <1>6, <1>7, <1>8, <2>1, <3>1
  <2>2. CASE c \notin functions
    BY <1>4, <1>5, <1>7, <1>8, <2>2, Zenon
  <2> QED BY <2>1, <2>2
<1> QED BY <1>9, Zenon DEF x

LEMMA AccessHolds ==
  AccessIInv => AccessTypeOK /\ ShownIsEnforced /\ ExternalAllowsNothingForbidden
<1> SUFFICES ASSUME AccessIInv PROVE AccessTypeOK /\ ExternalAllowsNothingForbidden
  BY ShownHolds
<1>1. AccessTypeOK
  BY DEF AccessIInv, AccountsOK, AccessTypeOK, AccountRows, RoleRows
<1>2. ExternalAllowsNothingForbidden
  BY DEF AccessIInv, AccountsOK, Clean, ExternalAllowsNothingForbidden
<1> QED BY <1>1, <1>2

LEMMA InitAccess == AccessInit => AccessIInv
<1> SUFFICES ASSUME AccessInit PROVE AccessIInv
  OBVIOUS
<1>0. Owner \notin Staff /\ NoAccount \notin People /\ Owner \in People /\ MaxAccountEdits \in Nat
  BY AccessControlAssumption DEF People
<1>1. PICK manager \in Staff, part \in {"admin", "custom"} :
        accounts = [q \in People |->
          CASE q = Owner -> [Vacant EXCEPT !.exists = TRUE, !.active = TRUE, !.super = TRUE]
            [] q = manager -> [Vacant EXCEPT !.exists = TRUE, !.active = TRUE, !.role = part, !.creator = Owner]
            [] OTHER -> Vacant]
  BY DEF AccessInit
<1> DEFINE top == [Vacant EXCEPT !.exists = TRUE, !.active = TRUE, !.super = TRUE]
           second == [Vacant EXCEPT !.exists = TRUE, !.active = TRUE, !.role = part, !.creator = Owner]
<1>2. /\ top \in AccountRows /\ Clean(top) /\ top.creator = NoAccount /\ top.exists
      /\ second \in AccountRows /\ Clean(second) /\ second.creator = Owner /\ second.exists
  <2> DEFINE v == Vacant
  <2>1. v \in AccountRows /\ Clean(v) /\ v.creator = NoAccount /\ v.type = "employee"
    BY VacantRow DEF Vacant
  <2> HIDE DEF v
  <2>2. part \in RoleSlugs
    BY <1>1 DEF RoleSlugs
  <2>3. /\ top = [v EXCEPT !.exists = TRUE, !.active = TRUE, !.super = TRUE]
        /\ second = [v EXCEPT !.exists = TRUE, !.active = TRUE, !.role = part, !.creator = Owner]
    BY DEF v
  <2> HIDE DEF top, second
  <2> QED BY <1>0, <2>1, <2>2, <2>3 DEF AccountRows, Clean
<1>3. \A q \in People : \/ q = Owner /\ accounts[q] = top
                        \/ q = manager /\ accounts[q] = second
                        \/ accounts[q] = Vacant
  BY <1>0, <1>1
<1>4. accounts = [q \in People |-> accounts[q]] /\ accounts[Owner] = top
  BY <1>0, <1>1
<1> HIDE DEF top, second
<1>5. accounts \in [People -> AccountRows]
  <2>1. \A q \in People : accounts[q] \in AccountRows
    BY <1>2, <1>3, VacantRow
  <2> QED BY <1>4, <2>1
<1>6. roles \in [RoleSlugs -> RoleRows]
  <2>1. PICK custom \in {{"users", "roles", "plain"}, {"users", "suppliers"}} :
          roles = [s \in RoleSlugs |->
            CASE s = "employee" -> Role({"plain"})
              [] s = "admin" -> Role({"users", "respondents", "plain"})
              [] s = "external-vendor" -> Role({"plain"})
              [] OTHER -> [Role(custom) EXCEPT !.owner = Owner]]
    BY DEF AccessInit
  <2>2. custom \in SUBSET Codes
    BY <2>1 DEF Codes
  <2>3. ASSUME NEW S \in SUBSET Codes
        PROVE  Role(S) \in RoleRows /\ [Role(S) EXCEPT !.owner = Owner] \in RoleRows
    BY <1>0 DEF Role, RoleRows
  <2>4. {"plain"} \in SUBSET Codes /\ {"users", "respondents", "plain"} \in SUBSET Codes
    BY DEF Codes
  <2>5. /\ Role({"plain"}) \in RoleRows /\ Role({"users", "respondents", "plain"}) \in RoleRows
        /\ [Role(custom) EXCEPT !.owner = Owner] \in RoleRows
    BY <2>2, <2>3, <2>4
  <2> DEFINE o == [Role(custom) EXCEPT !.owner = Owner]
             p == Role({"plain"})
             u == Role({"users", "respondents", "plain"})
  <2> HIDE DEF o, p, u
  <2>6. roles = [s \in RoleSlugs |->
            CASE s = "employee" -> p [] s = "admin" -> u [] s = "external-vendor" -> p [] OTHER -> o]
    BY <2>1 DEF o, p, u
  <2>7. o \in RoleRows /\ p \in RoleRows /\ u \in RoleRows
    BY <2>5 DEF o, p, u
  <2> QED BY <2>6, <2>7
<1>7. /\ \A p \in People : ~ accounts[p].exists => accounts[p] = Vacant
      /\ \A p \in People : accounts[p].creator # NoAccount => accounts[accounts[p].creator].exists
      /\ \A q \in People : Clean(accounts[q])
  BY <1>2, <1>3, <1>4, VacantRow
<1>8. /\ functions \subseteq Codes /\ crossed = FALSE /\ accountEdits \in 0 .. MaxAccountEdits
      /\ roleCheck.role \in RoleSlugs \cup {NoRole} /\ roleCheck.holders = {}
      /\ patches = [r \in AccessRequests |-> NoPatch]
  BY <1>0 DEF AccessInit, NoCheck
<1>9. /\ patches = [r \in AccessRequests |-> patches[r]]
      /\ \A r \in AccessRequests : PatchOK(r)
  <2>1. \A r \in AccessRequests : ~ patches[r].busy
    BY <1>8 DEF NoPatch
  <2> QED BY <1>8, <2>1 DEF PatchOK
<1> QED BY <1>5, <1>6, <1>7, <1>8, <1>9 DEF AccessIInv, AccountsOK

(***************************************************************************)
(* One row changes and keeps its creator, and nobody disappears.           *)
(***************************************************************************)
LEMMA OneAccount ==
  ASSUME AccountsOK, NEW q \in People, NEW row \in AccountRows,
         accounts' = [accounts EXCEPT ![q] = row], row.exists, roles' = roles,
         row.creator # NoAccount => row.creator = accounts[q].creator \/ accounts[row.creator].exists,
         ~ crossed' => ~ crossed /\ Clean(row)
  PROVE  AccountsOK'
<1>1. /\ accounts' \in [People -> AccountRows]
      /\ \A p \in People : accounts'[p] = IF p = q THEN row ELSE accounts[p]
  BY DEF AccountsOK
<1>2. \A p \in People : ~ accounts'[p].exists => accounts'[p] = Vacant
  BY <1>1 DEF AccountsOK
<1>3. ASSUME NEW p \in People, accounts'[p].creator # NoAccount
      PROVE  accounts'[accounts'[p].creator].exists
  <2>1. /\ accounts'[p].creator \in People /\ accounts[accounts'[p].creator].exists
    <3>1. CASE p # q
      BY <1>1, <1>3, <3>1 DEF AccountsOK, AccountRows
    <3>2. CASE p = q
      BY <1>1, <1>3, <3>2 DEF AccountsOK, AccountRows
    <3> QED BY <3>1, <3>2
  <2> QED BY <1>1, <2>1
<1>4. \A p \in People : ~ crossed' => Clean(accounts'[p])
  BY <1>1 DEF AccountsOK
<1>5. roles' \in [RoleSlugs -> RoleRows]
  BY DEF AccountsOK
<1> QED BY <1>1, <1>2, <1>3, <1>4, <1>5, Zenon DEF AccountsOK, Clean

LEMMA CreateStep ==
  ASSUME AccountsOK, NEW p \in People, NEW q \in Staff, NEW t \in AccountTypes,
         NEW s \in {"employee", "custom"}, NEW a \in PassedOn, CreateUser(p, q, t, s, a, {})
  PROVE  AccountsOK'
<1> DEFINE o == Overrides(a, {})
           f == ForcedRole(t, s)
           row == [exists |-> TRUE, active |-> TRUE, super |-> FALSE, role |-> f,
                   type |-> t, overrides |-> o, creator |-> p]
<1>1. /\ accounts' = [accounts EXCEPT ![q] = row] /\ TypeAllowed(p, t, a) /\ May(p, IF accounts[p].type = "employee" THEN "users" ELSE "respondents")
      /\ UNCHANGED <<roles, crossed>>
  BY DEF CreateUser
<1>2. /\ o \in [Codes -> {"none", "allow", "deny"}]
      /\ \A c \in Codes : o[c] = "allow" => c \in a
  BY OverridesRow
<1>3. f \in RoleSlugs \cup {NoRole}
  BY ForcedIn DEF RoleSlugs
<1>4. accounts[p].exists /\ (t = "external" => a \cap Forbidden = {})
  BY <1>1 DEF May, TypeAllowed
<1> HIDE DEF o, f
<1>5. row \in AccountRows /\ row.exists /\ row.creator = p /\ row.overrides = o /\ row.type = t
  BY <1>2, <1>3 DEF AccountRows
<1>6. Clean(row)
  <2>1. Forbidden \subseteq Codes
    BY DEF Forbidden
  <2> QED BY <1>2, <1>4, <1>5, <2>1 DEF Clean
<1> HIDE DEF row
<1>7. q \in People
  BY DEF People
<1> QED BY <1>1, <1>4, <1>5, <1>6, <1>7, OneAccount

LEMMA SaveStep ==
  ASSUME AccountsOK, NEW r \in AccessRequests, PatchOK(r), SavePatch(r)
  PROVE  AccountsOK' /\ crossed' \in BOOLEAN
<1> DEFINE q == patches[r].target
           patch == patches[r].patch
           loaded == patches[r].loaded
           row == Updated(accounts[q], patch, loaded)
<1>1. /\ q \in Staff /\ patch \in Patches /\ Admissible(patch, loaded)
      /\ accounts' = IF ~ accounts[q].exists THEN accounts
                     ELSE [accounts EXCEPT ![q] = Updated(@, patch, loaded)]
      /\ crossed' = (crossed \/ accounts[q] # loaded) /\ UNCHANGED roles
  BY DEF SavePatch, PatchOK
<1> HIDE DEF q, patch, loaded
<1>2. q \in People /\ accounts[q] \in AccountRows
  BY <1>1 DEF People, AccountsOK
<1>3. /\ row \in AccountRows /\ row.exists = accounts[q].exists /\ row.creator = accounts[q].creator
      /\ loaded = accounts[q] => Clean(row)
  BY <1>1, <1>2, UpdatedRow
<1>4. ~ crossed' => ~ crossed /\ loaded = accounts[q]
  BY <1>1
<1>5. CASE ~ accounts[q].exists
  <2>1. accounts' = accounts /\ roles' = roles
    BY <1>1, <1>5
  <2> QED BY <1>1, <1>4, <2>1 DEF AccountsOK, Clean
<1>6. CASE accounts[q].exists
  <2>1. accounts' = [accounts EXCEPT ![q] = row]
    BY <1>1, <1>6
  <2> HIDE DEF row
  <2>2. AccountsOK'
    BY <1>1, <1>2, <1>3, <1>4, <1>6, <2>1, OneAccount
  <2> QED BY <1>1, <2>2
<1> QED BY <1>5, <1>6

LEMMA DeleteUserStep ==
  ASSUME AccountsOK, NEW p \in People, NEW q \in Staff, DeleteUser(p, q)
  PROVE  AccountsOK'
<1> DEFINE Orphan(u) == [accounts[u] EXCEPT !.creator = NoAccount]
<1>1. accounts' = Removed(q) /\ UNCHANGED crossed
  BY DEF DeleteUser
<1>2. /\ accounts' = [u \in People |-> accounts'[u]]
      /\ \A u \in People : \/ u = q /\ accounts'[u] = Vacant
                           \/ u # q /\ accounts[u].creator = q /\ accounts'[u] = Orphan(u)
                           \/ u # q /\ accounts[u].creator # q /\ accounts'[u] = accounts[u]
  BY <1>1, Zenon DEF Removed
<1>3. ASSUME NEW u \in People
      PROVE  /\ accounts[u] \in AccountRows /\ Orphan(u) \in AccountRows
             /\ Orphan(u).creator = NoAccount /\ Orphan(u).exists = accounts[u].exists
             /\ Orphan(u).type = accounts[u].type /\ Orphan(u).overrides = accounts[u].overrides
             /\ accounts[u].creator # NoAccount => accounts[u].creator \in People
  BY DEF AccountsOK, AccountRows
<1> HIDE DEF Orphan
<1>4. \A u \in People : /\ accounts'[u] \in AccountRows
                        /\ accounts'[u].creator \in {NoAccount, accounts[u].creator}
                        /\ accounts'[u].creator # q \/ q = NoAccount
                        /\ u # q => accounts'[u].exists = accounts[u].exists
  BY <1>2, <1>3, VacantRow
<1>5. q # NoAccount /\ NoAccount \notin People /\ q \in People
  BY AccessControlAssumption DEF People
<1>6. accounts' \in [People -> AccountRows]
  BY <1>2, <1>4
<1>7. ASSUME NEW u \in People PROVE ~ accounts'[u].exists => accounts'[u] = Vacant
  <2>1. CASE u = q
    BY <1>2, <2>1
  <2>2. CASE u # q
    <3>1. ~ accounts[u].exists => accounts[u] = Vacant /\ accounts[u].creator = NoAccount
      BY VacantRow DEF AccountsOK
    <3> QED BY <1>2, <1>4, <1>5, <2>2, <3>1
  <2> QED BY <2>1, <2>2
<1>8. ASSUME NEW u \in People, accounts'[u].creator # NoAccount
      PROVE  accounts'[accounts'[u].creator].exists
  <2> DEFINE c == accounts[u].creator
  <2>1. accounts'[u].creator = c /\ c \in People /\ c # q /\ accounts[c].exists
    BY <1>3, <1>4, <1>5, <1>8 DEF AccountsOK
  <2> HIDE DEF c
  <2> QED BY <1>4, <2>1
<1>9. ASSUME NEW u \in People, ~ crossed' PROVE Clean(accounts'[u])
  <2>1. Clean(accounts[u]) /\ Clean(Vacant)
    BY <1>1, <1>9, VacantRow DEF AccountsOK
  <2> QED BY <1>2, <1>3, <2>1 DEF Clean
<1>10. roles' \in [RoleSlugs -> RoleRows]
  <2>1. roles' = [s \in RoleSlugs |-> IF roles[s].owner = q THEN [roles[s] EXCEPT !.owner = NoAccount] ELSE roles[s]]
    BY DEF DeleteUser
  <2>2. ASSUME NEW s \in RoleSlugs
        PROVE  roles[s] \in RoleRows /\ [roles[s] EXCEPT !.owner = NoAccount] \in RoleRows
    BY DEF AccountsOK, RoleRows
  <2> QED BY <2>1, <2>2
<1> QED BY <1>6, <1>7, <1>8, <1>9, <1>10, Zenon DEF AccountsOK, Clean

LEMMA DeleteRoleStep ==
  ASSUME AccountsOK, DeleteRole
  PROVE  AccountsOK'
<1> DEFINE Bare(u) == [accounts[u] EXCEPT !.role = NoRole]
           gone == [exists |-> FALSE, active |-> FALSE, codes |-> {}, owner |-> NoAccount]
<1>1. /\ accounts' = [q \in People |-> IF accounts[q].role = roleCheck.role THEN Bare(q) ELSE accounts[q]]
      /\ roles' = [roles EXCEPT ![roleCheck.role] = gone] /\ UNCHANGED crossed
  BY DEF DeleteRole
<1>2. ASSUME NEW u \in People
      PROVE  /\ accounts[u] \in AccountRows /\ Bare(u) \in AccountRows
             /\ Bare(u).creator = accounts[u].creator /\ Bare(u).exists = accounts[u].exists
             /\ Bare(u).type = accounts[u].type /\ Bare(u).overrides = accounts[u].overrides
             /\ accounts[u].role = NoRole => Bare(u) = accounts[u]
             /\ accounts[u].creator # NoAccount => accounts[u].creator \in People
  BY DEF AccountsOK, AccountRows
<1> HIDE DEF Bare
<1>3. \A u \in People : \/ accounts'[u] = accounts[u]
                        \/ accounts'[u] = Bare(u) /\ accounts[u].role = roleCheck.role
  BY <1>1
<1>4. \A u \in People : /\ accounts'[u] \in AccountRows
                        /\ accounts'[u].creator = accounts[u].creator
                        /\ accounts'[u].exists = accounts[u].exists
  BY <1>2, <1>3
<1>5. accounts' \in [People -> AccountRows]
  BY <1>1, <1>2
<1>6. ASSUME NEW u \in People PROVE ~ accounts'[u].exists => accounts'[u] = Vacant
  <2>1. ~ accounts[u].exists => accounts[u] = Vacant /\ accounts[u].role = NoRole
    BY DEF AccountsOK, Vacant
  <2> QED BY <1>2, <1>3, <1>4, <2>1
<1>7. ASSUME NEW u \in People, accounts'[u].creator # NoAccount
      PROVE  accounts'[accounts'[u].creator].exists
  <2> DEFINE c == accounts[u].creator
  <2>1. accounts'[u].creator = c /\ c \in People /\ accounts[c].exists
    BY <1>2, <1>4, <1>7 DEF AccountsOK
  <2> HIDE DEF c
  <2> QED BY <1>4, <2>1
<1>8. ASSUME NEW u \in People, ~ crossed' PROVE Clean(accounts'[u])
  <2>1. Clean(accounts[u])
    BY <1>1, <1>8 DEF AccountsOK
  <2> QED BY <1>2, <1>3, <2>1 DEF Clean
<1>9. roles' \in [RoleSlugs -> RoleRows]
  <2>1. gone \in RoleRows
    BY DEF RoleRows
  <2> HIDE DEF gone
  <2> QED BY <1>1, <2>1 DEF AccountsOK
<1> QED BY <1>5, <1>6, <1>7, <1>8, <1>9, Zenon DEF AccountsOK, Clean

LEMMA AccountsUntouched ==
  ASSUME AccountsOK, UNCHANGED <<accounts, crossed>>, roles' \in [RoleSlugs -> RoleRows]
  PROVE  AccountsOK'
BY DEF AccountsOK, Clean

LEMMA RolesEdited ==
  ASSUME AccountsOK, NEW p \in People, NEW codes \in PassedOn, NEW b \in BOOLEAN,
         CreateRole(p, codes) \/ UpdateRole(p, "custom", codes, b)
  PROVE  roles' \in [RoleSlugs -> RoleRows]
<1>1. codes \in SUBSET Codes /\ p \in People \cup {NoAccount} /\ "custom" \in RoleSlugs
  BY DEF PassedOn, Codes, RoleSlugs
<1>2. CASE CreateRole(p, codes)
  <2> DEFINE row == [exists |-> TRUE, active |-> TRUE, codes |-> codes, owner |-> p]
  <2>1. row \in RoleRows /\ roles' = [roles EXCEPT !["custom"] = row]
    BY <1>1, <1>2 DEF RoleRows, CreateRole
  <2> HIDE DEF row
  <2> QED BY <1>1, <2>1 DEF AccountsOK
<1>3. CASE UpdateRole(p, "custom", codes, b)
  <2> DEFINE row == [roles["custom"] EXCEPT !.codes = codes, !.active = b]
  <2>1. roles' = [roles EXCEPT !["custom"] = row]
    BY <1>3 DEF UpdateRole
  <2>2. roles["custom"] \in RoleRows /\ roles \in [RoleSlugs -> RoleRows]
    BY <1>1 DEF AccountsOK
  <2>3. row \in RoleRows
    BY <1>1, <2>2 DEF RoleRows
  <2> HIDE DEF row
  <2> QED BY <2>1, <2>2, <2>3
<1> QED BY <1>2, <1>3

LEMMA ValidateStep ==
  ASSUME AccessIInv, NEW r \in AccessRequests, NEW p \in People, NEW q \in Staff, NEW patch \in Patches,
         ValidatePatch(r, p, q, patch)
  PROVE  /\ patches' = [s \in AccessRequests |-> patches'[s]]
         /\ \A s \in AccessRequests : PatchOK(s)'
<1> DEFINE new == [busy |-> TRUE, target |-> q, patch |-> patch, loaded |-> accounts[q]]
<1>1. patches' = [patches EXCEPT ![r] = new] /\ patches = [s \in AccessRequests |-> patches[s]]
  BY DEF ValidatePatch, AccessIInv
<1>2. Admissible(patch, accounts[q])
  <2>1. "allow" \in DOMAIN patch => "type" \notin DOMAIN patch
    BY PatchKinds
  <2>2. "allow" \in DOMAIN patch => TypeAllowed(p, accounts[q].type, patch.allow)
    BY <2>1 DEF ValidatePatch
  <2> QED BY <2>2 DEF TypeAllowed, Admissible
<1>3. new.target = q /\ new.patch = patch /\ new.loaded = accounts[q]
  OBVIOUS
<1> HIDE DEF new
<1>4. \A s \in AccessRequests : patches'[s] = IF s = r THEN new ELSE patches[s]
  BY <1>1
<1>5. ASSUME NEW s \in AccessRequests PROVE PatchOK(s)'
  <2>1. CASE s = r
    BY <1>2, <1>3, <1>4, <2>1 DEF PatchOK
  <2>2. CASE s # r
    <3>1. patches'[s] = patches[s] /\ PatchOK(s)
      BY <1>4, <2>2 DEF AccessIInv
    <3> QED BY <3>1, Zenon DEF PatchOK
  <2> QED BY <2>1, <2>2
<1>6. patches' = [s \in AccessRequests |-> patches'[s]]
  BY <1>1
<1> QED BY <1>5, <1>6

LEMMA AccessStep == AccessIInv /\ [AccessNext]_accessVars => AccessIInv'
<1> SUFFICES ASSUME AccessIInv, [AccessNext]_accessVars PROVE AccessIInv'
  OBVIOUS
<1>0. /\ AccountsOK /\ crossed \in BOOLEAN /\ MaxAccountEdits \in Nat
      /\ accountEdits \in 0 .. MaxAccountEdits /\ functions \subseteq Codes
      /\ roles \in [RoleSlugs -> RoleRows]
      /\ patches = [r \in AccessRequests |-> patches[r]]
      /\ \A r \in AccessRequests : PatchOK(r)
      /\ roleCheck.role \in RoleSlugs \cup {NoRole} /\ roleCheck.holders = {}
  BY AccessControlAssumption DEF AccessIInv, AccountsOK
<1>1. Count => accountEdits' \in 0 .. MaxAccountEdits
  BY <1>0 DEF Count
<1>2. ASSUME UNCHANGED patches
      PROVE  /\ patches' = [r \in AccessRequests |-> patches'[r]]
             /\ \A r \in AccessRequests : PatchOK(r)'
  BY <1>0, <1>2, Zenon DEF PatchOK
<1>3. CASE \E p \in People, q \in Staff : \E t \in AccountTypes, s \in {"employee", "custom"}, a \in PassedOn :
             CreateUser(p, q, t, s, a, {})
  <2>1. PICK p \in People, q \in Staff, t \in AccountTypes, s \in {"employee", "custom"}, a \in PassedOn :
          CreateUser(p, q, t, s, a, {})
    BY <1>3
  <2>2. AccountsOK'
    BY <1>0, <2>1, CreateStep
  <2>3. UNCHANGED <<functions, patches, roleCheck, crossed>> /\ Count
    BY <2>1 DEF CreateUser
  <2> QED BY <1>0, <1>1, <1>2, <2>2, <2>3 DEF AccessIInv
<1>4. CASE \E r \in AccessRequests, p \in People, q \in Staff, patch \in Patches : ValidatePatch(r, p, q, patch)
  <2>1. PICK r \in AccessRequests, p \in People, q \in Staff, patch \in Patches : ValidatePatch(r, p, q, patch)
    BY <1>4
  <2>2. UNCHANGED <<accounts, roles, functions, roleCheck, crossed>> /\ Count
    BY <2>1 DEF ValidatePatch
  <2>3. AccountsOK'
    BY <1>0, <2>2, AccountsUntouched
  <2>4. /\ patches' = [s \in AccessRequests |-> patches'[s]]
        /\ \A s \in AccessRequests : PatchOK(s)'
    BY <2>1, ValidateStep
  <2> QED BY <1>0, <1>1, <2>2, <2>3, <2>4 DEF AccessIInv
<1>5. CASE \E r \in AccessRequests : SavePatch(r)
  <2>1. PICK r \in AccessRequests : SavePatch(r)
    BY <1>5
  <2>2. AccountsOK' /\ crossed' \in BOOLEAN
    BY <1>0, <2>1, SaveStep
  <2>3. UNCHANGED <<functions, roleCheck, accountEdits>> /\ patches' = [patches EXCEPT ![r] = NoPatch]
    BY <2>1 DEF SavePatch
  <2>4. ASSUME NEW s \in AccessRequests PROVE PatchOK(s)'
    <3>1. CASE s = r
      <4>1. ~ NoPatch.busy /\ patches'[s] = NoPatch
        BY <1>0, <2>3, <3>1 DEF NoPatch
      <4> QED BY <4>1 DEF PatchOK
    <3>2. CASE s # r
      <4>1. patches'[s] = patches[s] /\ PatchOK(s)
        BY <1>0, <2>3, <3>2
      <4> QED BY <4>1, Zenon DEF PatchOK
    <3> QED BY <3>1, <3>2
  <2>5. patches' = [s \in AccessRequests |-> patches'[s]]
    BY <1>0, <2>3
  <2> QED BY <1>0, <2>2, <2>3, <2>4, <2>5 DEF AccessIInv
<1>6. CASE \E p \in People, q \in Staff : DeleteUser(p, q)
  <2>1. PICK p \in People, q \in Staff : DeleteUser(p, q)
    BY <1>6
  <2>2. AccountsOK'
    BY <1>0, <2>1, DeleteUserStep
  <2>3. UNCHANGED <<functions, patches, roleCheck, crossed>> /\ Count
    BY <2>1 DEF DeleteUser
  <2> QED BY <1>0, <1>1, <1>2, <2>2, <2>3 DEF AccessIInv
<1>7. CASE \E p \in People, codes \in PassedOn, b \in BOOLEAN :
             CreateRole(p, codes) \/ UpdateRole(p, "custom", codes, b)
  <2>1. PICK p \in People, codes \in PassedOn, b \in BOOLEAN :
          CreateRole(p, codes) \/ UpdateRole(p, "custom", codes, b)
    BY <1>7
  <2>2. roles' \in [RoleSlugs -> RoleRows]
    BY <1>0, <2>1, RolesEdited
  <2>3. UNCHANGED <<accounts, functions, patches, roleCheck, crossed>> /\ Count
    BY <2>1 DEF CreateRole, UpdateRole
  <2>4. AccountsOK'
    BY <1>0, <2>2, <2>3, AccountsUntouched
  <2> QED BY <1>0, <1>1, <1>2, <2>3, <2>4 DEF AccessIInv
<1>8. CASE \E p \in People : CheckRole(p, "custom")
  <2>1. /\ UNCHANGED <<accounts, roles, functions, patches, crossed>> /\ Count
        /\ Deletable("custom") /\ roleCheck' = [role |-> "custom", holders |-> Holders("custom")]
    BY <1>8 DEF CheckRole
  <2>2. roleCheck'.role \in RoleSlugs \cup {NoRole} /\ roleCheck'.holders = {}
    BY <2>1 DEF Deletable, RoleSlugs
  <2>3. AccountsOK'
    BY <1>0, <2>1, AccountsUntouched
  <2> QED BY <1>0, <1>1, <1>2, <2>1, <2>2, <2>3 DEF AccessIInv
<1>9. CASE DeleteRole
  <2>1. AccountsOK'
    BY <1>0, <1>9, DeleteRoleStep
  <2>2. UNCHANGED <<functions, patches, crossed, accountEdits>> /\ roleCheck' = NoCheck
    BY <1>9 DEF DeleteRole
  <2>3. roleCheck'.role \in RoleSlugs \cup {NoRole} /\ roleCheck'.holders = {}
    BY <2>2 DEF NoCheck
  <2> QED BY <1>0, <1>2, <2>1, <2>2, <2>3 DEF AccessIInv
<1>10. CASE SyncCatalog \/ (\E c \in {"users", "plain"} : ToggleFunction(c)) \/ UNCHANGED accessVars
  <2>1. UNCHANGED <<accounts, roles, patches, roleCheck, crossed>>
    BY <1>10 DEF SyncCatalog, ToggleFunction, accessVars
  <2>2. functions' \subseteq Codes /\ accountEdits' \in 0 .. MaxAccountEdits
    <3>1. CASE SyncCatalog
      BY <1>0, <3>1 DEF SyncCatalog
    <3>2. CASE \E c \in {"users", "plain"} : ToggleFunction(c)
      BY <1>0, <1>1, <3>2 DEF ToggleFunction, Codes
    <3>3. CASE UNCHANGED accessVars
      BY <1>0, <3>3 DEF accessVars
    <3> QED BY <1>10, <3>1, <3>2, <3>3
  <2>3. AccountsOK'
    BY <1>0, <2>1, AccountsUntouched
  <2> QED BY <1>0, <1>2, <2>1, <2>2, <2>3 DEF AccessIInv
<1>11. \/ \E p \in People, codes \in PassedOn : CreateRole(p, codes)
       \/ \E p \in People, codes \in PassedOn, b \in BOOLEAN : UpdateRole(p, "custom", codes, b)
       => \E p \in People, codes \in PassedOn, b \in BOOLEAN :
            CreateRole(p, codes) \/ UpdateRole(p, "custom", codes, b)
  <2>1. TRUE \in BOOLEAN
    OBVIOUS
  <2> QED BY <2>1, Zenon
<1> QED BY <1>3, <1>4, <1>5, <1>6, <1>7, <1>8, <1>9, <1>10, <1>11, Zenon DEF AccessNext

(***************************************************************************)
(* Only CreateUser makes an account exist, and a deletion of a role finds  *)
(* nobody among those who held it when it was checked.                     *)
(***************************************************************************)
Appears(q) == ~ accounts[q].exists /\ accounts'[q].exists

LEMMA NobodyElseAppears ==
  ASSUME AccessIInv, NEW q \in People, Appears(q), [AccessNext]_accessVars
  PROVE  \E p \in People, t \in AccountTypes, s \in {"employee", "custom"}, a \in PassedOn :
           CreateUser(p, q, t, s, a, {})
<1>0. AccountsOK /\ \A r \in AccessRequests : PatchOK(r)
  BY DEF AccessIInv
<1>1. CASE \E p \in People, u \in Staff : \E t \in AccountTypes, s \in {"employee", "custom"}, a \in PassedOn :
             CreateUser(p, u, t, s, a, {})
  <2>1. PICK p \in People, u \in Staff, t \in AccountTypes, s \in {"employee", "custom"}, a \in PassedOn :
          CreateUser(p, u, t, s, a, {})
    BY <1>1
  <2>2. CASE u = q
    BY <2>1, <2>2
  <2>3. CASE u # q
    <3>1. accounts'[q] = accounts[q]
      BY <1>0, <2>1, <2>3 DEF CreateUser, AccountsOK
    <3> QED BY <3>1 DEF Appears
  <2> QED BY <2>2, <2>3
<1>2. CASE \E r \in AccessRequests : SavePatch(r)
  <2>1. PICK r \in AccessRequests : SavePatch(r)
    BY <1>2
  <2> DEFINE u == patches[r].target
             row == Updated(accounts[u], patches[r].patch, patches[r].loaded)
  <2>2. /\ u \in People /\ patches[r].patch \in Patches
        /\ accounts' = accounts \/ accounts' = [accounts EXCEPT ![u] = row]
    BY <1>0, <2>1 DEF SavePatch, PatchOK, People
  <2>3. row.exists = accounts[u].exists
    BY <1>0, <2>2, UpdatedRow DEF AccountsOK
  <2> HIDE DEF u, row
  <2>4. accounts'[q].exists = accounts[q].exists
    BY <1>0, <2>2, <2>3 DEF AccountsOK
  <2> QED BY <2>4 DEF Appears
<1>3. CASE \E p \in People, u \in Staff : DeleteUser(p, u)
  <2>1. PICK p \in People, u \in Staff : DeleteUser(p, u)
    BY <1>3
  <2>2. accounts'[q] = Vacant \/ accounts'[q].exists = accounts[q].exists
    BY <1>0, <2>1 DEF DeleteUser, Removed, AccountsOK, AccountRows
  <2> QED BY <2>2, VacantRow DEF Appears
<1>4. CASE DeleteRole
  <2>1. accounts'[q].exists = accounts[q].exists
    BY <1>0, <1>4 DEF DeleteRole, AccountsOK, AccountRows
  <2> QED BY <2>1 DEF Appears
<1>5. CASE UNCHANGED accounts
  BY <1>5 DEF Appears
<1>6. (\E r \in AccessRequests, p \in People, u \in Staff, patch \in Patches : ValidatePatch(r, p, u, patch))
        => UNCHANGED accounts
  BY DEF ValidatePatch
<1>7. \/ \E p \in People, codes \in PassedOn : CreateRole(p, codes)
      \/ \E p \in People, codes \in PassedOn, b \in BOOLEAN : UpdateRole(p, "custom", codes, b)
      \/ \E p \in People : CheckRole(p, "custom")
      => UNCHANGED accounts
  BY DEF CreateRole, UpdateRole, CheckRole
<1>8. SyncCatalog \/ (\E c \in {"users", "plain"} : ToggleFunction(c)) \/ UNCHANGED accessVars
        => UNCHANGED accounts
  BY DEF SyncCatalog, ToggleFunction, accessVars
<1> QED BY <1>1, <1>2, <1>3, <1>4, <1>5, <1>6, <1>7, <1>8, Zenon DEF AccessNext

\* The new account's own functions: its role's, which its creator could assign,
\* and the overrides its creator could pass on.
LEMMA CreatedWithin ==
  ASSUME AccessIInv, NEW p \in People, NEW q \in People, NEW t \in AccountTypes,
         NEW s \in {"employee", "custom"}, NEW a \in PassedOn, CreateUser(p, q, t, s, a, {})
  PROVE  Effective(accounts'[q]) \subseteq Effective(accounts[accounts'[q].creator])
<1> DEFINE o == Overrides(a, {})
           f == ForcedRole(t, s)
           row == [exists |-> TRUE, active |-> TRUE, super |-> FALSE, role |-> f,
                   type |-> t, overrides |-> o, creator |-> p]
           boss == accounts[p]
<1>1. /\ accounts' = [accounts EXCEPT ![q] = row] /\ f \in Assignable(p)
      /\ Delegable(p, a \cup {}) /\ \E code : May(p, code)
  BY DEF CreateUser
<1>2. /\ boss.active /\ boss.super \in BOOLEAN /\ accounts \in [People -> AccountRows]
      /\ functions \subseteq Codes
  <2>1. boss \in AccountRows
    BY DEF AccessIInv, AccountsOK
  <2> QED BY <1>1, <2>1 DEF May, AccessIInv, AccountsOK, AccountRows
<1>3. /\ row.active /\ ~ row.super /\ row.role = f /\ row.overrides = o /\ row.creator = p
  OBVIOUS
<1>4. \A c \in Codes : o[c] = "allow" => c \in a
  BY OverridesRow
<1> HIDE DEF o, f, row, boss
<1>5. accounts'[q] = row
  BY <1>1, <1>2
<1>6. Effective(row) \subseteq RoleCodes(f) \cup Overriding(row, "allow")
  BY <1>3 DEF Effective
<1>7. RoleCodes(f) \subseteq Effective(boss)
  <2>1. CASE boss.super
    BY <1>2, <2>1 DEF Effective, RoleCodes
  <2>2. CASE ~ boss.super
    BY <1>1, <2>2 DEF Assignable, boss
  <2> QED BY <2>1, <2>2
<1>8. Overriding(row, "allow") \subseteq Effective(boss)
  <2>1. Overriding(row, "allow") \subseteq functions \cap a
    BY <1>2, <1>3, <1>4 DEF Overriding
  <2>2. a \subseteq Grantable(p)
    BY <1>1 DEF Delegable
  <2>3. CASE boss.super
    BY <1>2, <2>1, <2>3 DEF Effective
  <2>4. CASE ~ boss.super
    BY <2>1, <2>2, <2>4 DEF Grantable, boss
  <2> QED BY <2>3, <2>4
<1> QED BY <1>3, <1>5, <1>6, <1>7, <1>8 DEF boss

LEMMA NobodyStranded ==
  ASSUME AccessIInv
  PROVE  \A q \in roleCheck.holders : accounts'[q].role # NoRole \/ ~ accounts'[q].exists
BY DEF AccessIInv

LEMMA CreatedGranted ==
  AccessIInv /\ [AccessNext]_accessVars =>
    [\A q \in People : ~ accounts[q].exists /\ accounts'[q].exists =>
       Effective(accounts'[q]) \subseteq Effective(accounts[accounts'[q].creator])]_accessVars
<1> SUFFICES ASSUME AccessIInv, [AccessNext]_accessVars, NEW q \in People, Appears(q)
             PROVE  Effective(accounts'[q]) \subseteq Effective(accounts[accounts'[q].creator])
  BY DEF Appears
<1>1. PICK p \in People, t \in AccountTypes, x \in {"employee", "custom"}, a \in PassedOn :
        CreateUser(p, q, t, x, a, {})
  BY NobodyElseAppears
<1> QED BY <1>1, CreatedWithin

LEMMA StrandedLate ==
  AccessIInv =>
    [roleCheck # NoCheck /\ roleCheck' = NoCheck =>
       \A q \in roleCheck.holders : accounts'[q].role # NoRole \/ ~ accounts'[q].exists]_accessVars
BY NobodyStranded

(***************************************************************************)
(* Accounts and roles are as UserAccessSerializer and RoleViewSet promise, *)
(* in every state and of every step, for every staff and number of edits.  *)
(***************************************************************************)
THEOREM AccessCorrect == AccessSpec => AccessSound
<1> QED BY CreatedGranted, StrandedLate, InitAccess, AccessStep, AccessHolds, PTL
        DEF AccessSpec, AccessSound, CreatedWithinCreator, StrandedOnlyLate
-----------------------------------------------------------------------------
(***************************************************************************)
(* TrafficReports: months, windows and the edges of the chart's buckets.   *)
(***************************************************************************)
LastMonth == Len(MonthStarts)

LEMMA MonthFacts ==
  /\ LastMonth \in Nat \ {0} /\ MonthNumbers = 1 .. LastMonth
  /\ \A m \in 1 .. LastMonth : MonthStarts[m] \in Nat
  /\ MonthStarts[1] = 0 /\ MonthStarts[LastMonth] > LastInstant /\ LastInstant \in Nat
  /\ \A m, n \in 1 .. LastMonth : m <= n => MonthStarts[m] <= MonthStarts[n]
<1>1. /\ LastMonth \in Nat \ {0} /\ MonthNumbers = 1 .. LastMonth
      /\ \A m \in 1 .. LastMonth : MonthStarts[m] \in Nat
  BY ReportAssumption DEF LastMonth, MonthNumbers
<1>2. MonthStarts[1] = 0 /\ MonthStarts[LastMonth] > LastInstant /\ LastInstant \in Nat
  BY ReportAssumption DEF LastMonth
<1>3. ASSUME NEW m \in 1 .. LastMonth, NEW n \in 1 .. LastMonth, m <= n PROVE MonthStarts[m] <= MonthStarts[n]
  <2>1. m = n \/ m < n
    BY <1>3
  <2>2. m < n => MonthStarts[m] < MonthStarts[n]
    BY <1>1, ReportAssumption
  <2> QED BY <1>1, <2>1, <2>2
<1> QED BY <1>1, <1>2, <1>3

LEMMA MonthOf ==
  ASSUME NEW t \in Nat
  PROVE  /\ MonthOfInstant(t) \in 1 .. LastMonth /\ MonthStarts[MonthOfInstant(t)] <= t
         /\ \A m \in 1 .. LastMonth : m > MonthOfInstant(t) => MonthStarts[m] > t
<1> DEFINE B == {m \in MonthNumbers : MonthStarts[m] <= t}
<1>1. B \subseteq 0 .. LastMonth /\ 1 \in B /\ LastMonth \in Nat /\ B \subseteq 1 .. LastMonth
  BY MonthFacts
<1>2. Max(B) \in B /\ \A m \in B : Max(B) >= m
  <2> HIDE DEF B
  <2>1. B # {}
    BY <1>1
  <2> QED BY <1>1, <2>1, GreatestIs
<1>3. \A m \in 1 .. LastMonth : ~ (MonthStarts[m] > t) => m \in B
  BY MonthFacts
<1>4. MonthOfInstant(t) = Max(B)
  BY DEF MonthOfInstant
<1> DEFINE x == Max(B)
<1>5. x \in B /\ \A m \in B : x >= m
  BY <1>2
<1> HIDE DEF x
<1>6. x \in 1 .. LastMonth /\ MonthStarts[x] <= t
  BY <1>1, <1>5
<1>7. ASSUME NEW m \in 1 .. LastMonth, m > x PROVE MonthStarts[m] > t
  <2>1. m \notin B
    BY <1>5, <1>6, <1>7
  <2> QED BY <1>3, <2>1
<1> QED BY <1>4, <1>6, <1>7 DEF x

LEMMA NextMonth ==
  ASSUME NEW t \in Nat
  PROVE  /\ MonthShift(t, 1) \in Nat
         /\ MonthShift(t, 1) > t \/ MonthShift(t, 1) > LastInstant
<1> DEFINE m == MonthOfInstant(t)
<1>1. m \in 1 .. LastMonth /\ \A n \in 1 .. LastMonth : n > m => MonthStarts[n] > t
  BY MonthOf
<1>2. MonthShift(t, 1) = MonthStarts[Max({1, Min({m + 1, LastMonth})})]
  BY DEF MonthShift, LastMonth
<1> HIDE DEF m
<1>3. Min({m + 1, LastMonth}) = IF m + 1 <= LastMonth THEN m + 1 ELSE LastMonth
  BY <1>1, MonthFacts, LesserOf
<1> DEFINE k == Min({m + 1, LastMonth})
<1> HIDE DEF k
<1>4. k \in 1 .. LastMonth /\ (k > m \/ k = LastMonth)
  BY <1>1, <1>3, MonthFacts DEF k
<1>5. Max({1, k}) = k
  BY <1>4, MonthFacts, GreaterOf
<1>6. MonthShift(t, 1) = MonthStarts[k]
  BY <1>2, <1>5 DEF k
<1> QED BY <1>1, <1>4, <1>6, MonthFacts

LEMMA PreviousMonth ==
  ASSUME NEW t \in Nat
  PROVE  MonthShift(t, -1) \in Nat /\ MonthShift(t, -1) <= t
<1> DEFINE m == MonthOfInstant(t)
           k == Min({m + -1, LastMonth})
<1>1. m \in 1 .. LastMonth /\ MonthStarts[m] <= t
  BY MonthOf
<1>2. MonthShift(t, -1) = MonthStarts[Max({1, k})]
  BY DEF MonthShift, LastMonth
<1> HIDE DEF m
<1>3. k = m - 1
  BY <1>1, MonthFacts, LesserOf
<1> HIDE DEF k
<1>4. Max({1, k}) = IF 1 >= k THEN 1 ELSE k
  BY <1>1, <1>3, GreaterOf
<1>5. Max({1, k}) \in 1 .. LastMonth /\ Max({1, k}) <= m
  BY <1>1, <1>3, <1>4, MonthFacts
<1> QED BY <1>1, <1>2, <1>5, MonthFacts

LEMMA Divided ==
  ASSUME NEW d \in Nat \ {0}, NEW t \in Nat
  PROVE  /\ t % d \in Nat /\ t % d <= t
         /\ t = d * (t \div d) + (t % d) /\ t \div d \in Nat
<1>1. t < d => t % d = t
  OBVIOUS
<1>2. t % d \in Nat /\ t % d < d
  OBVIOUS
<1>3. t = d * (t \div d) + (t % d) /\ t \div d \in Nat
  OBVIOUS
<1>4. t % d <= t
  <2> DEFINE m == t % d
  <2>1. m \in Nat /\ m < d /\ (t < d => m = t)
    BY <1>1, <1>2
  <2> HIDE DEF m
  <2>2. m <= t
    BY <2>1
  <2> QED BY <2>2 DEF m
<1> QED BY <1>2, <1>3, <1>4

LEMMA Midnight ==
  ASSUME NEW t \in Nat
  PROVE  MidnightOf(t) \in Nat /\ MidnightOf(t) <= t
<1>1. DayLength \in Nat \ {0}
  BY ReportAssumption
<1>2. t % DayLength \in 0 .. DayLength - 1
  BY <1>1
<1>3. t % DayLength <= t
  BY <1>1, Divided
<1> QED BY <1>2, <1>3 DEF MidnightOf

\* Every range begins no later than it ends, and no later than now.
LEMMA WindowOf ==
  ASSUME NEW kind \in Kinds, NEW now \in 0 .. LastInstant, WindowStart(kind, now) >= 0
  PROVE  /\ WindowStart(kind, now) \in Nat /\ WindowEnd(kind, now) \in Nat
         /\ WindowStart(kind, now) <= WindowEnd(kind, now) /\ WindowEnd(kind, now) <= now
<1>0. /\ kind \in {"rolling", "days", "today", "date", "month", "months", "fy", "custom"}
      /\ Rolling \in Nat /\ RollingDays \in Nat /\ DayLength \in Nat \ {0} /\ now \in Nat
  BY ReportAssumption
<1>1. MidnightOf(now) \in Nat /\ MidnightOf(now) <= now
  BY <1>0, Midnight
<1>2. CASE kind \in {"rolling", "today", "date", "days"}
  <2>1. RollingDays * DayLength \in Nat
    BY <1>0
  <2> DEFINE d == RollingDays * DayLength
  <2> HIDE DEF d
  <2>2. /\ WindowStart(kind, now) = IF kind = "rolling" THEN now - Rolling
                                    ELSE IF kind = "days" THEN now - d
                                    ELSE IF kind = "today" THEN MidnightOf(now) ELSE MidnightOf(now) - DayLength
        /\ WindowEnd(kind, now) = IF kind = "date" THEN MidnightOf(now) ELSE now
    BY <1>2 DEF WindowStart, WindowEnd, d
  <2> QED BY <1>0, <1>1, <1>2, <2>1, <2>2 DEF d
<1>3. CASE kind \in {"month", "months"}
  <2>1. WindowEnd(kind, now) = now
    BY <1>3 DEF WindowEnd
  <2>2. WindowStart(kind, now) = IF kind = "month" THEN MonthStarts[MonthOfInstant(now)] ELSE MonthShift(now, -1)
    BY <1>3 DEF WindowStart
  <2>3. MonthStarts[MonthOfInstant(now)] \in Nat /\ MonthStarts[MonthOfInstant(now)] <= now
    BY <1>0, MonthOf, MonthFacts
  <2> QED BY <1>0, <2>1, <2>2, <2>3, PreviousMonth
<1>4. CASE kind = "fy"
  <2>1. WindowStart(kind, now) = FinancialYearStart /\ WindowEnd(kind, now) = Min({now, FinancialYearEnd})
    BY <1>4 DEF WindowStart, WindowEnd
  <2>2. YearMonths \subseteq 1 .. LastMonth /\ 1 \in YearMonths
    BY ReportAssumption, MonthFacts
  <2>3. Min(YearMonths) = 1
    <3>1. YearMonths \subseteq Nat /\ \A k \in YearMonths : 1 <= k
      BY <2>2, MonthFacts
    <3> QED BY <2>2, <3>1, LeastOne
  <2>4. FinancialYearStart = 0
    BY <2>3, MonthFacts DEF FinancialYearStart
  <2>5. FinancialYearEnd \in Nat
    <3> DEFINE later == YearMonths \ {1}
               k == IF later = {} THEN LastMonth ELSE Min(later)
    <3>1. later # {} => Min(later) \in later
      <4>1. later \subseteq Nat
        BY <2>2
      <4> HIDE DEF later
      <4> QED BY <4>1, LeastIs
    <3>2. FinancialYearEnd = MonthStarts[k]
      BY <2>3 DEF FinancialYearEnd, LastMonth
    <3>3. k \in 1 .. LastMonth
      <4>1. later \subseteq 1 .. LastMonth /\ LastMonth \in 1 .. LastMonth
        BY <2>2, MonthFacts
      <4> HIDE DEF later
      <4> QED BY <3>1, <4>1
    <3> HIDE DEF k
    <3> QED BY <3>2, <3>3, MonthFacts
  <2>6. Min({now, FinancialYearEnd}) = IF now <= FinancialYearEnd THEN now ELSE FinancialYearEnd
    BY <1>0, <2>5, LesserOf
  <2> QED BY <1>0, <2>1, <2>4, <2>5, <2>6
<1>5. CASE kind = "custom"
  <2>1. WindowStart(kind, now) = Max({0, MidnightOf(now) - DayLength}) /\ WindowEnd(kind, now) = now
    BY <1>5 DEF WindowStart, WindowEnd
  <2>2. Max({0, MidnightOf(now) - DayLength}) = IF 0 >= MidnightOf(now) - DayLength THEN 0 ELSE MidnightOf(now) - DayLength
    BY <1>0, <1>1, GreaterOf
  <2> QED BY <1>0, <1>1, <2>1, <2>2
<1> QED BY <1>0, <1>2, <1>3, <1>4, <1>5

LEMMA EdgeAfter ==
  ASSUME NEW kind \in Kinds, NEW start \in Nat, NEW end \in 0 .. LastInstant, NEW t \in Nat
  PROVE  /\ NextEdge(kind, start, end, t) \in Nat
         /\ t < end => NextEdge(kind, start, end, t) > t
         /\ t >= end => NextEdge(kind, start, end, t) >= end
<1> DEFINE x == NextEdge(kind, start, end, t)
<1>0. /\ kind \in {"rolling", "days", "today", "date", "month", "months", "fy", "custom"}
      /\ DayLength \in Nat \ {0} /\ LastInstant \in Nat
  BY ReportAssumption
<1>1. x = t + 1 \/ x = t + DayLength \/ x = MonthShift(t, 1)
  BY <1>0 DEF NextEdge
<1> HIDE DEF x
<1>2. x \in Nat /\ (x > t \/ x > LastInstant)
  BY <1>0, <1>1, NextMonth
<1>3. x \in Nat /\ (t < end => x > t) /\ (t >= end => x >= end)
  BY <1>0, <1>2
<1> QED BY <1>3 DEF x

-----------------------------------------------------------------------------
(***************************************************************************)
(* TrafficReports: the buckets of a window begin at the iterates of        *)
(* NextEdge, and every instant of the window lies in exactly one of them.  *)
(***************************************************************************)
IsEdges(f, kind, start, end) ==
  f = [n \in 0 .. end - start + 1 |->
         IF n = 0 THEN {start}
         ELSE f[n - 1] \cup {NextEdge(kind, start, end, t) : t \in f[n - 1]}]

\* The edges in the order in which the loop meets them.
EdgeLine(e, kind, start, end) ==
  /\ e \in [0 .. end - start + 1 -> Nat] /\ e[0] = start
  /\ \A n \in 1 .. end - start + 1 : e[n] = NextEdge(kind, start, end, e[n - 1])

EdgeSets(e, K) == [n \in 0 .. K |-> {e[i] : i \in 0 .. n}]

Window(kind, start, end) ==
  kind \in Kinds /\ start \in Nat /\ end \in 0 .. LastInstant /\ start <= end

LEMMA EdgeLines ==
  ASSUME NEW kind, NEW start, NEW end, Window(kind, start, end)
  PROVE  \E e : EdgeLine(e, kind, start, end)
<1> DEFINE K == end - start + 1
           step == [z \in (1 .. K) \X Nat |-> NextEdge(kind, start, end, z[2])]
<1>0. kind \in Kinds /\ start \in Nat /\ end \in 0 .. LastInstant /\ K \in Nat
  BY MonthFacts DEF Window
<1>1. \A n \in 1 .. K, t \in Nat :
        step[<<n, t>>] = NextEdge(kind, start, end, t) /\ step[<<n, t>>] \in Nat
  BY <1>0, EdgeAfter
<1>2. PICK f : f \in Iterates(K, Nat, start, step)
  <2> HIDE DEF K, step
  <2> QED BY <1>0, <1>1, IteratesExist
<1>3. /\ f \in [0 .. K -> Nat] /\ f[0] = start
      /\ \A n \in 1 .. K : f[n] = step[<<n, f[n - 1]>>]
  BY <1>2 DEF Iterates
<1>4. \A n \in 1 .. K : f[n - 1] \in Nat
  BY <1>0, <1>3
<1>5. EdgeLine(f, kind, start, end)
  <2> HIDE DEF step
  <2> QED BY <1>1, <1>3, <1>4 DEF EdgeLine
<1> QED BY <1>5

LEMMA EdgesFound ==
  ASSUME NEW kind, NEW start, NEW end, Window(kind, start, end),
         NEW e, EdgeLine(e, kind, start, end)
  PROVE  Lowers(kind, start, end) = {t \in {e[i] : i \in 0 .. end - start + 1} : t < end}
<1> DEFINE K == end - start + 1
           g == EdgeSets(e, K)
           f == CHOOSE h : IsEdges(h, kind, start, end)
<1>0. start \in Nat /\ end \in Nat /\ K \in Nat
  BY MonthFacts DEF Window
<1>1. /\ e \in [0 .. K -> Nat] /\ e[0] = start
      /\ \A n \in 1 .. K : e[n] = NextEdge(kind, start, end, e[n - 1])
  BY DEF EdgeLine
<1>2. \A n \in 0 .. K : g[n] = {e[i] : i \in 0 .. n}
  BY DEF EdgeSets
<1>3. ASSUME NEW n \in 1 .. K
      PROVE  g[n] = g[n - 1] \cup {NextEdge(kind, start, end, t) : t \in g[n - 1]}
  <2>1. n \in 0 .. K /\ n - 1 \in 0 .. K
    BY <1>0
  <2>2. g[n] = {e[i] : i \in 0 .. n} /\ g[n - 1] = {e[i] : i \in 0 .. n - 1}
    BY <1>2, <2>1
  <2> HIDE DEF g
  <2>3. \A i \in 0 .. n - 1 : i + 1 \in 1 .. K /\ (i + 1) - 1 = i /\ i + 1 \in 0 .. n /\ i \in 0 .. n
    BY <1>0
  <2>4. \A i \in 0 .. n - 1 : NextEdge(kind, start, end, e[i]) = e[i + 1]
    BY <1>1, <2>3
  <2>5. \A i \in 0 .. n : i = 0 \/ (i - 1 \in 0 .. n - 1 /\ (i - 1) + 1 = i)
    BY <1>0
  <2>6. 0 \in 0 .. n - 1
    BY <1>0
  <2> QED BY <2>2, <2>3, <2>4, <2>5, <2>6
<1>4. g[0] = {start}
  <2>1. 0 \in 0 .. K /\ \A i \in 0 .. 0 : i = 0
    BY <1>0
  <2>2. g[0] = {e[i] : i \in 0 .. 0} /\ 0 \in 0 .. 0
    BY <1>2, <2>1
  <2> HIDE DEF g
  <2> QED BY <1>1, <2>1, <2>2
<1>5. IsEdges(g, kind, start, end)
  <2>1. g = [n \in 0 .. K |-> g[n]]
    BY DEF EdgeSets
  <2>2. \A n \in 0 .. K : n # 0 => n \in 1 .. K
    BY <1>0
  <2> HIDE DEF g
  <2>3. \A n \in 0 .. K : g[n] = IF n = 0 THEN {start}
          ELSE g[n - 1] \cup {NextEdge(kind, start, end, t) : t \in g[n - 1]}
    BY <1>3, <1>4, <2>2
  <2> QED BY <2>1, <2>3 DEF IsEdges
<1>6. IsEdges(f, kind, start, end)
  <2> HIDE DEF g
  <2> QED BY <1>5, Zenon
<1>7. Lowers(kind, start, end) = {t \in f[K] : t < end}
  BY Zenon DEF Lowers, IsEdges
<1>8. f[K] = g[K]
  <2> HIDE DEF f, g
  <2> DEFINE G == {n \in 0 .. K : f[n] = g[n]}
  <2>1. \A n \in 0 .. K : f[n] = IF n = 0 THEN {start}
          ELSE f[n - 1] \cup {NextEdge(kind, start, end, t) : t \in f[n - 1]}
    BY <1>6 DEF IsEdges
  <2>2. 0 \in G
    <3>1. 0 \in 0 .. K
      BY <1>0
    <3>2. f[0] = {start}
      BY <2>1, <3>1
    <3> QED BY <1>4, <3>1, <3>2
  <2>3. ASSUME NEW n \in 1 .. K, n - 1 \in G PROVE n \in G
    <3>1. n \in 0 .. K /\ n # 0 /\ f[n - 1] = g[n - 1]
      BY <1>0, <2>3
    <3> QED BY <1>3, <2>1, <3>1
  <2>4. 0 .. K \subseteq G
    <3> HIDE DEF G, K
    <3> QED BY <1>0, <2>2, <2>3, UpTo
  <2> QED BY <1>0, <2>4
<1>9. f[K] = {e[i] : i \in 0 .. K}
  <2>1. K \in 0 .. K
    BY <1>0
  <2> HIDE DEF f, g
  <2> QED BY <1>2, <1>8, <2>1
<1> HIDE DEF f
<1> QED BY <1>7, <1>9

LEMMA LineRises ==
  ASSUME NEW kind, NEW start, NEW end, Window(kind, start, end),
         NEW e, EdgeLine(e, kind, start, end)
  PROVE  /\ e[end - start + 1] >= end
         /\ \A n \in 0 .. end - start + 1 : \A i \in 0 .. n : e[n] < end => e[i] <= e[n]
<1> DEFINE K == end - start + 1
           G == {n \in 0 .. K : e[n] >= end \/ e[n] >= start + n}
           H == {n \in 0 .. K : \A i \in 0 .. n : e[n] < end => e[i] <= e[n]}
<1>0. kind \in Kinds /\ start \in Nat /\ end \in 0 .. LastInstant /\ end \in Nat /\ K \in Nat
  BY MonthFacts DEF Window
<1>1. /\ e \in [0 .. K -> Nat] /\ e[0] = start
      /\ \A n \in 1 .. K : e[n] = NextEdge(kind, start, end, e[n - 1])
  BY DEF EdgeLine
<1>2. ASSUME NEW n \in 1 .. K
      PROVE  /\ n \in 0 .. K /\ n - 1 \in 0 .. K /\ e[n] \in Nat /\ e[n - 1] \in Nat
             /\ e[n - 1] < end => e[n] > e[n - 1]
             /\ e[n - 1] >= end => e[n] >= end
  <2>1. n \in 0 .. K /\ n - 1 \in 0 .. K /\ e[n] \in Nat /\ e[n - 1] \in Nat
    BY <1>0, <1>1
  <2> QED BY <1>0, <1>1, <2>1, EdgeAfter
<1>3. 0 .. K \subseteq G
  <2>1. 0 \in G
    BY <1>0, <1>1
  <2>2. ASSUME NEW n \in 1 .. K, n - 1 \in G PROVE n \in G
    <3>1. e[n - 1] >= end \/ e[n - 1] >= start + (n - 1)
      BY <2>2
    <3> QED BY <1>0, <1>2, <3>1
  <2> HIDE DEF G, K
  <2> QED BY <1>0, <2>1, <2>2, UpTo
<1>4. 0 .. K \subseteq H
  <2>1. 0 \in H
    <3>1. \A i \in 0 .. 0 : i = 0
      OBVIOUS
    <3> QED BY <1>0, <1>1, <3>1
  <2>2. ASSUME NEW n \in 1 .. K, n - 1 \in H PROVE n \in H
    <3> SUFFICES ASSUME NEW i \in 0 .. n, e[n] < end PROVE e[i] <= e[n]
      BY <1>2
    <3>1. i = n \/ i \in 0 .. n - 1
      BY <1>0
    <3>2. e[n - 1] < end /\ e[n] > e[n - 1] /\ e[n] \in Nat /\ e[n - 1] \in Nat
      BY <1>0, <1>2
    <3>3. i \in 0 .. n - 1 => e[i] <= e[n - 1] /\ e[i] \in Nat
      <4>1. i \in 0 .. K
        BY <1>0
      <4> QED BY <1>1, <2>2, <3>2, <4>1
    <3> QED BY <3>1, <3>2, <3>3
  <2> HIDE DEF H, K
  <2> QED BY <1>0, <2>1, <2>2, UpTo
<1>5. K \in 0 .. K /\ K \in G
  BY <1>0, <1>3
<1>6. e[K] \in Nat
  BY <1>1, <1>5
<1>7. e[K] >= end
  BY <1>0, <1>5, <1>6
<1> QED BY <1>4, <1>7

\* What Lowers promises a chart: one bucket for every instant of its window.
InBucket(kind, start, end, t, x) == t <= x /\ x < Upper(kind, start, end, t)

LEMMA BucketsTile ==
  ASSUME NEW kind, NEW start, NEW end, Window(kind, start, end)
  PROVE  /\ \A t \in Lowers(kind, start, end) : t \in Nat /\ start <= t /\ t < end
         /\ \A x \in start .. end - 1 : \E t \in Lowers(kind, start, end) :
              \A u \in Lowers(kind, start, end) : InBucket(kind, start, end, u, x) <=> u = t
<1> DEFINE K == end - start + 1
<1>0. kind \in Kinds /\ start \in Nat /\ end \in 0 .. LastInstant /\ end \in Nat /\ K \in Nat
  BY MonthFacts DEF Window
<1>1. PICK e : EdgeLine(e, kind, start, end)
  BY EdgeLines
<1>2. /\ e \in [0 .. K -> Nat] /\ e[0] = start
      /\ \A n \in 1 .. K : e[n] = NextEdge(kind, start, end, e[n - 1])
  BY <1>1 DEF EdgeLine
<1>3. Lowers(kind, start, end) = {t \in {e[i] : i \in 0 .. K} : t < end}
  BY <1>1, EdgesFound
<1>4. e[K] >= end /\ \A n \in 0 .. K : \A i \in 0 .. n : e[n] < end => e[i] <= e[n]
  BY <1>1, LineRises
<1>5. ASSUME NEW t \in Lowers(kind, start, end) PROVE t \in Nat /\ start <= t /\ t < end
  <2>1. PICK n \in 0 .. K : t = e[n] /\ t < end
    BY <1>3, <1>5
  <2>2. e[0] <= e[n]
    BY <1>4, <2>1
  <2> QED BY <1>2, <2>1, <2>2
<1>6. ASSUME NEW n \in 0 .. K, e[n] < end, NEW x \in start .. end - 1
      PROVE  /\ n + 1 \in 0 .. K
             /\ InBucket(kind, start, end, e[n], x) <=> e[n] <= x /\ x < e[n + 1]
  <2>1. n # K
    BY <1>0, <1>4, <1>6, <1>2
  <2>2. n + 1 \in 1 .. K /\ n + 1 \in 0 .. K /\ (n + 1) - 1 = n
    BY <1>0, <2>1
  <2>3. NextEdge(kind, start, end, e[n]) = e[n + 1] /\ e[n + 1] \in Nat
    BY <1>2, <2>2
  <2>4. Upper(kind, start, end, e[n]) = IF end <= e[n + 1] THEN end ELSE e[n + 1]
    BY <1>0, <2>3, LesserOf DEF Upper
  <2>5. x < end /\ x \in Int
    BY <1>0
  <2> QED BY <1>0, <2>2, <2>3, <2>4, <2>5 DEF InBucket
<1>7. ASSUME NEW x \in start .. end - 1
      PROVE  \E t \in Lowers(kind, start, end) :
               \A u \in Lowers(kind, start, end) : InBucket(kind, start, end, u, x) <=> u = t
  <2>0. x \in Nat /\ start <= x /\ x < end
    BY <1>0
  <2> DEFINE P == {n \in 0 .. K : e[n] > x}
  <2>1. PICK m \in P : \A k \in P : m <= k
    <3>1. P \subseteq Nat /\ K \in P
      BY <1>0, <1>2, <1>4, <2>0
    <3> HIDE DEF P
    <3> QED BY <3>1, LeastNumber
  <2>2. m \in 0 .. K /\ e[m] > x /\ m # 0
    BY <1>2, <2>0, <2>1
  <2> DEFINE i == m - 1
  <2>3. i \in 0 .. K /\ i + 1 = m /\ ~ (m <= i)
    BY <1>0, <2>2
  <2>4. e[i] <= x /\ e[i] \in Nat
    <3>1. i \notin P
      BY <2>1, <2>3
    <3>2. e[i] \in Nat
      BY <1>2, <2>3
    <3> QED BY <2>0, <2>3, <3>1, <3>2
  <2> HIDE DEF i, P
  <2>5. e[i] < end
    BY <1>0, <2>0, <2>4
  <2>6. e[i] \in Lowers(kind, start, end)
    BY <1>3, <2>3, <2>5
  <2>7. InBucket(kind, start, end, e[i], x)
    BY <1>6, <2>2, <2>3, <2>4, <2>5
  <2>8. ASSUME NEW u \in Lowers(kind, start, end), InBucket(kind, start, end, u, x) PROVE u = e[i]
    <3>1. PICK j \in 0 .. K : u = e[j] /\ e[j] < end
      BY <1>3, <2>8
    <3>2. j + 1 \in 0 .. K /\ e[j] <= x /\ x < e[j + 1] /\ e[j] \in Nat /\ e[j + 1] \in Nat
      BY <1>2, <1>6, <2>8, <3>1
    <3>3. ~ (j < i)
      <4> SUFFICES ASSUME j < i PROVE FALSE
        OBVIOUS
      <4>1. j + 1 \in 0 .. i
        BY <2>3, <3>1
      <4>2. e[j + 1] <= e[i]
        BY <1>4, <2>3, <2>5, <4>1
      <4> QED BY <2>0, <2>4, <3>2, <4>2
    <3>4. ~ (i < j)
      <4> SUFFICES ASSUME i < j PROVE FALSE
        OBVIOUS
      <4>1. i + 1 \in 0 .. j /\ i + 1 \in 0 .. K
        BY <1>0, <2>3, <3>1
      <4>2. e[i + 1] <= e[j] /\ e[i + 1] \in Nat
        BY <1>2, <1>4, <3>1, <4>1
      <4> QED BY <2>0, <2>2, <2>3, <3>2, <4>2
    <3> QED BY <2>3, <3>1, <3>3, <3>4
  <2> QED BY <2>6, <2>7, <2>8
<1> QED BY <1>5, <1>7

-----------------------------------------------------------------------------
(***************************************************************************)
(* TrafficReports: what each query of a report has counted of a journey    *)
(* that did not change since the report was begun.                         *)
(***************************************************************************)
Steps == {"idle", "summary", "series", "table", "baseline", "done"}
OnwardFrom(at) ==
  CASE at = "series"   -> {"series", "table", "baseline", "done"}
    [] at = "table"    -> {"table", "baseline", "done"}
    [] at = "baseline" -> {"baseline", "done"}
    [] OTHER           -> {"done"}

JourneyRows ==
  [at : {"unborn", "entering", "started", "completed"}, entered : Nat,
   owner : ReportUsers \cup {NoOwner}, legacy : {0} \cup {e.legacy : e \in Entries}]

ReportFields ==
  [at |-> report.at, kind |-> report.kind, now |-> report.now, scope |-> report.scope,
   partner |-> report.partner, summary |-> report.summary, series |-> report.series,
   table |-> report.table, previous |-> report.previous]

Begun ==
  /\ report.kind \in Kinds /\ report.scope \in Scopes
  /\ WindowStart(report.kind, report.now) >= 0

\* h counts in the scope of the report, in a period from lower to upper.
Counts(h, lower, upper) ==
  /\ IsStored(h) /\ journey[h].owner \in report.scope
  /\ lower <= journey[h].entered /\ journey[h].entered < upper

LinesWith(h) == {row \in report.table : h \in row}

SummaryOK(h) ==
  report.at \in OnwardFrom("series") => (h \in report.summary <=> Counts(h, Start, End))

SeriesOK(h) ==
  report.at \in OnwardFrom("table") =>
    \A t \in Lowers(report.kind, Start, End) :
      h \in report.series[t] <=>
        /\ Counts(h, Start, End)
        /\ InBucket(report.kind, Start, End, t, journey[h].entered)

TableOK(h) ==
  report.at \in OnwardFrom("baseline") =>
    \E r \in SUBSET Hits : LinesWith(h) = IF Counts(h, Start, End) THEN {r} ELSE {}

PreviousOK(h) ==
  report.at = "done" =>
    (h \in report.previous <=>
       Counts(h, BaselineStart(report.kind, Start, End, report.partner),
                 BaselineEnd(report.kind, Start, End, report.partner)))

\* Changed or not, a journey that was counted had entered in the period.
Entered(h, lower, upper) ==
  IsStored(h) /\ lower <= journey[h].entered /\ journey[h].entered < upper

ReportTyped ==
  /\ instant \in 0 .. LastInstant
  /\ journey \in [Hits -> JourneyRows]
  /\ \A h \in Hits : journey[h].entered <= instant
  /\ report = ReportFields /\ report.at \in Steps /\ report.partner \in BOOLEAN
  /\ report.kind \in Kinds \cup {"today"} /\ report.now \in 0 .. instant
  /\ report.summary \subseteq Hits /\ report.previous \subseteq Hits /\ moved \subseteq Hits
  /\ IF report.at \in OnwardFrom("table")
     THEN DOMAIN report.series = Lowers(report.kind, Start, End)
     ELSE report.series = <<>>
  /\ report.at # "done" => report.previous = {}
  /\ report.at \notin OnwardFrom("series") => report.summary = {}

ReportIInv ==
  /\ ReportTyped
  /\ report.at # "idle" => Begun
  /\ \A h \in report.summary : Entered(h, Start, End)
  /\ \A h \in report.previous :
       Entered(h, BaselineStart(report.kind, Start, End, report.partner),
                  BaselineEnd(report.kind, Start, End, report.partner))
  /\ \A h \in Hits \ moved : SummaryOK(h) /\ SeriesOK(h) /\ TableOK(h) /\ PreviousOK(h)

LEMMA RowsCount ==
  ASSUME NEW lower, NEW upper, NEW h
  PROVE  h \in Between(DashboardRows(report.scope), lower, upper) <=> h \in Hits /\ Counts(h, lower, upper)
BY DEF Between, DashboardRows, Counts

LEMMA InitReport == ReportInit => ReportIInv
<1> SUFFICES ASSUME ReportInit PROVE ReportIInv
  OBVIOUS
<1>1. /\ instant = 0 /\ journey = [h \in Hits |-> Unborn] /\ moved = {}
      /\ report = [at |-> "idle", kind |-> "today", now |-> 0, scope |-> {}, partner |-> FALSE,
                   summary |-> {}, series |-> <<>>, table |-> {}, previous |-> {}]
  BY DEF ReportInit, NoReport
<1>2. Unborn \in JourneyRows /\ Unborn.entered = 0
  BY DEF Unborn, JourneyRows
<1>3. journey \in [Hits -> JourneyRows] /\ \A h \in Hits : journey[h].entered = 0
  <2>1. \A h \in Hits : journey[h] = Unborn
    BY <1>1
  <2> QED BY <1>1, <1>2, <2>1
<1>4. /\ report.at = "idle" /\ report.kind = "today" /\ report.now = 0 /\ report.partner = FALSE
      /\ report.summary = {} /\ report.series = <<>> /\ report.previous = {} /\ report = ReportFields
  BY <1>1 DEF ReportFields
<1>5. ReportTyped
  BY <1>1, <1>3, <1>4, MonthFacts DEF ReportTyped, Steps, OnwardFrom
<1> QED BY <1>4, <1>5 DEF ReportIInv, SummaryOK, SeriesOK, TableOK, PreviousOK, OnwardFrom

LEMMA BegunWindow ==
  ASSUME ReportIInv, report.at # "idle"
  PROVE  Window(report.kind, Start, End) /\ End <= report.now
BY WindowOf, MonthFacts DEF ReportIInv, ReportTyped, Begun, Window, Start, End

-----------------------------------------------------------------------------
(***************************************************************************)
(* Journeys: one that had entered stays where it entered, and one that a   *)
(* report under way does not list as moved still counts as it counted.     *)
(***************************************************************************)
StaysEntered(h) == IsStored(h) => IsStored(h)' /\ journey'[h].entered = journey[h].entered
CountsSame(h) ==
  \/ journey'[h] = journey[h]
  \/ ~ IsStored(h) /\ ~ IsStored(h)'

JourneyChanges(h, row) ==
  /\ row \in JourneyRows /\ row.entered <= instant
  /\ journey' = [journey EXCEPT ![h] = row]
  /\ journey[h].at \in {"unborn", "entering", "started"}
  /\ journey[h].at = "started" => row.at = "completed" /\ row.entered = journey[h].entered
  /\ \/ Touched(h)
     \/ journey[h].at = "unborn" /\ row.at = "entering" /\ UNCHANGED moved

LEMMA JourneyChange ==
  ASSUME ReportIInv, NEW h \in Hits,
         (\E e \in Entries : Enter(h, e)) \/ CommitEntry(h) \/ Complete(h)
  PROVE  UNCHANGED <<instant, report>> /\ \E row : JourneyChanges(h, row)
<1>1. journey[h] \in JourneyRows /\ journey[h].entered <= instant /\ instant \in Nat /\ journey \in [Hits -> JourneyRows]
  BY MonthFacts DEF ReportIInv, ReportTyped
<1>2. ASSUME NEW e \in Entries, Enter(h, e)
      PROVE  UNCHANGED <<instant, report>> /\ \E row : JourneyChanges(h, row)
  <2> DEFINE row == [at |-> "entering", entered |-> instant, owner |-> e.owner, legacy |-> e.legacy]
  <2>1. row \in JourneyRows
    BY <1>1, ReportAssumption DEF JourneyRows
  <2>2. JourneyChanges(h, row)
    BY <1>1, <1>2, <2>1 DEF Enter, JourneyChanges
  <2> HIDE DEF row
  <2> QED BY <1>2, <2>2 DEF Enter
<1>3. ASSUME CommitEntry(h)
      PROVE  UNCHANGED <<instant, report>> /\ \E row : JourneyChanges(h, row)
  <2> DEFINE row == [journey[h] EXCEPT !.at = "started"]
  <2>1. row \in JourneyRows /\ row.entered = journey[h].entered
    BY <1>1 DEF JourneyRows
  <2>2. JourneyChanges(h, row)
    BY <1>1, <1>3, <2>1 DEF CommitEntry, JourneyChanges
  <2> HIDE DEF row
  <2> QED BY <1>3, <2>2 DEF CommitEntry
<1>4. ASSUME Complete(h)
      PROVE  UNCHANGED <<instant, report>> /\ \E row : JourneyChanges(h, row)
  <2> DEFINE row == [journey[h] EXCEPT !.at = "completed"]
  <2>1. row \in JourneyRows /\ row.entered = journey[h].entered /\ row.at = "completed"
    BY <1>1 DEF JourneyRows
  <2>2. JourneyChanges(h, row)
    BY <1>1, <1>4, <2>1 DEF Complete, JourneyChanges
  <2> HIDE DEF row
  <2> QED BY <1>4, <2>2 DEF Complete
<1> QED BY <1>2, <1>3, <1>4

LEMMA JourneysKept ==
  ASSUME ReportIInv, UNCHANGED <<instant, report>>, NEW h \in Hits, NEW row, JourneyChanges(h, row)
  PROVE  /\ journey' \in [Hits -> JourneyRows] /\ \A g \in Hits : journey'[g].entered <= instant
         /\ moved' \subseteq Hits /\ \A g \in Hits : StaysEntered(g)
         /\ report.at # "idle" => \A g \in Hits \ moved' : g \notin moved /\ CountsSame(g)
<1>1. /\ journey \in [Hits -> JourneyRows] /\ moved \subseteq Hits
      /\ \A g \in Hits : journey[g].entered <= instant
  BY DEF ReportIInv, ReportTyped
<1>2. /\ journey' \in [Hits -> JourneyRows] /\ journey'[h] = row
      /\ \A g \in Hits : g # h => journey'[g] = journey[g]
  BY <1>1 DEF JourneyChanges
<1>3. \A g \in Hits : journey'[g].entered <= instant
  BY <1>1, <1>2 DEF JourneyChanges
<1>4. \A g \in Hits : StaysEntered(g)
  BY <1>2 DEF JourneyChanges, StaysEntered, IsStored
<1>5. moved' \subseteq Hits
  BY <1>1 DEF JourneyChanges, Touched
<1>6. ASSUME report.at # "idle", NEW g \in Hits \ moved' PROVE g \notin moved /\ CountsSame(g)
  <2>1. CASE Touched(h)
    <3>1. moved' = moved \cup {h}
      BY <1>6, <2>1 DEF Touched
    <3> QED BY <1>2, <1>6, <3>1 DEF CountsSame
  <2>2. CASE journey[h].at = "unborn" /\ row.at = "entering" /\ UNCHANGED moved
    <3>1. g = h => ~ IsStored(g) /\ ~ IsStored(g)'
      BY <1>2, <2>2 DEF IsStored
    <3> QED BY <1>2, <1>6, <2>2, <3>1 DEF CountsSame
  <2> QED BY <2>1, <2>2 DEF JourneyChanges
<1> QED BY <1>2, <1>3, <1>4, <1>5, <1>6

LEMMA JourneyStep ==
  ASSUME ReportIInv, NEW h \in Hits,
         (\E e \in Entries : Enter(h, e)) \/ CommitEntry(h) \/ Complete(h)
  PROVE  ReportIInv'
<1>1. UNCHANGED <<instant, report>> /\ \E row : JourneyChanges(h, row)
  BY JourneyChange
<1>2. PICK row : JourneyChanges(h, row)
  BY <1>1
<1>3. /\ journey' \in [Hits -> JourneyRows] /\ \A g \in Hits : journey'[g].entered <= instant
      /\ moved' \subseteq Hits /\ \A g \in Hits : StaysEntered(g)
      /\ report.at # "idle" => \A g \in Hits \ moved' : g \notin moved /\ CountsSame(g)
  BY <1>1, <1>2, JourneysKept
<1>4. Start' = Start /\ End' = End /\ report' = report
  BY <1>1 DEF Start, End
<1>5. ReportTyped'
  BY <1>1, <1>3, <1>4, Zenon DEF ReportIInv, ReportTyped, ReportFields
<1>6. (report.at # "idle" => Begun)'
  BY <1>1, Zenon DEF ReportIInv, Begun
<1>7. /\ \A g \in report.summary : Entered(g, Start, End)
      /\ \A g \in report.previous :
           Entered(g, BaselineStart(report.kind, Start, End, report.partner),
                      BaselineEnd(report.kind, Start, End, report.partner))
      /\ report.summary \subseteq Hits /\ report.previous \subseteq Hits
  BY DEF ReportIInv, ReportTyped
<1>8. /\ (\A g \in report.summary : Entered(g, Start, End))'
      /\ (\A g \in report.previous :
           Entered(g, BaselineStart(report.kind, Start, End, report.partner),
                      BaselineEnd(report.kind, Start, End, report.partner)))'
  BY <1>3, <1>4, <1>7 DEF Entered, StaysEntered
<1>9. ASSUME NEW g \in Hits \ moved'
      PROVE  SummaryOK(g)' /\ SeriesOK(g)' /\ TableOK(g)' /\ PreviousOK(g)'
  <2>1. CASE report.at = "idle"
    BY <1>4, <2>1 DEF SummaryOK, SeriesOK, TableOK, PreviousOK, OnwardFrom
  <2>2. CASE report.at # "idle"
    <3>1. CountsSame(g) /\ SummaryOK(g) /\ SeriesOK(g) /\ TableOK(g) /\ PreviousOK(g)
      BY <1>3, <2>2 DEF ReportIInv
    <3>2. \A lower, upper : Counts(g, lower, upper)' <=> Counts(g, lower, upper)
      BY <1>4, <3>1 DEF CountsSame, Counts, IsStored
    <3>3. SummaryOK(g)'
      BY <1>4, <3>1, <3>2 DEF SummaryOK, Counts
    <3>4. SeriesOK(g)'
      BY <1>4, <3>1, Zenon DEF SeriesOK, Counts, CountsSame, IsStored, InBucket
    <3>5. TableOK(g)'
      BY <1>4, <3>1 DEF TableOK, LinesWith, Counts, CountsSame, IsStored
    <3>6. PreviousOK(g)'
      BY <1>4, <3>1 DEF PreviousOK, Counts, CountsSame, IsStored
    <3> QED BY <3>3, <3>4, <3>5, <3>6
  <2> QED BY <2>1, <2>2
<1> QED BY <1>5, <1>6, <1>8, <1>9 DEF ReportIInv

LEMMA TimeStep == ASSUME ReportIInv, TimePasses PROVE ReportIInv'
<1>1. /\ instant \in 0 .. LastInstant /\ instant' = instant + 1 /\ instant < LastInstant
      /\ UNCHANGED <<journey, report, moved>> /\ LastInstant \in Nat
  BY MonthFacts DEF TimePasses, ReportIInv, ReportTyped
<1>2. /\ instant' \in 0 .. LastInstant
      /\ \A x \in Nat : x <= instant => x <= instant'
      /\ \A x \in 0 .. instant : x \in 0 .. instant'
  BY <1>1
<1>3. \A h \in Hits : journey[h].entered \in Nat
  BY DEF ReportIInv, ReportTyped, JourneyRows
<1>4. \A h \in Hits : journey[h].entered <= instant'
  BY <1>2, <1>3 DEF ReportIInv, ReportTyped
<1>5. Start' = Start /\ End' = End /\ report' = report /\ journey' = journey /\ moved' = moved
  BY <1>1 DEF Start, End
<1>6. ReportTyped'
  BY <1>2, <1>4, <1>5, Zenon DEF ReportIInv, ReportTyped, ReportFields
<1>7. (report.at # "idle" => Begun)'
  BY <1>5, Zenon DEF ReportIInv, Begun
<1>8. /\ (\A g \in report.summary : Entered(g, Start, End))'
      /\ (\A g \in report.previous :
           Entered(g, BaselineStart(report.kind, Start, End, report.partner),
                      BaselineEnd(report.kind, Start, End, report.partner)))'
  BY <1>5, Zenon DEF ReportIInv, Entered, IsStored
<1>9. (\A h \in Hits \ moved : SummaryOK(h) /\ SeriesOK(h) /\ TableOK(h) /\ PreviousOK(h))'
  BY <1>5, Zenon DEF ReportIInv, SummaryOK, SeriesOK, TableOK, PreviousOK, Counts, IsStored, LinesWith
<1> QED BY <1>6, <1>7, <1>8, <1>9 DEF ReportIInv

-----------------------------------------------------------------------------
(***************************************************************************)
(* TrafficReports: the queries of a report.                                *)
(***************************************************************************)
\* A query writes its answer and leaves the rest of the report alone.
Answers(at) ==
  /\ report' = [at |-> at, kind |-> report.kind, now |-> report.now, scope |-> report.scope,
                partner |-> report.partner, summary |-> report'.summary, series |-> report'.series,
                table |-> report'.table, previous |-> report'.previous]
  /\ UNCHANGED <<instant, journey, moved>>

LEMMA AnswerKeeps ==
  ASSUME ReportIInv, report.at # "idle", NEW at \in Steps \ {"idle"}, Answers(at)
  PROVE  /\ Start' = Start /\ End' = End /\ report' = ReportFields' /\ report'.at = at
         /\ report'.kind = report.kind /\ report'.partner = report.partner
         /\ Begun' /\ Begun
         /\ \A h, lower, upper : Counts(h, lower, upper)' <=> Counts(h, lower, upper)
         /\ \A h, lower, upper : Entered(h, lower, upper)' <=> Entered(h, lower, upper)
         /\ UNCHANGED <<instant, journey, moved>>
<1>1. /\ report'.at = at /\ report'.kind = report.kind /\ report'.now = report.now
      /\ report'.scope = report.scope /\ report'.partner = report.partner
      /\ UNCHANGED <<instant, journey, moved>>
  BY DEF Answers
<1>2. report' = ReportFields'
  BY <1>1 DEF Answers, ReportFields
<1>3. Start' = Start /\ End' = End
  BY <1>1, Zenon DEF Start, End
<1>4. Begun /\ Begun'
  BY <1>1, Zenon DEF ReportIInv, Begun
<1>5. \A h, lower, upper : Counts(h, lower, upper)' <=> Counts(h, lower, upper)
  BY <1>1, Zenon DEF Counts, IsStored
<1>6. \A h, lower, upper : Entered(h, lower, upper)' <=> Entered(h, lower, upper)
  BY <1>1, Zenon DEF Entered, IsStored
<1> QED BY <1>1, <1>2, <1>3, <1>4, <1>5, <1>6

LEMMA SummaryStep == ASSUME ReportIInv, ReadSummary PROVE ReportIInv'
<1>1. /\ report = ReportFields /\ report.at = "summary" /\ report.series = <<>> /\ report.previous = {}
      /\ report.now \in 0 .. instant /\ moved \subseteq Hits
  BY DEF ReportIInv, ReportTyped, ReadSummary, OnwardFrom
<1>2. /\ Answers("series") /\ report'.summary = Current /\ report'.series = <<>>
      /\ report'.previous = {}
  BY <1>1 DEF ReadSummary, Answers, ReportFields
<1>3. /\ Start' = Start /\ End' = End /\ report' = ReportFields' /\ report'.at = "series"
      /\ report'.kind = report.kind /\ report'.partner = report.partner
      /\ Begun' /\ Begun
      /\ \A h, lower, upper : Counts(h, lower, upper)' <=> Counts(h, lower, upper)
      /\ \A h, lower, upper : Entered(h, lower, upper)' <=> Entered(h, lower, upper)
      /\ UNCHANGED <<instant, journey, moved>>
  <2>1. "series" \in Steps \ {"idle"} /\ report.at # "idle"
    BY <1>1 DEF Steps
  <2> QED BY <1>2, <2>1, AnswerKeeps
<1>4. \A h : h \in Current <=> h \in Hits /\ Counts(h, Start, End)
  BY RowsCount DEF Current
<1>5. ReportTyped'
  <2>1. Current \subseteq Hits
    BY <1>4
  <2>2. "series" \in Steps /\ "series" # "done" /\ "series" \notin OnwardFrom("table") /\ "series" \in OnwardFrom("series")
    BY DEF Steps, OnwardFrom
  <2>3. report'.now = report.now
    BY <1>2 DEF Answers
  <2> QED BY <1>1, <1>2, <1>3, <2>1, <2>2, <2>3, Zenon DEF ReportIInv, ReportTyped
<1>6. (\A h \in report.summary : Entered(h, Start, End))'
  BY <1>2, <1>3, <1>4 DEF Counts, Entered
<1>7. \A h \in Hits : SummaryOK(h)' /\ SeriesOK(h)' /\ TableOK(h)' /\ PreviousOK(h)'
  BY <1>2, <1>3, <1>4 DEF SummaryOK, SeriesOK, TableOK, PreviousOK, OnwardFrom
<1> QED BY <1>2, <1>3, <1>5, <1>6, <1>7 DEF ReportIInv

LEMMA SeriesStep == ASSUME ReportIInv, ReadSeries PROVE ReportIInv'
<1>1. /\ report = ReportFields /\ report.at = "series" /\ report.previous = {}
      /\ report.now \in 0 .. instant /\ moved \subseteq Hits
  BY DEF ReportIInv, ReportTyped, ReadSeries, OnwardFrom
<1> DEFINE L == Lowers(report.kind, Start, End)
<1>2. /\ Answers("table") /\ report'.summary = report.summary
      /\ report'.series = [t \in L |-> Between(Current, t, BucketUpper(t))]
      /\ report'.previous = {}
  <2> HIDE DEF L
  <2>1. report' = [report EXCEPT !.at = "table", !.series = [t \in L |-> Between(Current, t, BucketUpper(t))]]
    BY DEF ReadSeries, L
  <2> DEFINE charted == [t \in L |-> Between(Current, t, BucketUpper(t))]
  <2> HIDE DEF charted
  <2>2. report' = [report EXCEPT !.at = "table", !.series = charted]
    BY <2>1 DEF charted
  <2>3. /\ Answers("table") /\ report'.summary = report.summary /\ report'.series = charted
        /\ report'.previous = {}
    BY <1>1, <2>2 DEF ReadSeries, Answers, ReportFields
  <2> QED BY <2>3 DEF charted
<1>3. /\ Start' = Start /\ End' = End /\ report' = ReportFields' /\ report'.at = "table"
      /\ report'.kind = report.kind /\ report'.partner = report.partner
      /\ Begun' /\ Begun
      /\ \A h, lower, upper : Counts(h, lower, upper)' <=> Counts(h, lower, upper)
      /\ \A h, lower, upper : Entered(h, lower, upper)' <=> Entered(h, lower, upper)
      /\ UNCHANGED <<instant, journey, moved>>
  <2>1. "table" \in Steps \ {"idle"} /\ report.at # "idle"
    BY <1>1 DEF Steps
  <2> QED BY <1>2, <2>1, AnswerKeeps
<1>4. DOMAIN report'.series = L /\ \A t \in L : report'.series[t] = Between(Current, t, BucketUpper(t))
  BY <1>2
<1>5. L' = L
  BY <1>3
<1> HIDE DEF L
<1>6. ReportTyped'
  <2>1. "table" \in Steps /\ "table" # "done" /\ "table" \in OnwardFrom("table") /\ "table" \in OnwardFrom("series")
    BY DEF Steps, OnwardFrom
  <2>2. report'.now = report.now
    BY <1>2 DEF Answers
  <2>3. DOMAIN report'.series = Lowers(report'.kind, Start', End')
    BY <1>4, <1>5 DEF L
  <2> QED BY <1>1, <1>2, <1>3, <2>1, <2>2, <2>3, Zenon DEF ReportIInv, ReportTyped
<1>7. (\A h \in report.summary : Entered(h, Start, End))'
  BY <1>2, <1>3 DEF ReportIInv
<1>8. ASSUME NEW h \in Hits \ moved
      PROVE  SummaryOK(h)' /\ SeriesOK(h)' /\ TableOK(h)' /\ PreviousOK(h)'
  <2>1. SummaryOK(h)
    BY <1>8 DEF ReportIInv
  <2>2. SummaryOK(h)'
    BY <1>1, <1>2, <1>3, <2>1 DEF SummaryOK, OnwardFrom
  <2>3. ASSUME NEW t \in L
        PROVE  h \in report'.series[t] <=>
                 Counts(h, Start, End) /\ InBucket(report.kind, Start, End, t, journey[h].entered)
    <3>1. h \in report'.series[t] <=> h \in Between(Current, t, BucketUpper(t))
      BY <1>4
    <3>2. h \in Current <=> Counts(h, Start, End)
      BY <1>8, RowsCount DEF Current
    <3> QED BY <3>1, <3>2 DEF Between, BucketUpper, InBucket
  <2>4. SeriesOK(h)'
    <3>1. /\ journey' = journey /\ Start' = Start /\ End' = End /\ report'.kind = report.kind
          /\ Counts(h, Start, End)' <=> Counts(h, Start, End)
          /\ Lowers(report'.kind, Start', End') = L
      BY <1>3, <1>5 DEF L
    <3>2. Counts(h, Start, End)' <=> Counts(h, Start, End)
      BY <3>1
    <3> QED BY <2>3, <3>1, <3>2 DEF SeriesOK, InBucket
  <2>5. TableOK(h)' /\ PreviousOK(h)'
    BY <1>3 DEF TableOK, PreviousOK, OnwardFrom
  <2> QED BY <2>2, <2>4, <2>5
<1> QED BY <1>2, <1>3, <1>6, <1>7, <1>8 DEF ReportIInv

\* The folded table counts a journey of the period in one row, kept or folded.
LEMMA FoldedOnce ==
  ASSUME NEW kept, kept \subseteq ListedClients, NEW h \in Hits
  PROVE  \E r \in SUBSET Hits : {row \in Folded(kept) : h \in row} = IF h \in Current THEN {r} ELSE {}
<1> DEFINE Rest == UNION {RowOf(c) : c \in ListedClients \ kept}
           c0 == SponsorOf[h]
<1>1. Current \subseteq Hits
  BY DEF Current, Between, DashboardRows
<1>2. c0 \in Sponsors
  BY ReportAssumption
<1>3. \A c \in Sponsors : h \in RowOf(c) <=> h \in Current /\ c = c0
  BY DEF RowOf
<1>4. h \in Current => c0 \in ListedClients
  BY <1>2, <1>3 DEF ListedClients
<1>5. h \in Rest <=> h \in Current /\ c0 \in ListedClients \ kept
  BY <1>3 DEF ListedClients
<1>6. Folded(kept) = {RowOf(c) : c \in kept} \cup {Rest} /\ kept \subseteq Sponsors
  BY DEF Folded, ListedClients
<1>7. RowOf(c0) \subseteq Hits /\ Rest \subseteq Hits
  BY <1>1 DEF RowOf
<1> HIDE DEF Rest, c0
<1>8. CASE h \notin Current
  BY <1>3, <1>5, <1>6, <1>8
<1>9. CASE h \in Current /\ c0 \in kept
  <2>1. {row \in Folded(kept) : h \in row} = {RowOf(c0)}
    BY <1>3, <1>5, <1>6, <1>9
  <2> QED BY <1>7, <1>9, <2>1
<1>10. CASE h \in Current /\ c0 \notin kept
  <2>1. {row \in Folded(kept) : h \in row} = {Rest}
    BY <1>3, <1>4, <1>5, <1>6, <1>10
  <2> QED BY <1>7, <1>10, <2>1
<1> QED BY <1>8, <1>9, <1>10

LEMMA TableStep == ASSUME ReportIInv, ReadTable PROVE ReportIInv'
<1>1. /\ report = ReportFields /\ report.at = "table" /\ report.previous = {}
      /\ report.now \in 0 .. instant /\ moved \subseteq Hits
      /\ DOMAIN report.series = Lowers(report.kind, Start, End)
  BY DEF ReportIInv, ReportTyped, ReadTable, OnwardFrom
<1>2. PICK kept \in SUBSET ListedClients :
        report' = [report EXCEPT !.at = "baseline", !.table = Folded(kept)]
  BY DEF ReadTable
<1>3. /\ Answers("baseline") /\ report'.summary = report.summary
      /\ report'.series = report.series /\ report'.previous = {} /\ report'.table = Folded(kept)
  BY <1>1, <1>2 DEF ReadTable, Answers, ReportFields
<1>4. /\ Start' = Start /\ End' = End /\ report' = ReportFields' /\ report'.at = "baseline"
      /\ report'.kind = report.kind /\ report'.partner = report.partner
      /\ Begun' /\ Begun
      /\ \A h, lower, upper : Counts(h, lower, upper)' <=> Counts(h, lower, upper)
      /\ \A h, lower, upper : Entered(h, lower, upper)' <=> Entered(h, lower, upper)
      /\ UNCHANGED <<instant, journey, moved>>
  <2>1. "baseline" \in Steps \ {"idle"} /\ report.at # "idle"
    BY <1>1 DEF Steps
  <2> QED BY <1>3, <2>1, AnswerKeeps
<1>5. ReportTyped'
  <2>1. /\ "baseline" \in Steps /\ "baseline" # "done"
        /\ "baseline" \in OnwardFrom("table") /\ "baseline" \in OnwardFrom("series")
    BY DEF Steps, OnwardFrom
  <2>2. report'.now = report.now
    BY <1>3 DEF Answers
  <2>3. DOMAIN report'.series = Lowers(report'.kind, Start', End')
    BY <1>1, <1>3, <1>4
  <2> QED BY <1>1, <1>3, <1>4, <2>1, <2>2, <2>3, Zenon DEF ReportIInv, ReportTyped
<1>6. (\A h \in report.summary : Entered(h, Start, End))'
  BY <1>3, <1>4 DEF ReportIInv
<1>7. ASSUME NEW h \in Hits \ moved
      PROVE  SummaryOK(h)' /\ SeriesOK(h)' /\ TableOK(h)' /\ PreviousOK(h)'
  <2>1. SummaryOK(h) /\ SeriesOK(h)
    BY <1>7 DEF ReportIInv
  <2>2. SummaryOK(h)'
    BY <1>1, <1>3, <1>4, <2>1 DEF SummaryOK, OnwardFrom
  <2>3. SeriesOK(h)'
    <3>1. \A t \in Lowers(report.kind, Start, End) :
            h \in report.series[t] <=>
              Counts(h, Start, End) /\ InBucket(report.kind, Start, End, t, journey[h].entered)
      BY <1>1, <2>1 DEF SeriesOK, OnwardFrom
    <3>2. /\ journey' = journey /\ Start' = Start /\ End' = End /\ report'.kind = report.kind
          /\ report'.series = report.series
          /\ Counts(h, Start, End)' <=> Counts(h, Start, End)
      BY <1>3, <1>4
    <3>3. Counts(h, Start, End)' <=> Counts(h, Start, End)
      BY <3>2
    <3> QED BY <3>1, <3>2, <3>3 DEF SeriesOK, InBucket
  <2>4. TableOK(h)'
    <3>1. h \in Current <=> Counts(h, Start, End)
      BY <1>7, RowsCount DEF Current
    <3>2. PICK r \in SUBSET Hits : {row \in Folded(kept) : h \in row} = IF h \in Current THEN {r} ELSE {}
      BY <1>7, FoldedOnce
    <3>3. LinesWith(h)' = {row \in Folded(kept) : h \in row}
      BY <1>3, Zenon DEF LinesWith
    <3>4. Counts(h, Start, End)' <=> Counts(h, Start, End)
      BY <1>4
    <3> QED BY <3>1, <3>2, <3>3, <3>4 DEF TableOK
  <2>5. PreviousOK(h)'
    BY <1>4 DEF PreviousOK
  <2> QED BY <2>2, <2>3, <2>4, <2>5
<1> QED BY <1>3, <1>4, <1>5, <1>6, <1>7 DEF ReportIInv

LEMMA BaselineStep == ASSUME ReportIInv, ReadBaseline PROVE ReportIInv'
<1> DEFINE lo == BaselineStart(report.kind, Start, End, report.partner)
           hi == BaselineEnd(report.kind, Start, End, report.partner)
           before == Between(DashboardRows(report.scope), lo, hi)
<1>1. /\ report = ReportFields /\ report.at = "baseline"
      /\ report.now \in 0 .. instant /\ moved \subseteq Hits
      /\ DOMAIN report.series = Lowers(report.kind, Start, End)
  BY DEF ReportIInv, ReportTyped, ReadBaseline, OnwardFrom
<1>2. report' = [report EXCEPT !.at = "done", !.previous = before] /\ UNCHANGED <<instant, journey, moved>>
  BY DEF ReadBaseline
<1>3. \A h : h \in before <=> h \in Hits /\ Counts(h, lo, hi)
  BY RowsCount
<1> HIDE DEF before
<1>4. /\ Answers("done") /\ report'.summary = report.summary
      /\ report'.series = report.series /\ report'.previous = before /\ report'.table = report.table
  BY <1>1, <1>2 DEF Answers, ReportFields
<1>5. /\ Start' = Start /\ End' = End /\ report' = ReportFields' /\ report'.at = "done"
      /\ report'.kind = report.kind /\ report'.partner = report.partner
      /\ Begun' /\ Begun
      /\ \A h, lower, upper : Counts(h, lower, upper)' <=> Counts(h, lower, upper)
      /\ \A h, lower, upper : Entered(h, lower, upper)' <=> Entered(h, lower, upper)
      /\ UNCHANGED <<instant, journey, moved>>
  <2>1. "done" \in Steps \ {"idle"} /\ report.at # "idle"
    BY <1>1 DEF Steps
  <2> QED BY <1>4, <2>1, AnswerKeeps
<1>6. lo' = lo /\ hi' = hi
  BY <1>5
<1>7. ReportTyped'
  <2>1. "done" \in Steps /\ "done" \in OnwardFrom("table") /\ "done" \in OnwardFrom("series")
    BY DEF Steps, OnwardFrom
  <2>2. report'.now = report.now
    BY <1>4 DEF Answers
  <2>3. DOMAIN report'.series = Lowers(report'.kind, Start', End')
    BY <1>1, <1>4, <1>5
  <2>4. before \subseteq Hits
    BY <1>3
  <2> QED BY <1>1, <1>4, <1>5, <2>1, <2>2, <2>3, <2>4, Zenon DEF ReportIInv, ReportTyped
<1>8. (\A h \in report.summary : Entered(h, Start, End))'
  BY <1>4, <1>5 DEF ReportIInv
<1>9. (\A h \in report.previous : Entered(h, lo, hi))'
  <2>1. \A h \in before : Entered(h, lo, hi)
    BY <1>3 DEF Counts, Entered
  <2> HIDE DEF lo, hi
  <2> QED BY <1>4, <1>5, <1>6, <2>1
<1>10. ASSUME NEW h \in Hits \ moved
       PROVE  SummaryOK(h)' /\ SeriesOK(h)' /\ TableOK(h)' /\ PreviousOK(h)'
  <2>1. SummaryOK(h) /\ SeriesOK(h) /\ TableOK(h)
    BY <1>10 DEF ReportIInv
  <2>2. SummaryOK(h)'
    BY <1>1, <1>4, <1>5, <2>1 DEF SummaryOK, OnwardFrom
  <2>3. SeriesOK(h)'
    <3>1. \A t \in Lowers(report.kind, Start, End) :
            h \in report.series[t] <=>
              Counts(h, Start, End) /\ InBucket(report.kind, Start, End, t, journey[h].entered)
      BY <1>1, <2>1 DEF SeriesOK, OnwardFrom
    <3>2. /\ journey' = journey /\ Start' = Start /\ End' = End /\ report'.kind = report.kind
          /\ report'.series = report.series
      BY <1>4, <1>5
    <3>3. Counts(h, Start, End)' <=> Counts(h, Start, End)
      BY <1>5
    <3> QED BY <3>1, <3>2, <3>3 DEF SeriesOK, InBucket
  <2>4. TableOK(h)'
    <3>1. PICK r \in SUBSET Hits : LinesWith(h) = IF Counts(h, Start, End) THEN {r} ELSE {}
      BY <1>1, <2>1 DEF TableOK, OnwardFrom
    <3>2. LinesWith(h)' = LinesWith(h)
      BY <1>4, Zenon DEF LinesWith
    <3>3. Counts(h, Start, End)' <=> Counts(h, Start, End)
      BY <1>5
    <3> QED BY <3>1, <3>2, <3>3 DEF TableOK
  <2>5. PreviousOK(h)'
    <3>1. h \in report'.previous <=> Counts(h, lo, hi)
      BY <1>3, <1>4, <1>10
    <3>2. Counts(h, lo, hi)' <=> Counts(h, lo, hi)
      BY <1>5, <1>6 DEF Counts, IsStored
    <3> QED BY <3>1, <3>2 DEF PreviousOK
  <2> QED BY <2>2, <2>3, <2>4, <2>5
<1>11. (\A g \in report.previous :
          Entered(g, BaselineStart(report.kind, Start, End, report.partner),
                     BaselineEnd(report.kind, Start, End, report.partner)))'
  BY <1>9
<1> HIDE DEF lo, hi
<1> QED BY <1>5, <1>7, <1>8, <1>10, <1>11 DEF ReportIInv

LEMMA AnchorStep ==
  ASSUME ReportIInv, NEW k \in Kinds, NEW scope \in Scopes, NEW partner \in BOOLEAN, Anchor(k, scope, partner)
  PROVE  ReportIInv'
<1>1. /\ report' = [at |-> "summary", kind |-> k, now |-> instant, scope |-> scope, partner |-> partner,
                    summary |-> {}, series |-> <<>>, table |-> {}, previous |-> {}]
      /\ moved' = {} /\ instant' = instant /\ journey' = journey /\ WindowStart(k, instant) >= 0
  BY DEF Anchor, NoReport
<1>2. /\ report'.at = "summary" /\ report'.kind = k /\ report'.now = instant /\ report'.scope = scope
      /\ report'.partner = partner /\ report'.summary = {} /\ report'.series = <<>>
      /\ report'.previous = {} /\ report' = ReportFields'
  BY <1>1 DEF ReportFields
<1>3. instant \in 0 .. LastInstant /\ instant \in 0 .. instant
  BY MonthFacts DEF ReportIInv, ReportTyped
<1>4. ReportTyped'
  <2>1. /\ "summary" \in Steps /\ "summary" # "done"
        /\ "summary" \notin OnwardFrom("table") /\ "summary" \notin OnwardFrom("series")
    BY DEF Steps, OnwardFrom
  <2>2. k \in Kinds \cup {"today"} /\ {} \subseteq Hits
    OBVIOUS
  <2>3. report'.kind \in Kinds \cup {"today"} /\ report'.now \in 0 .. instant'
    BY <1>1, <1>2, <1>3, <2>2
  <2>4. /\ instant' \in 0 .. LastInstant /\ journey' \in [Hits -> JourneyRows]
        /\ \A h \in Hits : journey'[h].entered <= instant'
    BY <1>1, <1>3 DEF ReportIInv, ReportTyped
  <2> QED BY <1>1, <1>2, <2>1, <2>2, <2>3, <2>4, Zenon DEF ReportTyped
<1>5. Begun'
  BY <1>1, <1>2 DEF Begun
<1>6. \A h : SummaryOK(h)' /\ SeriesOK(h)' /\ TableOK(h)' /\ PreviousOK(h)'
  BY <1>2 DEF SummaryOK, SeriesOK, TableOK, PreviousOK, OnwardFrom
<1> QED BY <1>2, <1>4, <1>5, <1>6 DEF ReportIInv

LEMMA ReportStep == ReportIInv /\ [ReportNext]_reportVars => ReportIInv'
<1> SUFFICES ASSUME ReportIInv, [ReportNext]_reportVars PROVE ReportIInv'
  OBVIOUS
<1>1. CASE UNCHANGED reportVars
  <2>1. instant' = instant /\ journey' = journey /\ report' = report /\ moved' = moved
    BY <1>1 DEF reportVars
  <2>2. Start' = Start /\ End' = End
    BY <2>1 DEF Start, End
  <2>3. ReportTyped'
    BY <2>1, <2>2, Zenon DEF ReportIInv, ReportTyped, ReportFields
  <2>4. (report.at # "idle" => Begun)'
    BY <2>1, Zenon DEF ReportIInv, Begun
  <2>5. /\ (\A g \in report.summary : Entered(g, Start, End))'
        /\ (\A g \in report.previous :
             Entered(g, BaselineStart(report.kind, Start, End, report.partner),
                        BaselineEnd(report.kind, Start, End, report.partner)))'
    BY <2>1, <2>2, Zenon DEF ReportIInv, Entered, IsStored
  <2>6. (\A h \in Hits \ moved : SummaryOK(h) /\ SeriesOK(h) /\ TableOK(h) /\ PreviousOK(h))'
    BY <2>1, <2>2, Zenon DEF ReportIInv, SummaryOK, SeriesOK, TableOK, PreviousOK, Counts, IsStored, LinesWith
  <2> QED BY <2>3, <2>4, <2>5, <2>6 DEF ReportIInv
<1> QED BY <1>1, TimeStep, JourneyStep, AnchorStep, SummaryStep, SeriesStep, TableStep, BaselineStep
        DEF ReportNext

-----------------------------------------------------------------------------
(***************************************************************************)
(* TrafficReports: a finished report.                                      *)
(***************************************************************************)
LEMMA OneBucket ==
  ASSUME ReportIInv, report.at = "done", NEW h \in Hits \ moved
  PROVE  \E t : {u \in DOMAIN report.series : h \in report.series[u]}
                  = IF Counts(h, Start, End) THEN {t} ELSE {}
<1> DEFINE L == Lowers(report.kind, Start, End)
           x == journey[h].entered
<1>1. Window(report.kind, Start, End)
  BY BegunWindow
<1>2. /\ DOMAIN report.series = L
      /\ \A u \in L : h \in report.series[u] <=>
           Counts(h, Start, End) /\ InBucket(report.kind, Start, End, u, x)
  BY DEF ReportIInv, ReportTyped, SeriesOK, OnwardFrom
<1>3. Counts(h, Start, End) => x \in Start .. End - 1
  <2>1. x \in Nat /\ Start \in Nat /\ End \in Nat
    BY <1>1, MonthFacts DEF ReportIInv, ReportTyped, JourneyRows, Window
  <2> QED BY <2>1 DEF Counts
<1>4. \A y \in Start .. End - 1 : \E t \in L :
         \A u \in L : InBucket(report.kind, Start, End, u, y) <=> u = t
  BY <1>1, BucketsTile
<1> HIDE DEF L, x
<1>5. Counts(h, Start, End) =>
        \E t \in L : \A u \in L : InBucket(report.kind, Start, End, u, x) <=> u = t
  BY <1>3, <1>4
<1> DEFINE Buckets == {u \in DOMAIN report.series : h \in report.series[u]}
<1>6. CASE Counts(h, Start, End)
  <2>1. PICK t \in L : \A u \in L : InBucket(report.kind, Start, End, u, x) <=> u = t
    BY <1>5, <1>6
  <2>2. Buckets = {t}
    BY <1>2, <1>6, <2>1
  <2> QED BY <1>6, <2>2
<1>7. CASE ~ Counts(h, Start, End)
  <2>1. Buckets = {}
    BY <1>2, <1>7
  <2> QED BY <1>7, <2>1
<1> QED BY <1>6, <1>7

LEMMA CountedOnceHolds == ReportIInv => CountedOnce
<1> SUFFICES ASSUME ReportIInv, report.at = "done", NEW h \in Hits \ moved
             PROVE  LET buckets == {t \in DOMAIN report.series : h \in report.series[t]}
                        rows == {row \in report.table : h \in row}
                    IN  /\ (h \in report.summary) = (Cardinality(buckets) = 1)
                        /\ (h \in report.summary) = (Cardinality(rows) = 1)
                        /\ Cardinality(buckets) <= 1
  BY DEF CountedOnce
<1> DEFINE buckets == {t \in DOMAIN report.series : h \in report.series[t]}
           rows == {row \in report.table : h \in row}
<1>1. PICK t : buckets = IF Counts(h, Start, End) THEN {t} ELSE {}
  BY OneBucket
<1>2. PICK r \in SUBSET Hits : rows = IF Counts(h, Start, End) THEN {r} ELSE {}
  BY Zenon DEF ReportIInv, TableOK, OnwardFrom, LinesWith
<1>3. h \in report.summary <=> Counts(h, Start, End)
  BY DEF ReportIInv, SummaryOK, OnwardFrom
<1> HIDE DEF buckets, rows
<1>4. Cardinality({t}) = 1 /\ Cardinality({r}) = 1 /\ Cardinality({}) = 0
  BY FS_EmptySet, FS_Singleton
<1>5. /\ (h \in report.summary) <=> (Cardinality(buckets) = 1)
      /\ (h \in report.summary) <=> (Cardinality(rows) = 1)
      /\ Cardinality(buckets) <= 1
  BY <1>1, <1>2, <1>3, <1>4
<1> QED BY <1>5 DEF buckets, rows

LEMMA BaselineBefore ==
  ASSUME ReportIInv, report.at = "done"
  PROVE  BaselineEnd(report.kind, Start, End, report.partner) <= Start
<1> DEFINE first == MonthShift(Start, -1)
<1>1. Start \in Nat /\ End \in Nat
  BY BegunWindow, MonthFacts DEF Window
<1>2. first \in Nat
  BY <1>1, PreviousMonth
<1> HIDE DEF first
<1>3. Min({Start, first + (End - Start)}) = IF Start <= first + (End - Start) THEN Start ELSE first + (End - Start)
  BY <1>1, <1>2, LesserOf
<1> DEFINE hi == BaselineEnd(report.kind, Start, End, report.partner)
<1>4. hi = Start \/ hi = Min({Start, first + (End - Start)})
  BY DEF BaselineEnd, first
<1> HIDE DEF hi
<1>5. hi <= Start
  BY <1>1, <1>2, <1>3, <1>4
<1> QED BY <1>5 DEF hi

LEMMA PeriodsDisjointHold == ReportIInv => PeriodsDisjoint
<1> SUFFICES ASSUME ReportIInv, report.at = "done" PROVE PeriodsDisjoint
  BY DEF PeriodsDisjoint
<1> DEFINE lo == BaselineStart(report.kind, Start, End, report.partner)
           hi == BaselineEnd(report.kind, Start, End, report.partner)
<1>1. /\ \A h \in report.summary : Entered(h, Start, End) /\ h \in Hits
      /\ \A h \in report.previous : Entered(h, lo, hi) /\ h \in Hits
      /\ \A h \in Hits : journey[h].entered \in Nat
  BY DEF ReportIInv, ReportTyped, JourneyRows
<1>2. Start \in Nat /\ End \in Nat /\ hi <= Start
  BY BegunWindow, BaselineBefore, MonthFacts DEF Window
<1>3. hi \in Int
  <2>1. MonthShift(Start, -1) \in Nat
    BY <1>2, PreviousMonth
  <2> DEFINE first == MonthShift(Start, -1)
  <2> HIDE DEF first
  <2>2. Min({Start, first + (End - Start)}) = IF Start <= first + (End - Start) THEN Start ELSE first + (End - Start)
    BY <1>2, <2>1, LesserOf DEF first
  <2>3. hi = Start \/ hi = Min({Start, first + (End - Start)})
    BY DEF BaselineEnd, first
  <2> HIDE DEF hi
  <2> QED BY <1>2, <2>1, <2>2, <2>3 DEF first
<1>4. report.summary \cap report.previous = {}
  <2> HIDE DEF lo, hi
  <2> SUFFICES ASSUME NEW h \in report.summary, h \in report.previous PROVE FALSE
    OBVIOUS
  <2>1. Start <= journey[h].entered /\ journey[h].entered < hi /\ journey[h].entered \in Nat
    BY <1>1 DEF Entered
  <2> QED BY <1>2, <1>3, <2>1
<1>5. ASSUME report.kind \in {"rolling", "days", "date"},
             NEW h \in Between(DashboardRows(report.scope) \ moved, Start - (End - Start), End)
      PROVE  h \in report.summary \cup report.previous
  <2>1. lo = Start - (End - Start) /\ hi = Start
    BY <1>5 DEF BaselineStart, BaselineEnd
  <2>2. /\ h \in Hits \ moved /\ IsStored(h) /\ journey[h].owner \in report.scope
        /\ Start - (End - Start) <= journey[h].entered /\ journey[h].entered < End
    BY <1>5 DEF Between, DashboardRows
  <2>3. SummaryOK(h) /\ PreviousOK(h)
    BY <2>2 DEF ReportIInv
  <2>4. h \in report.summary <=> Counts(h, Start, End)
    BY <2>3 DEF SummaryOK, OnwardFrom
  <2>5. h \in report.previous <=> Counts(h, Start - (End - Start), Start)
    BY <2>1, <2>3 DEF PreviousOK
  <2>6. Start <= journey[h].entered \/ journey[h].entered < Start
    BY <1>1, <1>2, <2>2
  <2> QED BY <2>2, <2>4, <2>5, <2>6 DEF Counts
<1> QED BY <1>4, <1>5 DEF PeriodsDisjoint

LEMMA BaselineFair == ReportIInv => BaselineIsFair
<1> SUFFICES ASSUME ReportIInv, report.at = "done", ~ report.partner
             PROVE  BaselineEnd(report.kind, Start, End, FALSE) - BaselineStart(report.kind, Start, End, FALSE)
                      <= End - Start
  BY DEF BaselineIsFair
<1> DEFINE first == MonthShift(Start, -1)
<1>1. Start \in Nat /\ End \in Nat /\ Start <= End
  BY BegunWindow, MonthFacts DEF Window
<1>2. first \in Nat
  BY <1>1, PreviousMonth
<1> HIDE DEF first
<1>3. Min({Start, first + (End - Start)}) = IF Start <= first + (End - Start) THEN Start ELSE first + (End - Start)
  BY <1>1, <1>2, LesserOf
<1> DEFINE lo == BaselineStart(report.kind, Start, End, FALSE)
           hi == BaselineEnd(report.kind, Start, End, FALSE)
           cut == Min({Start, first + (End - Start)})
<1>4. \/ lo = first /\ hi = cut
      \/ lo = Start - (End - Start) /\ hi = Start
  BY DEF BaselineStart, BaselineEnd, first
<1>5. cut \in Nat /\ cut <= first + (End - Start)
  BY <1>1, <1>2, <1>3
<1> HIDE DEF lo, hi, cut
<1>6. hi - lo <= End - Start
  <2>1. CASE lo = first /\ hi = cut
    BY <1>1, <1>2, <1>5, <2>1
  <2>2. CASE lo = Start - (End - Start) /\ hi = Start
    BY <1>1, <2>2
  <2> QED BY <1>4, <2>1, <2>2
<1> QED BY <1>6 DEF lo, hi

LEMMA OneOwner ==
  ASSUME NEW id, NEW scope
  PROVE  LegacyOwner(id, scope) = {} \/ \E v : LegacyOwner(id, scope) = {v}
BY DEF LegacyOwner

LEMMA OwnersAgree == ReportIInv => LegacyOwnersAgree
<1> DEFINE scope == report.scope
           Credited(h) == {u \in scope : h \in UserHitRows(u, scope)}
           owner(h) == IF journey[h].owner = NoOwner THEN journey[h].legacy ELSE journey[h].owner
<1> SUFFICES ASSUME ReportIInv, report.at = "done"
             PROVE  /\ \A h \in TrackedRows(scope) : Credited(h) = {owner(h)}
                    /\ \A h \in Hits : Cardinality(Credited(h)) <= 1
  BY Zenon DEF LegacyOwnersAgree
<1>1. scope \subseteq ReportUsers /\ NoOwner \notin scope
  BY ReportAssumption DEF ReportIInv, Begun
<1>2. ASSUME NEW h \in Hits
      PROVE  Credited(h) = IF ~ IsStored(h) THEN {}
                           ELSE IF journey[h].owner = NoOwner
                           THEN scope \cap LegacyOwner(journey[h].legacy, scope)
                           ELSE scope \cap {journey[h].owner}
  BY <1>1 DEF UserHitRows
<1>3. ASSUME NEW h \in TrackedRows(scope) PROVE Credited(h) = {owner(h)}
  <2>1. /\ h \in Hits /\ IsStored(h)
        /\ \/ journey[h].owner \in scope
           \/ journey[h].owner = NoOwner /\ journey[h].legacy \in scope
    BY <1>3 DEF TrackedRows
  <2>2. journey[h].legacy \in scope => LegacyOwner(journey[h].legacy, scope) = {journey[h].legacy}
    BY DEF LegacyOwner
  <2> HIDE DEF Credited, scope
  <2> QED BY <1>1, <1>2, <2>1, <2>2
<1>4. ASSUME NEW h \in Hits PROVE Cardinality(Credited(h)) <= 1
  <2>1. Credited(h) = {} \/ \E v : Credited(h) = {v}
    <3>1. PICK O : O = LegacyOwner(journey[h].legacy, scope)
      OBVIOUS
    <3>2. O = {} \/ \E v : O = {v}
      BY <3>1, OneOwner
    <3> HIDE DEF Credited, scope
    <3> QED BY <1>2, <3>1, <3>2
  <2> HIDE DEF Credited
  <2>2. \A v : Cardinality({v}) = 1 /\ Cardinality({}) = 0
    BY FS_EmptySet, FS_Singleton
  <2> QED BY <2>1, <2>2
<1> QED BY <1>3, <1>4

LEMMA ReportHolds == ReportIInv => ReportInv
<1>1. ReportIInv => ReportTypeOK
  <2> SUFFICES ASSUME ReportIInv PROVE ReportTypeOK
    OBVIOUS
  <2>1. \A h \in Hits : /\ journey[h].at \in {"unborn", "entering", "started", "completed"}
                        /\ journey[h].entered \in 0 .. instant
    <3>1. \A h \in Hits : journey[h] \in JourneyRows /\ journey[h].entered <= instant
      BY DEF ReportIInv, ReportTyped
    <3>2. instant \in Nat
      BY MonthFacts DEF ReportIInv, ReportTyped
    <3> QED BY <3>1, <3>2 DEF JourneyRows
  <2>2. \A t \in DOMAIN report.series : t < report.now
    <3>1. CASE report.at \in OnwardFrom("table")
      <4>1. report.at # "idle"
        BY <3>1 DEF OnwardFrom
      <4>2. Window(report.kind, Start, End) /\ End <= report.now /\ report.now \in Nat
        BY <4>1, BegunWindow, MonthFacts DEF ReportIInv, ReportTyped
      <4>3. DOMAIN report.series = Lowers(report.kind, Start, End)
        BY <3>1 DEF ReportIInv, ReportTyped
      <4>4. \A t \in DOMAIN report.series : t \in Nat /\ t < End
        BY <4>2, <4>3, BucketsTile
      <4> QED BY <4>2, <4>4, MonthFacts DEF Window
    <3>2. CASE report.at \notin OnwardFrom("table")
      <4>1. report.series = <<>>
        BY <3>2 DEF ReportIInv, ReportTyped
      <4> QED BY <4>1
    <3> QED BY <3>1, <3>2
  <2> QED BY <2>1, <2>2 DEF ReportTypeOK, ReportIInv, ReportTyped
<1> QED BY <1>1, CountedOnceHolds, PeriodsDisjointHold, BaselineFair, OwnersAgree DEF ReportInv

(***************************************************************************)
(* The cards, the chart and the client table of a report, each a query of  *)
(* its own, agree on every journey that stood still while it was built, in *)
(* every range; no journey counts in a period and in its baseline; and the *)
(* two ways of reading the owner of an early journey name the same user.   *)
(***************************************************************************)
THEOREM ReportsCorrect == ReportSpec => []ReportInv
<1> QED BY InitReport, ReportStep, ReportHolds, PTL DEF ReportSpec
-----------------------------------------------------------------------------
(***************************************************************************)
(* Screening: age ranges sorted and joined, for any set of ranges.         *)
(***************************************************************************)
Covers(r, age) == r[1] <= age /\ age <= r[2]
Covered(out, age) == \E i \in DOMAIN out : Covers(out[i], age)
RangesApart(out) == \A i, j \in DOMAIN out : i < j => out[i][2] < out[j][1]

Before(T, r) == {x \in T : SortsBefore(x, r)}

\* Fewer ranges sort before an earlier one, so each number is the rank of one range.
LEMMA Ranks ==
  ASSUME NEW T, T \subseteq AgeRange
  PROVE  /\ Cardinality(T) \in Nat
         /\ \A i \in 1 .. Cardinality(T) : \E r \in T : Cardinality(Before(T, r)) = i - 1
         /\ \A r \in T : Cardinality(Before(T, r)) \in 0 .. Cardinality(T) - 1
         /\ \A a, b \in T :
              SortsBefore(a, b) => Cardinality(Before(T, a)) < Cardinality(Before(T, b))
         /\ \A a, b \in T : a = b \/ SortsBefore(a, b) \/ SortsBefore(b, a)
<1> DEFINE N == Cardinality(T)
           f == [r \in T |-> Cardinality(Before(T, r))]
<1>1. IsFiniteSet(T) /\ N \in Nat
  <2>1. IsFiniteSet(1 .. OldestAge)
    BY ScreeningAssumption, FS_Interval
  <2>2. IsFiniteSet(AgeRange)
    BY <2>1, FS_Product DEF AgeRange
  <2> QED
    BY <2>2, FS_Subset, FS_CardinalityType
<1>2. \A r \in T : r[1] \in Nat /\ r[2] \in Nat /\ r = <<r[1], r[2]>>
  BY ScreeningAssumption DEF AgeRange
<1>3. \A a, b \in T : a = b \/ SortsBefore(a, b) \/ SortsBefore(b, a)
  BY <1>2 DEF SortsBefore
<1>4. \A r \in T : IsFiniteSet(Before(T, r)) /\ Cardinality(Before(T, r)) \in Nat
  BY <1>1, FS_Subset, FS_CardinalityType DEF Before
<1>5. ASSUME NEW a \in T, NEW b \in T, SortsBefore(a, b)
      PROVE  Cardinality(Before(T, a)) < Cardinality(Before(T, b))
  <2>1. Before(T, a) \subseteq Before(T, b)
    BY <1>2, <1>5 DEF Before, SortsBefore
  <2>2. a \in Before(T, b) /\ a \notin Before(T, a)
    BY <1>2, <1>5 DEF Before, SortsBefore
  <2>3. Cardinality(Before(T, a)) <= Cardinality(Before(T, b))
        /\ Cardinality(Before(T, a)) # Cardinality(Before(T, b))
    BY <1>4, <2>1, <2>2, FS_Subset
  <2> QED
    BY <1>4, <2>3
<1>6. ASSUME NEW r \in T PROVE Cardinality(Before(T, r)) \in 0 .. N - 1
  <2>1. Before(T, r) \subseteq T /\ r \notin Before(T, r)
    BY <1>2 DEF Before, SortsBefore
  <2>2. Cardinality(Before(T, r)) <= N /\ N # Cardinality(Before(T, r))
    BY <1>1, <2>1, FS_Subset
  <2> QED
    BY <1>1, <1>4, <2>2
<1>7. \A i \in 1 .. N : \E r \in T : Cardinality(Before(T, r)) = i - 1
  <2>1. f \in Injection(T, 0 .. N - 1)
    <3>1. f \in [T -> 0 .. N - 1]
      BY <1>6
    <3>2. \A a, b \in T : f[a] = f[b] => a = b
      <4> SUFFICES ASSUME NEW a \in T, NEW b \in T, a # b
                   PROVE  Cardinality(Before(T, a)) # Cardinality(Before(T, b))
        OBVIOUS
      <4>1. Cardinality(Before(T, a)) \in Nat /\ Cardinality(Before(T, b)) \in Nat
        BY <1>4
      <4> QED
        BY <1>3, <1>5, <4>1
    <3> HIDE DEF f
    <3> QED
      BY <3>1, <3>2 DEF Injection, IsInjective
  <2>2. IsFiniteSet(0 .. N - 1) /\ Cardinality(0 .. N - 1) = N
    BY <1>1, FS_Interval
  <2>3. f \in Surjection(T, 0 .. N - 1)
    <3> HIDE DEF f
    <3> QED
      BY <2>1, <2>2, FS_Injection
  <2>4. ASSUME NEW i \in 1 .. N PROVE \E r \in T : f[r] = i - 1
    <3>1. i - 1 \in 0 .. N - 1
      BY <1>1
    <3> HIDE DEF f
    <3> QED
      BY <2>3, <3>1 DEF Surjection
  <2> QED
    BY <2>4
<1> HIDE DEF f
<1> QED
  BY <1>1, <1>3, <1>5, <1>6, <1>7

LEMMA InOrderIs ==
  ASSUME NEW T, T \subseteq AgeRange
  PROVE  /\ Cardinality(T) \in Nat
         /\ \A i \in 1 .. Cardinality(T) : InOrder(T)[i] \in T
         /\ \A r \in T : \E i \in 1 .. Cardinality(T) : InOrder(T)[i] = r
         /\ \A i, j \in 1 .. Cardinality(T) : i < j => InOrder(T)[i][1] <= InOrder(T)[j][1]
<1> DEFINE N == Cardinality(T)
           s == InOrder(T)
           rank(r) == Cardinality(Before(T, r))
<1>1. \A i \in 1 .. N : s[i] \in T /\ rank(s[i]) = i - 1
  <2> SUFFICES ASSUME NEW i \in 1 .. N PROVE s[i] \in T /\ rank(s[i]) = i - 1
    OBVIOUS
  <2>1. s[i] = CHOOSE r \in T : rank(r) = i - 1
    BY DEF InOrder, Before
  <2>2. \E r \in T : rank(r) = i - 1
    BY Ranks
  <2> HIDE DEF s, rank
  <2> QED
    BY <2>1, <2>2
<1>2. ASSUME NEW r \in T PROVE \E i \in 1 .. N : s[i] = r
  <2>1. rank(r) \in 0 .. N - 1 /\ N \in Nat
    BY Ranks
  <2>2. rank(r) + 1 \in 1 .. N /\ (rank(r) + 1) - 1 = rank(r)
    BY <2>1
  <2>3. s[rank(r) + 1] \in T /\ rank(s[rank(r) + 1]) = rank(r)
    BY <1>1, <2>2
  <2>4. s[rank(r) + 1] = r
    BY <2>1, <2>3, Ranks
  <2> QED
    BY <2>2, <2>4
<1>3. ASSUME NEW i \in 1 .. N, NEW j \in 1 .. N, i < j PROVE s[i][1] <= s[j][1]
  <2>1. s[i] \in T /\ s[j] \in T /\ ~(rank(s[j]) < rank(s[i])) /\ s[i] # s[j]
    BY <1>1, <1>3
  <2>2. SortsBefore(s[i], s[j])
    BY <2>1, Ranks
  <2>3. s[i][1] \in Nat /\ s[j][1] \in Nat
    BY <2>1, ScreeningAssumption DEF AgeRange
  <2> QED
    BY <2>2, <2>3 DEF SortsBefore
<1>4. Cardinality(T) \in Nat
  BY Ranks
<1> HIDE DEF rank
<1> QED
  BY <1>1, <1>2, <1>3, <1>4

\* A range that does not begin before the last one is joined to it or set apart.
LEMMA AddsRange ==
  ASSUME NEW out \in Seq(AgeRange), RangesApart(out), NEW r \in AgeRange,
         out # <<>> => out[Len(out)][1] <= r[1]
  PROVE  /\ AddRange(out, r) \in Seq(AgeRange) /\ RangesApart(AddRange(out, r))
         /\ AddRange(out, r) # <<>>
         /\ AddRange(out, r)[Len(AddRange(out, r))][1] <= r[1]
         /\ \A age \in Nat : Covered(AddRange(out, r), age) <=> Covered(out, age) \/ Covers(r, age)
<1> DEFINE L == Len(out)
           last == out[L]
<1>1. \A x \in AgeRange : x[1] \in 1 .. OldestAge /\ x[2] \in 1 .. OldestAge
  BY DEF AgeRange
<1>2. L \in Nat /\ DOMAIN out = 1 .. L /\ \A i \in 1 .. L : out[i] \in AgeRange
  OBVIOUS
<1>3. CASE out # <<>> /\ Touches(last, r)
  <2> DEFINE j == Joined(last, r)
             next == [out EXCEPT ![L] = j]
  <2>1. AddRange(out, r) = next
    BY <1>3 DEF AddRange
  <2>2. L \in 1 .. L /\ last \in AgeRange /\ last[1] <= r[1] /\ r[1] <= last[2] + 1
    BY <1>2, <1>3 DEF Touches
  <2>3. /\ last[1] \in Nat /\ last[2] \in Nat /\ r[1] \in Nat /\ r[2] \in Nat
    BY <1>1, <2>2, ScreeningAssumption
  <2>4. j \in AgeRange /\ j[1] = last[1] /\ j[2] = (IF last[2] > r[2] THEN last[2] ELSE r[2])
    <3>1. j[1] = last[1] /\ j[2] = (IF last[2] > r[2] THEN last[2] ELSE r[2])
          /\ j = <<j[1], j[2]>>
      BY DEF Joined
    <3>2. j[1] \in 1 .. OldestAge /\ j[2] \in 1 .. OldestAge
      BY <1>1, <2>2, <3>1
    <3> HIDE DEF j
    <3> QED
      BY <3>1, <3>2 DEF AgeRange
  <2>5. \A age \in Nat : Covers(j, age) <=> Covers(last, age) \/ Covers(r, age)
    <3> HIDE DEF j, last
    <3> QED
      BY <2>2, <2>3, <2>4 DEF Covers
  <2> HIDE DEF j, last
  <2>6. /\ next \in Seq(AgeRange) /\ Len(next) = L /\ DOMAIN next = 1 .. L /\ next[L] = j
        /\ \A i \in 1 .. L : i # L => next[i] = out[i]
    BY <1>2, <2>2, <2>4
  <2> HIDE DEF next
  <2>7. RangesApart(next)
    <3> SUFFICES ASSUME NEW i \in 1 .. L, NEW k \in 1 .. L, i < k PROVE next[i][2] < next[k][1]
      BY <2>6 DEF RangesApart
    <3>1. out[i][2] < out[k][1] /\ i # L
      BY <1>2 DEF RangesApart
    <3> QED
      BY <2>4, <2>6, <3>1 DEF last
  <2>8. ASSUME NEW age \in Nat
        PROVE  Covered(next, age) <=> Covered(out, age) \/ Covers(r, age)
    <3>1. Covered(next, age) <=> Covers(j, age) \/ \E i \in 1 .. L : i # L /\ Covers(out[i], age)
      BY <2>2, <2>6 DEF Covered
    <3>2. Covered(out, age) <=> Covers(last, age) \/ \E i \in 1 .. L : i # L /\ Covers(out[i], age)
      BY <1>2, <2>2 DEF Covered, last
    <3> QED
      BY <2>5, <3>1, <3>2
  <2>9. next # <<>>
    <3>1. L # 0 /\ Len(<<>>) = 0
      BY <1>2, <1>3
    <3> QED
      BY <2>6, <3>1
  <2>10. next[Len(next)][1] <= r[1]
    BY <2>2, <2>4, <2>6
  <2> QED
    BY <2>1, <2>6, <2>7, <2>8, <2>9, <2>10
<1>4. CASE ~(out # <<>> /\ Touches(last, r))
  <2> DEFINE next == Append(out, r)
  <2>1. AddRange(out, r) = next
    BY <1>4 DEF AddRange
  <2>2. /\ next \in Seq(AgeRange) /\ Len(next) = L + 1 /\ DOMAIN next = 1 .. L + 1
        /\ next[L + 1] = r /\ \A i \in 1 .. L : next[i] = out[i]
    BY <1>2
  <2> HIDE DEF next
  <2>3. ASSUME NEW i \in 1 .. L PROVE out[i][2] < r[1]
    <3>1. out # <<>> /\ last \in AgeRange /\ last[1] <= r[1] /\ ~(r[1] <= last[2] + 1) /\ L \in 1 .. L
      BY <1>2, <1>4 DEF Touches
    <3>2. last[1] \in Nat /\ last[2] \in Nat /\ r[1] \in Nat /\ out[i][2] \in Nat
      BY <1>1, <1>2, <3>1, ScreeningAssumption
    <3>3. CASE i = L
      BY <3>1, <3>2, <3>3
    <3>4. CASE i # L
      <4>1. i < L
        <5>1. L \in Nat /\ i # L
          BY <1>2, <3>4
        <5> HIDE DEF L
        <5> QED
          BY <5>1
      <4>2. \A k \in 1 .. L : i < k => out[i][2] < out[k][1]
        BY <1>2 DEF RangesApart
      <4>3. out[i][2] < last[1]
        BY <3>1, <4>1, <4>2
      <4> HIDE DEF last
      <4> QED
        BY <3>1, <3>2, <4>3
    <3> QED
      BY <3>3, <3>4
  <2>4. RangesApart(next)
    <3> SUFFICES ASSUME NEW i \in 1 .. L + 1, NEW k \in 1 .. L + 1, i < k
                 PROVE  next[i][2] < next[k][1]
      BY <2>2 DEF RangesApart
    <3>1. i \in 1 .. L /\ next[i] = out[i]
      BY <1>2, <2>2
    <3>2. CASE k = L + 1
      BY <2>2, <2>3, <3>1, <3>2
    <3>3. CASE k # L + 1
      <4>1. k \in 1 .. L
        BY <1>2, <3>3
      <4> QED
        BY <1>2, <2>2, <3>1, <4>1 DEF RangesApart
    <3> QED
      BY <3>2, <3>3
  <2>5. ASSUME NEW age \in Nat
        PROVE  Covered(next, age) <=> Covered(out, age) \/ Covers(r, age)
    <3>1. 1 .. L + 1 = (1 .. L) \cup {L + 1}
      BY <1>2
    <3> QED
      BY <1>2, <2>2, <3>1 DEF Covered
  <2>6. next # <<>> /\ r[1] <= r[1]
    BY <1>1, <1>2, <2>2, ScreeningAssumption
  <2> QED
    BY <2>1, <2>2, <2>4, <2>5, <2>6
<1> QED
  BY <1>3, <1>4

LEMMA AddRangeTyped ==
  ASSUME NEW out \in Seq(AgeRange), NEW r \in AgeRange
  PROVE  AddRange(out, r) \in Seq(AgeRange)
<1> DEFINE j == Joined(out[Len(out)], r)
<1>1. \A x \in AgeRange : x[1] \in 1 .. OldestAge /\ x[2] \in 1 .. OldestAge
  BY DEF AgeRange
<1>2. CASE out # <<>>
  <2>1. Len(out) \in 1 .. Len(out) /\ out[Len(out)] \in AgeRange
    BY <1>2
  <2>2. j \in AgeRange
    <3>1. j = <<out[Len(out)][1], r[2]>> \/ j = <<out[Len(out)][1], out[Len(out)][2]>>
      BY DEF Joined
    <3> HIDE DEF j
    <3> QED
      BY <1>1, <2>1, <3>1 DEF AgeRange
  <2> HIDE DEF j
  <2>3. [out EXCEPT ![Len(out)] = j] \in Seq(AgeRange)
    BY <2>1, <2>2
  <2> QED
    BY <2>3 DEF AddRange, j
<1> QED
  BY <1>2 DEF AddRange

IsJoining(g, T) ==
  g = [n \in 0 .. Cardinality(T) |-> IF n = 0 THEN <<>> ELSE AddRange(g[n - 1], InOrder(T)[n])]

LEMMA JoiningIs ==
  ASSUME NEW T, T \subseteq AgeRange
  PROVE  \E g : /\ Merged(T) = g[Cardinality(T)] /\ g[0] = <<>>
                /\ \A n \in 1 .. Cardinality(T) : g[n] = AddRange(g[n - 1], InOrder(T)[n])
<1> DEFINE N == Cardinality(T)
           S == Seq(AgeRange)
           step == [z \in (1 .. N) \X S |-> AddRange(z[2], InOrder(T)[z[1]])]
<1>1. N \in Nat /\ <<>> \in S /\ \A i \in 1 .. N : InOrder(T)[i] \in AgeRange
  BY InOrderIs
<1>2. \A n \in 1 .. N, x \in S :
        step[<<n, x>>] = AddRange(x, InOrder(T)[n]) /\ step[<<n, x>>] \in S
  BY <1>1, AddRangeTyped
<1>3. PICK f : f \in Iterates(N, S, <<>>, step)
  <2> HIDE DEF N, step, S
  <2> QED
    BY <1>1, <1>2, IteratesExist
<1>4. IsJoining(f, T)
  <2>1. /\ f \in [0 .. N -> S] /\ f[0] = <<>>
        /\ \A n \in 1 .. N : f[n] = step[<<n, f[n - 1]>>]
    BY <1>3 DEF Iterates
  <2> HIDE DEF step, N, S
  <2>2. ASSUME NEW n \in 0 .. N
        PROVE  f[n] = IF n = 0 THEN <<>> ELSE AddRange(f[n - 1], InOrder(T)[n])
    <3>1. n # 0 => n \in 1 .. N /\ n - 1 \in 0 .. N
      BY <1>1
    <3> QED
      BY <1>2, <2>1, <3>1
  <2> QED
    BY <2>1, <2>2 DEF IsJoining, N
<1> DEFINE w == CHOOSE g : IsJoining(g, T)
<1>5. IsJoining(w, T)
  BY <1>4, Zenon
<1>6. Merged(T) = w[N]
  BY Zenon DEF Merged, IsJoining
<1> HIDE DEF w
<1>7. w[0] = <<>> /\ \A n \in 1 .. N : w[n] = AddRange(w[n - 1], InOrder(T)[n])
  BY <1>1, <1>5 DEF IsJoining
<1> QED
  BY <1>6, <1>7

\* What the joined ranges are, for any set of ranges.
LEMMA MergedIs ==
  ASSUME NEW T, T \subseteq AgeRange
  PROVE  /\ Merged(T) \in Seq(AgeRange) /\ RangesApart(Merged(T))
         /\ Merged(T) = <<>> <=> T = {}
         /\ \A age \in Nat : Covered(Merged(T), age) <=> \E r \in T : Covers(r, age)
<1> DEFINE N == Cardinality(T)
           s == InOrder(T)
<1>1. /\ N \in Nat /\ \A i \in 1 .. N : s[i] \in T /\ s[i] \in AgeRange
      /\ \A r \in T : \E i \in 1 .. N : s[i] = r
      /\ \A i, j \in 1 .. N : i < j => s[i][1] <= s[j][1]
  BY InOrderIs
<1>2. PICK g : /\ Merged(T) = g[N] /\ g[0] = <<>>
               /\ \A n \in 1 .. N : g[n] = AddRange(g[n - 1], s[n])
  BY JoiningIs
<1> HIDE DEF N, s
<1> DEFINE Good(n) ==
             /\ g[n] \in Seq(AgeRange) /\ RangesApart(g[n])
             /\ IF n = 0 THEN g[n] = <<>> ELSE g[n] # <<>> /\ g[n][Len(g[n])][1] <= s[n][1]
             /\ \A age \in Nat : Covered(g[n], age) <=> \E i \in 1 .. n : Covers(s[i], age)
           G == {n \in 0 .. N : Good(n)}
<1>3. 0 \in G
  <2>1. <<>> \in Seq(AgeRange) /\ RangesApart(<<>>) /\ 1 .. 0 = {} /\ \A age \in Nat : ~Covered(<<>>, age)
    BY DEF RangesApart, Covered
  <2>2. Good(0)
    BY <1>2, <2>1
  <2> HIDE DEF Good
  <2> QED
    BY <1>1, <2>2
<1>4. ASSUME NEW n \in 1 .. N, n - 1 \in G PROVE n \in G
  <2>1. Good(n - 1) /\ n - 1 \in 0 .. N /\ n \in 0 .. N /\ n # 0
    BY <1>1, <1>4
  <2>2. g[n - 1] # <<>> => g[n - 1][Len(g[n - 1])][1] <= s[n][1]
    <3> SUFFICES ASSUME g[n - 1] # <<>> PROVE g[n - 1][Len(g[n - 1])][1] <= s[n][1]
      OBVIOUS
    <3>1. n - 1 \in 1 .. N /\ n - 1 < n /\ g[n - 1][Len(g[n - 1])][1] <= s[n - 1][1]
      BY <2>1
    <3>2. s[n - 1][1] <= s[n][1]
      BY <1>1, <3>1
    <3>3. s[n - 1][1] \in Nat /\ s[n][1] \in Nat
      BY <1>1, <3>1, ScreeningAssumption DEF AgeRange
    <3>4. g[n - 1][Len(g[n - 1])][1] \in Nat
      <4>1. g[n - 1] \in Seq(AgeRange)
        BY <2>1
      <4>2. g[n - 1][Len(g[n - 1])] \in AgeRange
        BY <4>1
      <4> QED
        BY <4>2, ScreeningAssumption DEF AgeRange
    <3> QED
      BY <3>1, <3>2, <3>3, <3>4
  <2>3. g[n] = AddRange(g[n - 1], s[n]) /\ s[n] \in AgeRange
    BY <1>1, <1>2
  <2>4. /\ g[n] \in Seq(AgeRange) /\ RangesApart(g[n]) /\ g[n] # <<>> /\ g[n][Len(g[n])][1] <= s[n][1]
        /\ \A age \in Nat : Covered(g[n], age) <=> Covered(g[n - 1], age) \/ Covers(s[n], age)
    <3> DEFINE out == g[n - 1]
               r   == s[n]
    <3>1. out \in Seq(AgeRange) /\ RangesApart(out) /\ r \in AgeRange /\ g[n] = AddRange(out, r)
      BY <2>1, <2>3
    <3>2. out # <<>> => out[Len(out)][1] <= r[1]
      BY <2>2
    <3> HIDE DEF G, Good, out, r
    <3>3. /\ AddRange(out, r) \in Seq(AgeRange) /\ RangesApart(AddRange(out, r))
          /\ AddRange(out, r) # <<>>
          /\ AddRange(out, r)[Len(AddRange(out, r))][1] <= r[1]
          /\ \A age \in Nat :
               Covered(AddRange(out, r), age) <=> Covered(out, age) \/ Covers(r, age)
      BY <3>1, <3>2, AddsRange
    <3> QED
      BY <3>1, <3>3 DEF out, r
  <2>5. 1 .. n = (1 .. n - 1) \cup {n}
    BY <2>1
  <2>6. \A age \in Nat : Covered(g[n], age) <=> \E i \in 1 .. n : Covers(s[i], age)
    BY <2>1, <2>4, <2>5
  <2> QED
    BY <2>1, <2>4, <2>6
<1>5. N \in G
  <2>1. 0 .. N \subseteq G
    <3> HIDE DEF G
    <3> QED
      BY <1>1, <1>3, <1>4, UpTo
  <2>2. N \in 0 .. N
    BY <1>1
  <2> HIDE DEF G
  <2> QED
    BY <2>1, <2>2
<1>6. Good(N)
  BY <1>5
<1>7. N = 0 <=> T = {}
  BY <1>1
<1>8. \A age \in Nat : (\E i \in 1 .. N : Covers(s[i], age)) <=> \E r \in T : Covers(r, age)
  BY <1>1
<1> QED
  BY <1>2, <1>6, <1>7, <1>8

Within(ranges, age) == ranges = {} \/ \E r \in ranges : Covers(r, age)

\* The ranges that two sets of ranges have in common.
LEMMA NarrowedIs ==
  ASSUME NEW p, p \subseteq AgeRange, NEW a, a \subseteq AgeRange
  PROVE  /\ Narrowed(p, a) \subseteq AgeRange
         /\ p \cup a = {} => Narrowed(p, a) = {}
         /\ p \cup a # {} => \A age \in Nat :
              (\E r \in Narrowed(p, a) : Covers(r, age)) <=> Within(p, age) /\ Within(a, age)
<1> DEFINE both(z) == <<IF z[1][1] > z[2][1] THEN z[1][1] ELSE z[2][1],
                        IF z[1][2] < z[2][2] THEN z[1][2] ELSE z[2][2]>>
           Overlap == {w \in p \X a : w[1][1] <= w[2][2] /\ w[2][1] <= w[1][2]}
<1>1. \A x \in AgeRange : /\ x[1] \in 1 .. OldestAge /\ x[2] \in 1 .. OldestAge
                          /\ x[1] \in Nat /\ x[2] \in Nat
  BY ScreeningAssumption DEF AgeRange
<1>2. CASE p = {} \/ a = {}
  BY <1>2 DEF Narrowed, Within
<1>3. CASE p # {} /\ a # {}
  <2>1. Narrowed(p, a) = {both(z) : z \in Overlap}
    BY <1>3, Zenon DEF Narrowed
  <2>2. ASSUME NEW z \in p \X a
        PROVE  /\ both(z) \in AgeRange
               /\ \A age \in Nat : Covers(both(z), age) <=> Covers(z[1], age) /\ Covers(z[2], age)
               /\ \A age \in Nat : Covers(z[1], age) /\ Covers(z[2], age) => z \in Overlap
    <3>1. z[1] \in p /\ z[2] \in a
      OBVIOUS
    <3>2. /\ z[1][1] \in 1 .. OldestAge /\ z[1][2] \in 1 .. OldestAge
          /\ z[2][1] \in 1 .. OldestAge /\ z[2][2] \in 1 .. OldestAge
          /\ z[1][1] \in Nat /\ z[1][2] \in Nat /\ z[2][1] \in Nat /\ z[2][2] \in Nat
      BY <1>1, <3>1
    <3>3. both(z) \in AgeRange
      BY <3>2 DEF AgeRange
    <3>4. /\ both(z)[1] = (IF z[1][1] > z[2][1] THEN z[1][1] ELSE z[2][1])
          /\ both(z)[2] = (IF z[1][2] < z[2][2] THEN z[1][2] ELSE z[2][2])
      OBVIOUS
    <3> HIDE DEF both
    <3> QED
      BY <3>2, <3>3, <3>4 DEF Covers
  <2> HIDE DEF both
  <2>3. {both(z) : z \in Overlap} \subseteq AgeRange
    BY <2>2
  <2>4. ASSUME NEW age \in Nat
        PROVE  (\E r \in {both(z) : z \in Overlap} : Covers(r, age))
                 <=> Within(p, age) /\ Within(a, age)
    <3>1. ASSUME NEW z \in Overlap, Covers(both(z), age)
          PROVE  Within(p, age) /\ Within(a, age)
      BY <2>2, <3>1 DEF Within
    <3>2. ASSUME NEW x \in p, NEW y \in a, Covers(x, age), Covers(y, age)
          PROVE  \E z \in Overlap : Covers(both(z), age)
      <4>1. <<x, y>> \in p \X a /\ <<x, y>>[1] = x /\ <<x, y>>[2] = y
        OBVIOUS
      <4>2. <<x, y>> \in Overlap /\ Covers(both(<<x, y>>), age)
        BY <2>2, <3>2, <4>1
      <4> QED
        BY <4>2
    <3> HIDE DEF Overlap
    <3> QED
      BY <1>3, <3>1, <3>2 DEF Within
  <2> QED
    BY <1>3, <2>1, <2>3, <2>4
<1> QED
  BY <1>2, <1>3

(***************************************************************************)
(* Screening: the form and the quota rows.  RFG's form is what its stored  *)
(* contract says.  Toluna's was built from the rules R that were           *)
(* advertised when it was, and until capacity comes back those advertised  *)
(* now are among them.                                                     *)
(***************************************************************************)
BuiltFrom(R) ==
  /\ asked = UNION {DOMAIN r : r \in R}
  /\ allowed = [q \in Questions |-> EitherAnswer(R, q)]

BuiltOK ==
  hydrated =>
    /\ ages = Merged(Narrowed(stored.primary, stored.alias))
    /\ stored.provider = "rfg" =>
         /\ asked = RfgAsked(stored)
         /\ allowed = [q \in Questions |-> RfgAllowed(stored, q)]
    /\ stored.provider = "toluna" =>
         /\ stored = contract
         /\ ~reopened => \E R \in SUBSET RfgRules(stored) :
                           AdvertisedRules(stored) \subseteq R /\ BuiltFrom(R)

ScreenIInv ==
  /\ ScreenTypeOK
  /\ contract.provider = "rfg" => SingleRules(contract) /\ SingleRules(stored)
  /\ BuiltOK

\* Every rule of a contract gives answers for questions of the form.
LEMMA RulesTyped ==
  /\ \A r \in Rules : DOMAIN r \subseteq Questions /\ \A q \in DOMAIN r : r[q] \subseteq Options
  /\ \A c \in Contract :
       /\ RfgRules(c) \subseteq Rules /\ AdvertisedRules(c) \subseteq RfgRules(c)
       /\ c.project \in Rules /\ c.exclude \in BOOLEAN
       /\ c.primary \subseteq AgeRange /\ c.alias \subseteq AgeRange
       /\ c.quotas \in Seq(QuotaForm) /\ c.provider \in {"rfg", "toluna"}
<1>1. \A r \in Rules : DOMAIN r \subseteq Questions /\ \A q \in DOMAIN r : r[q] \subseteq Options
  BY DEF Rules
<1>2. ASSUME NEW c \in Contract
      PROVE  /\ RfgRules(c) \subseteq Rules /\ AdvertisedRules(c) \subseteq RfgRules(c)
             /\ c.project \in Rules /\ c.exclude \in BOOLEAN
             /\ c.primary \subseteq AgeRange /\ c.alias \subseteq AgeRange
             /\ c.quotas \in Seq(QuotaForm) /\ c.provider \in {"rfg", "toluna"}
  <2>1. /\ c.project \in Rules /\ c.exclude \in BOOLEAN
        /\ c.primary \subseteq AgeRange /\ c.alias \subseteq AgeRange
        /\ c.quotas \in Seq(QuotaForm) /\ c.provider \in {"rfg", "toluna"}
    BY DEF Contract
  <2>2. QuotasOf(c) \subseteq QuotaForm
    BY <2>1 DEF QuotasOf
  <2>3. \A qt \in QuotasOf(c) : SubQuotas(qt) \subseteq SubQuota
    BY <2>2 DEF SubQuotas, QuotaForm
  <2>4. RfgRules(c) \subseteq Rules
    BY <2>3 DEF RfgRules, SubQuota
  <2>5. AdvertisedRules(c) \subseteq RfgRules(c)
    BY DEF RfgRules, AdvertisedRules
  <2> QED
    BY <2>1, <2>4, <2>5
<1> QED
  BY <1>1, <1>2

LEMMA EitherAnswerTyped ==
  ASSUME NEW R \in SUBSET Rules, NEW q
  PROVE  EitherAnswer(R, q) \subseteq Options
<1> QED
  BY RulesTyped DEF EitherAnswer, Naming

LEMMA ScreenBegins == ScreenInit => ScreenIInv
<1> SUFFICES ASSUME ScreenInit PROVE ScreenIInv
  OBVIOUS
<1>1. contract \in Contract /\ stored = contract
      /\ (contract.provider = "rfg" => SingleRules(contract))
  BY ScreeningAssumption DEF ScreenInit
<1>2. /\ asked \subseteq Questions /\ allowed \in [Questions -> SUBSET Options]
      /\ ~hydrated /\ hydrated \in BOOLEAN /\ reopened \in BOOLEAN
      /\ ages = <<>> /\ moves \in 0 .. MaxMoves
  <2>1. /\ 0 \in 0 .. MaxMoves /\ {} \subseteq Questions
        /\ [q \in Questions |-> {}] \in [Questions -> SUBSET Options]
    BY ScreeningAssumption
  <2> QED
    BY <2>1, Zenon DEF ScreenInit
<1>3. ages \in Seq(AgeRange) /\ \A i, j \in DOMAIN ages : i < j => ages[i][2] < ages[j][1]
  BY <1>2
<1>4. ScreenTypeOK
  <2>1. /\ contract \in Contract /\ stored \in Contract /\ contract.provider = stored.provider
        /\ Len(contract.quotas) = Len(stored.quotas)
    BY <1>1
  <2> QED
    BY <1>2, <1>3, <2>1, Zenon DEF ScreenTypeOK
<1>5. BuiltOK
  BY <1>2, Zenon DEF BuiltOK
<1> QED
  BY <1>1, <1>4, <1>5, Zenon DEF ScreenIInv

LEMMA HydrateStep ==
  ASSUME ScreenIInv, Hydrate
  PROVE  ScreenIInv'
<1> DEFINE T == Narrowed(contract.primary, contract.alias)
<1>1. contract \in Contract /\ contract' = contract /\ stored' = contract
      /\ (contract.provider = "rfg" => SingleRules(contract))
  BY DEF Hydrate, ScreenIInv, ScreenTypeOK
<1>2. /\ hydrated' = TRUE /\ reopened' = FALSE /\ moves' = moves /\ ages' = Merged(T)
  BY DEF Hydrate
<1>3. ages' \in Seq(AgeRange) /\ RangesApart(ages')
  <2>1. contract.primary \subseteq AgeRange /\ contract.alias \subseteq AgeRange
    BY <1>1, RulesTyped
  <2>2. T \subseteq AgeRange
    BY <2>1, NarrowedIs
  <2> HIDE DEF T
  <2> QED
    BY <1>2, <2>2, MergedIs
<1>4. CASE contract.provider = "rfg"
  <2>1. /\ asked' = RfgAsked(contract)
        /\ allowed' = [q \in Questions |-> RfgAllowed(contract, q)]
    BY <1>4 DEF Hydrate
  <2>2. RfgAsked(contract) \subseteq Questions
    BY <1>1, RulesTyped DEF RfgAsked
  <2>3. ASSUME NEW q \in Questions PROVE RfgAllowed(contract, q) \subseteq Options
    BY <1>1, RulesTyped, EitherAnswerTyped DEF RfgAllowed
  <2>4. allowed' \in [Questions -> SUBSET Options] /\ asked' \subseteq Questions
    BY <2>1, <2>2, <2>3
  <2>5. ScreenTypeOK'
    BY <1>1, <1>2, <1>3, <2>4 DEF ScreenTypeOK, ScreenIInv, RangesApart
  <2>6. BuiltOK'
    BY <1>1, <1>2, <1>4, <2>1 DEF BuiltOK
  <2> QED
    BY <1>1, <2>5, <2>6 DEF ScreenIInv
<1>5. CASE contract.provider = "toluna"
  <2>1. PICK R : R = AdvertisedRules(contract)
    OBVIOUS
  <2>2. /\ asked' = UNION {DOMAIN r : r \in R}
        /\ allowed' = [q \in Questions |-> EitherAnswer(R, q)]
    BY <1>5, <2>1 DEF Hydrate, TolunaAsked
  <2>3. R \subseteq Rules /\ R \in SUBSET RfgRules(contract)
    BY <1>1, <2>1, RulesTyped
  <2>4. asked' \subseteq Questions
    BY <2>2, <2>3, RulesTyped
  <2>5. allowed' \in [Questions -> SUBSET Options]
    BY <2>2, <2>3, EitherAnswerTyped
  <2>6. ScreenTypeOK'
    BY <1>1, <1>2, <1>3, <2>4, <2>5 DEF ScreenTypeOK, ScreenIInv, RangesApart
  <2>7. BuiltFrom(R)'
    BY <2>2 DEF BuiltFrom
  <2>8. R \in SUBSET RfgRules(stored') /\ AdvertisedRules(stored') \subseteq R
    BY <1>1, <2>1, <2>3
  <2>9. BuiltOK'
    BY <1>1, <1>2, <1>5, <2>7, <2>8, Zenon DEF BuiltOK
  <2> QED
    BY <1>1, <1>5, <2>6, <2>9 DEF ScreenIInv
<1> QED
  BY <1>1, <1>4, <1>5, RulesTyped

\* A quota that fills up or gets room again changes nothing else of its contract.
LEMMA MovedIs ==
  ASSUME NEW c \in Contract, NEW i \in DOMAIN c.quotas,
         NEW d, d = [c EXCEPT !.quotas[i].left = 1 - @]
  PROVE  /\ d \in Contract
         /\ d.provider = c.provider /\ d.primary = c.primary /\ d.alias = c.alias
         /\ DOMAIN d.quotas = DOMAIN c.quotas /\ Len(d.quotas) = Len(c.quotas)
         /\ \A k \in DOMAIN c.quotas : d.quotas[k].layers = c.quotas[k].layers
         /\ \A k \in DOMAIN c.quotas \ {i} : d.quotas[k] = c.quotas[k]
         /\ d.quotas[i].left = 1 - c.quotas[i].left
<1> DEFINE row == [c.quotas[i] EXCEPT !.left = 1 - @]
           qs == [c.quotas EXCEPT ![i] = row]
<1>1. c.quotas \in Seq(QuotaForm) /\ c.quotas[i] \in QuotaForm
  BY RulesTyped
<1>2. /\ row \in QuotaForm /\ row.layers = c.quotas[i].layers
      /\ row.left = 1 - c.quotas[i].left
  <2>1. c.quotas[i].left \in {0, 1}
    BY <1>1 DEF QuotaForm
  <2>2. 1 - c.quotas[i].left \in {0, 1}
    BY <2>1
  <2> QED
    BY <1>1, <2>2 DEF QuotaForm
<1>3. d = [c EXCEPT !.quotas = qs]
  OBVIOUS
<1> HIDE DEF row
<1>4. /\ qs \in Seq(QuotaForm) /\ Len(qs) = Len(c.quotas) /\ DOMAIN qs = DOMAIN c.quotas
      /\ qs[i] = row /\ \A k \in DOMAIN c.quotas \ {i} : qs[k] = c.quotas[k]
  BY <1>1, <1>2
<1> HIDE DEF qs
<1>5. /\ [c EXCEPT !.quotas = qs] \in Contract
      /\ [c EXCEPT !.quotas = qs].quotas = qs
      /\ [c EXCEPT !.quotas = qs].provider = c.provider
      /\ [c EXCEPT !.quotas = qs].primary = c.primary
      /\ [c EXCEPT !.quotas = qs].alias = c.alias
  BY <1>4 DEF Contract
<1>6. \A k \in DOMAIN c.quotas : qs[k].layers = c.quotas[k].layers
  BY <1>2, <1>4
<1>7. /\ d \in Contract /\ d.quotas = qs
      /\ d.provider = c.provider /\ d.primary = c.primary /\ d.alias = c.alias
  BY <1>3, <1>5
<1> QED
  BY <1>2, <1>4, <1>6, <1>7

LEMMA MoveKeepsRules ==
  ASSUME NEW c, NEW d, DOMAIN d.quotas = DOMAIN c.quotas,
         \A k \in DOMAIN c.quotas : d.quotas[k].layers = c.quotas[k].layers
  PROVE  /\ RfgRules(d) = RfgRules(c)
         /\ SingleRules(c) => SingleRules(d)
         /\ (\A k \in DOMAIN c.quotas : d.quotas[k].left > 0 => c.quotas[k].left > 0) =>
              AdvertisedRules(d) \subseteq AdvertisedRules(c)
<1>1. \A r : r \in RfgRules(c) <=>
               \E k \in DOMAIN c.quotas : \E sq \in UNION c.quotas[k].layers : r = sq.rule
  BY DEF RfgRules, QuotasOf, SubQuotas
<1>2. \A r : r \in RfgRules(d) <=>
               \E k \in DOMAIN d.quotas : \E sq \in UNION d.quotas[k].layers : r = sq.rule
  BY DEF RfgRules, QuotasOf, SubQuotas
<1>3. RfgRules(d) = RfgRules(c)
  BY <1>1, <1>2
<1>4. SingleRules(c) => SingleRules(d)
  BY DEF SingleRules
<1>5. ASSUME \A k \in DOMAIN c.quotas : d.quotas[k].left > 0 => c.quotas[k].left > 0
      PROVE  AdvertisedRules(d) \subseteq AdvertisedRules(c)
  <2> SUFFICES ASSUME NEW k \in DOMAIN d.quotas, Advertised(d.quotas[k]),
                      NEW sq \in SubQuotas(d.quotas[k]), ~sq.full
               PROVE  sq.rule \in AdvertisedRules(c)
    BY DEF AdvertisedRules, QuotasOf
  <2>1. Advertised(c.quotas[k]) /\ sq \in SubQuotas(c.quotas[k]) /\ c.quotas[k] \in QuotasOf(c)
    BY <1>5 DEF Advertised, SubQuotas, QuotasOf
  <2> QED
    BY <2>1 DEF AdvertisedRules
<1> QED
  BY <1>3, <1>4, <1>5

LEMMA CountsStep ==
  ASSUME ScreenIInv, NEW i \in DOMAIN contract.quotas, CountsMove(i)
  PROVE  ScreenIInv'
<1>1. PICK now : now = [contract EXCEPT !.quotas[i].left = 1 - @]
  OBVIOUS
<1>2. /\ contract' = now /\ moves < MaxMoves /\ moves' = moves + 1
      /\ stored' = (IF now.provider = "toluna" /\ hydrated THEN now ELSE stored)
      /\ reopened' = (reopened \/ now.quotas[i].left > 0)
      /\ UNCHANGED <<asked, allowed, hydrated, ages>>
  BY <1>1 DEF CountsMove
<1>3. ScreenTypeOK
  BY DEF ScreenIInv
<1>4. /\ contract \in Contract /\ stored \in Contract /\ contract.provider = stored.provider
      /\ Len(contract.quotas) = Len(stored.quotas)
  BY <1>3 DEF ScreenTypeOK
<1>5. /\ now \in Contract
      /\ now.provider = contract.provider
      /\ now.primary = contract.primary /\ now.alias = contract.alias
      /\ DOMAIN now.quotas = DOMAIN contract.quotas /\ Len(now.quotas) = Len(contract.quotas)
      /\ \A k \in DOMAIN contract.quotas : now.quotas[k].layers = contract.quotas[k].layers
      /\ \A k \in DOMAIN contract.quotas \ {i} : now.quotas[k] = contract.quotas[k]
  BY <1>1, <1>4, MovedIs
<1>6. /\ RfgRules(now) = RfgRules(contract)
      /\ SingleRules(contract) => SingleRules(now)
      /\ (\A k \in DOMAIN contract.quotas : now.quotas[k].left > 0 => contract.quotas[k].left > 0) =>
           AdvertisedRules(now) \subseteq AdvertisedRules(contract)
  BY <1>5, MoveKeepsRules
<1>7. ScreenTypeOK'
  <2>1. moves' \in 0 .. MaxMoves
    BY <1>2, <1>3, ScreeningAssumption DEF ScreenTypeOK
  <2>2. /\ contract' \in Contract /\ stored' \in Contract /\ contract'.provider = stored'.provider
        /\ Len(contract'.quotas) = Len(stored'.quotas)
    BY <1>2, <1>4, <1>5
  <2>3. reopened' \in BOOLEAN
    BY <1>2, <1>3, Zenon DEF ScreenTypeOK
  <2> QED
    BY <1>2, <1>3, <2>1, <2>2, <2>3 DEF ScreenTypeOK
<1>8. contract'.provider = "rfg" => SingleRules(contract') /\ SingleRules(stored')
  BY <1>2, <1>4, <1>5, <1>6 DEF ScreenIInv
<1>9. BuiltOK'
  <2> SUFFICES ASSUME hydrated' PROVE BuiltOK'
    BY Zenon DEF BuiltOK
  <2>1. hydrated /\ BuiltOK
    BY <1>2 DEF ScreenIInv
  <2>2. CASE now.provider = "toluna"
    <3>1. /\ stored' = now /\ contract' = now /\ stored = contract
          /\ stored.provider = "toluna" /\ stored'.provider = "toluna"
      BY <1>2, <1>5, <1>4, <2>1, <2>2 DEF BuiltOK
    <3>2. ages' = Merged(Narrowed(now.primary, now.alias))
      BY <1>2, <1>5, <2>1, <3>1 DEF BuiltOK
    <3>3. ASSUME ~reopened'
          PROVE  \E R \in SUBSET RfgRules(now) : AdvertisedRules(now) \subseteq R /\ BuiltFrom(R)'
      <4>1. ~reopened /\ ~(now.quotas[i].left > 0)
        BY <1>2, <3>3
      <4>2. PICK R \in SUBSET RfgRules(contract) :
              AdvertisedRules(contract) \subseteq R /\ BuiltFrom(R)
        BY <2>1, <3>1, <4>1 DEF BuiltOK
      <4>3. BuiltFrom(R)'
        BY <1>2, <4>2 DEF BuiltFrom
      <4>4. AdvertisedRules(now) \subseteq AdvertisedRules(contract)
        BY <1>5, <1>6, <4>1
      <4> QED
        BY <1>6, <4>2, <4>3, <4>4
    <3> QED
      BY <3>1, <3>2, <3>3, Zenon DEF BuiltOK
  <2>3. CASE now.provider # "toluna"
    <3>1. stored' = stored /\ stored.provider # "toluna"
      BY <1>2, <1>4, <1>5, <2>3
    <3> QED
      BY <1>2, <2>1, <3>1 DEF BuiltOK
  <2> QED
    BY <2>2, <2>3
<1> QED
  BY <1>7, <1>8, <1>9 DEF ScreenIInv

LEMMA ScreenStep == ScreenIInv /\ [ScreenNext]_screenVars => ScreenIInv'
<1> SUFFICES ASSUME ScreenIInv, [ScreenNext]_screenVars PROVE ScreenIInv'
  OBVIOUS
<1>1. CASE UNCHANGED screenVars
  BY <1>1 DEF screenVars, ScreenIInv, ScreenTypeOK, BuiltOK, BuiltFrom
<1> QED
  BY <1>1, HydrateStep, CountsStep DEF ScreenNext

LEMMA AgesKept == ScreenIInv => AgesExact
<1> SUFFICES ASSUME ScreenIInv, hydrated, NEW age \in 1 .. OldestAge
             PROVE  AgeAccepted(age) <=> Within(stored.primary, age) /\ Within(stored.alias, age)
  BY DEF AgesExact, Within, Covers
<1> DEFINE p == stored.primary
           a == stored.alias
<1>1. p \subseteq AgeRange /\ a \subseteq AgeRange /\ ages = Merged(Narrowed(p, a)) /\ age \in Nat
  BY RulesTyped, ScreeningAssumption DEF ScreenIInv, ScreenTypeOK, BuiltOK
<1> HIDE DEF p, a
<1>2. PICK T : T = Narrowed(p, a)
  OBVIOUS
<1>3. /\ T \subseteq AgeRange
      /\ p \cup a = {} => T = {}
      /\ p \cup a # {} => ((\E r \in T : Covers(r, age)) <=> Within(p, age) /\ Within(a, age))
  BY <1>1, <1>2, NarrowedIs
<1>4. /\ ages = <<>> <=> T = {}
      /\ Covered(ages, age) <=> \E r \in T : Covers(r, age)
  BY <1>1, <1>2, <1>3, MergedIs
<1>5. AgeAccepted(age) <=> (ages = <<>> /\ p \cup a = {}) \/ Covered(ages, age)
  BY DEF AgeAccepted, Covered, Covers, p, a
<1>6. CASE p \cup a = {}
  BY <1>3, <1>4, <1>5, <1>6 DEF Within, p, a
<1>7. CASE p \cup a # {}
  BY <1>3, <1>4, <1>5, <1>7 DEF p, a
<1> QED
  BY <1>6, <1>7

\* Whatever fits a rule without the lookup fits it with the lookup.
LEMMA OutageKept == ScreenIInv => OutageRefusesNobody
<1> SUFFICES ASSUME NEW answers \in Respondents, RfgAccepts(answers, FALSE)
             PROVE  RfgAccepts(answers, TRUE)
  BY DEF OutageRefusesNobody
<1> DEFINE match(outage) == {qt \in QuotasOf(stored) : Fits(RuleOf(qt), answers, outage)}
           local == [q \in DOMAIN stored.project \cap Derived |-> stored.project[q]]
<1>1. \A r : Decided(r, answers, FALSE) = DOMAIN r
  BY DEF Decided
<1>2. \A r : ~Unknown(r, answers, FALSE)
  BY <1>1 DEF Unknown
<1>3. \A r : Fails(r, answers, TRUE) => Fails(r, answers, FALSE)
  BY DEF Fails, Decided
<1>4. \A r : Fits(r, answers, TRUE) => Fits(r, answers, FALSE)
  BY <1>1, <1>2 DEF Fits, Unknown, Fails
<1>5. match(TRUE) \subseteq match(FALSE)
  BY <1>4
<1>6. ~Fails(local, answers, TRUE)
  <2>1. ~Fails(local, answers, FALSE)
    BY DEF RfgAccepts
  <2> HIDE DEF local
  <2> QED
    BY <1>3, <2>1
<1>7. ASSUME stored.exclude, QuotasOf(stored) # {}, match(TRUE) = {}
      PROVE  SomeUnknown(answers, TRUE)
  <2>1. match(FALSE) # {} \/ SomeUnknown(answers, FALSE)
    BY <1>7 DEF RfgAccepts
  <2>2. ~SomeUnknown(answers, FALSE)
    BY <1>2 DEF SomeUnknown
  <2>3. PICK qt \in QuotasOf(stored) : Fits(RuleOf(qt), answers, FALSE)
    BY <2>1, <2>2
  <2>4. ~Fits(RuleOf(qt), answers, TRUE) /\ ~Fails(RuleOf(qt), answers, FALSE)
    BY <1>7, <2>3 DEF Fits
  <2>5. Unknown(RuleOf(qt), answers, TRUE)
    BY <1>3, <2>4 DEF Fits
  <2> QED
    BY <2>5 DEF SomeUnknown
<1>8. FormAccepts(answers) /\ \A qt \in match(FALSE) : qt.left > 0
  BY DEF RfgAccepts
<1> QED
  BY <1>5, <1>6, <1>7, <1>8 DEF RfgAccepts

\* RFG: an open quota that the answers fit matches, and every quota that matches is
\* one they fit.
LEMMA RfgPasses ==
  ASSUME ScreenIInv, hydrated, stored.provider = "rfg", SameQuestions,
         NEW answers \in Respondents, WantsAll(answers)
  PROVE  RfgAccepts(answers, FALSE)
<1>1. /\ stored \in Contract /\ SingleRules(stored)
      /\ asked = RfgAsked(stored) /\ allowed = [q \in Questions |-> RfgAllowed(stored, q)]
  BY DEF ScreenIInv, ScreenTypeOK, BuiltOK
<1>2. ASSUME NEW qt \in QuotasOf(stored)
      PROVE  /\ SubQuotas(qt) = {[rule |-> RuleOf(qt), full |-> FALSE]}
             /\ RuleOf(qt) \in RfgRules(stored)
             /\ InQuota(qt, answers) <=> \A q \in DOMAIN RuleOf(qt) : answers[q] \in RuleOf(qt)[q]
             /\ Fits(RuleOf(qt), answers, FALSE) <=> InQuota(qt, answers)
  <2>1. PICK r \in Rules : qt.layers = {{[rule |-> r, full |-> FALSE]}}
    BY <1>1 DEF SingleRules, QuotasOf
  <2>2. SubQuotas(qt) = {[rule |-> r, full |-> FALSE]}
    BY <2>1 DEF SubQuotas
  <2> DEFINE only == [rule |-> r, full |-> FALSE]
  <2>a. only.rule = r /\ ~only.full
    OBVIOUS
  <2> HIDE DEF only
  <2>b. SubQuotas(qt) = {only}
    BY <2>2 DEF only
  <2>3. RuleOf(qt) = r
    <3>1. (CHOOSE sq \in {only} : TRUE) \in {only}
      BY Zenon
    <3> QED
      BY <2>a, <2>b, <3>1 DEF RuleOf
  <2>4. r \in RfgRules(stored)
    BY <2>a, <2>b, Zenon DEF RfgRules
  <2>5. InQuota(qt, answers) <=> \A q \in DOMAIN r : answers[q] \in r[q]
    BY <2>1 DEF InQuota
  <2>6. Fits(r, answers, FALSE) <=> \A q \in DOMAIN r : answers[q] \in r[q]
    BY DEF Fits, Unknown, Fails, Decided
  <2> QED
    BY <2>2, <2>3, <2>4, <2>5, <2>6
<1>3. PICK D \in SUBSET Questions : \A qt \in QuotasOf(stored) :
        \A sq \in SubQuotas(qt) : DOMAIN sq.rule = D
  BY DEF SameQuestions
<1>4. PICK open \in QuotasOf(stored) : open.left > 0 /\ InQuota(open, answers)
  BY DEF WantsAll
<1>5. \A r \in RfgRules(stored) : DOMAIN r = D
  BY <1>3 DEF RfgRules
<1>6. FormAccepts(answers)
  <2> SUFFICES ASSUME NEW q \in asked PROVE allowed[q] = {} \/ answers[q] \in allowed[q]
    BY DEF FormAccepts
  <2>1. q \in Questions /\ q \notin Derived
        /\ (q \in DOMAIN stored.project \/ q \in UNION {DOMAIN r : r \in RfgRules(stored)})
    BY <1>1 DEF RfgAsked, ScreenIInv, ScreenTypeOK
  <2>2. allowed[q] = RfgAllowed(stored, q)
    BY <1>1, <2>1
  <2>3. CASE q \in DOMAIN stored.project
    BY <2>1, <2>2, <2>3 DEF RfgAllowed, WantsAll
  <2>4. CASE q \notin DOMAIN stored.project /\ stored.exclude
    <3>1. q \in D
      BY <1>5, <2>1, <2>4
    <3>2. RuleOf(open) \in Naming(RfgRules(stored), q) /\ answers[q] \in RuleOf(open)[q]
      BY <1>2, <1>4, <1>5, <3>1 DEF Naming
    <3>3. answers[q] \in EitherAnswer(RfgRules(stored), q)
      BY <3>2 DEF EitherAnswer
    <3> QED
      BY <2>1, <2>2, <2>4, <3>3 DEF RfgAllowed
  <2>5. CASE q \notin DOMAIN stored.project /\ ~stored.exclude
    BY <2>1, <2>2, <2>5 DEF RfgAllowed
  <2> QED
    BY <2>3, <2>4, <2>5
<1>7. ~Fails([q \in DOMAIN stored.project \cap Derived |-> stored.project[q]], answers, FALSE)
  BY DEF Fails, Decided, WantsAll
<1>8. \A qt \in QuotasOf(stored) : Fits(RuleOf(qt), answers, FALSE) => qt.left > 0
  BY <1>2 DEF WantsAll
<1>9. Fits(RuleOf(open), answers, FALSE)
  BY <1>2, <1>4
<1> QED
  BY <1>6, <1>7, <1>8, <1>9 DEF RfgAccepts

\* Toluna: an open quota that the answers fit was advertised, so its questions are on
\* the form and its answers among those accepted.
LEMMA TolunaPasses ==
  ASSUME ScreenIInv, hydrated, ~reopened, stored.provider = "toluna", SameQuestions,
         NEW answers \in Respondents, WantsAll(answers)
  PROVE  TolunaAccepts(answers)
<1>1. PICK R \in SUBSET RfgRules(stored) : AdvertisedRules(stored) \subseteq R /\ BuiltFrom(R)
  BY DEF ScreenIInv, BuiltOK
<1>2. PICK D \in SUBSET Questions : \A qt \in QuotasOf(stored) :
        /\ \A sq \in SubQuotas(qt) : DOMAIN sq.rule = D
        /\ SubQuotas(qt) = {} => D = {}
  BY DEF SameQuestions
<1>3. PICK open \in QuotasOf(stored) : open.left > 0 /\ InQuota(open, answers)
  BY DEF WantsAll
<1>4. asked \subseteq Questions /\ asked = UNION {DOMAIN r : r \in R}
      /\ \A q \in Questions : allowed[q] = EitherAnswer(R, q)
  BY <1>1 DEF BuiltFrom, ScreenIInv, ScreenTypeOK
<1>5. \A r \in R : DOMAIN r = D
  BY <1>1, <1>2 DEF RfgRules
<1>6. Advertised(open)
  BY <1>3 DEF Advertised, InQuota
<1>7. ASSUME NEW layer \in open.layers
      PROVE  \E sq \in layer : /\ ~sq.full /\ sq.rule \in R /\ DOMAIN sq.rule = D
                               /\ \A q \in DOMAIN sq.rule : answers[q] \in sq.rule[q]
  <2>1. PICK sq \in layer : ~sq.full /\ \A q \in DOMAIN sq.rule : answers[q] \in sq.rule[q]
    BY <1>3 DEF InQuota
  <2>2. sq \in SubQuotas(open)
    BY <2>1 DEF SubQuotas
  <2>3. sq.rule \in AdvertisedRules(stored)
    BY <1>6, <2>1, <2>2 DEF AdvertisedRules
  <2> QED
    BY <1>1, <1>2, <2>1, <2>2, <2>3
<1>8. FormAccepts(answers)
  <2> SUFFICES ASSUME NEW q \in asked PROVE answers[q] \in allowed[q]
    BY DEF FormAccepts
  <2>1. q \in Questions /\ q \in D
    BY <1>4, <1>5
  <2>2. PICK layer \in open.layers : TRUE
    BY <1>2, <2>1 DEF SubQuotas
  <2>3. PICK sq \in layer : sq.rule \in R /\ DOMAIN sq.rule = D
                            /\ \A p \in DOMAIN sq.rule : answers[p] \in sq.rule[p]
    BY <1>7
  <2>4. answers[q] \in EitherAnswer(R, q)
    BY <2>1, <2>3 DEF EitherAnswer, Naming
  <2> QED
    BY <1>4, <2>1, <2>4
<1>9. \A layer \in open.layers : \E sq \in layer : ~sq.full /\ Satisfies(sq.rule, answers)
  <2> SUFFICES ASSUME NEW layer \in open.layers
               PROVE  \E sq \in layer : ~sq.full /\ Satisfies(sq.rule, answers)
    OBVIOUS
  <2>1. PICK sq \in layer : /\ ~sq.full /\ sq.rule \in R
                            /\ \A q \in DOMAIN sq.rule : answers[q] \in sq.rule[q]
    BY <1>7
  <2>2. DOMAIN sq.rule \subseteq asked
    BY <1>4, <2>1
  <2> QED
    BY <2>1, <2>2 DEF Satisfies
<1> QED
  BY <1>3, <1>8, <1>9 DEF TolunaAccepts

LEMMA ScreenKept == ScreenIInv => ScreenInv
<1> SUFFICES ASSUME ScreenIInv PROVE ScreenInv
  OBVIOUS
<1>1. QualifiedPass
  <2> SUFFICES ASSUME hydrated, ~reopened, SameQuestions, NEW answers \in Respondents,
                      WantsAll(answers)
               PROVE  Accepts(answers, FALSE)
    BY DEF QualifiedPass
  <2>1. stored.provider \in {"rfg", "toluna"}
    BY RulesTyped DEF ScreenIInv, ScreenTypeOK
  <2> QED
    BY <2>1, RfgPasses, TolunaPasses DEF Accepts
<1> QED
  BY <1>1, OutageKept, AgesKept DEF ScreenInv, ScreenIInv

LEMMA ScreenInductive == ScreenSpec => []ScreenIInv
<1> QED
  BY ScreenBegins, ScreenStep, PTL DEF ScreenSpec

(***************************************************************************)
(* validate_prescreener, _matching_quota and the age ranges, for any       *)
(* contracts, questions and moves of the counts: who qualifies passes the  *)
(* form and the quota rows, an outage of the postal lookup refuses nobody, *)
(* and the form accepts exactly the ages that the ranges have in common.   *)
(***************************************************************************)
THEOREM ScreenCorrect == ScreenSpec => []ScreenInv
<1> QED
  BY ScreenInductive, ScreenKept, PTL
-----------------------------------------------------------------------------
(***************************************************************************)
(* The components of one deployment share no record: whichever of them     *)
(* takes a step, every other one stutters, and keeps what it promises.     *)
(***************************************************************************)
LEMMA RecordsSteps ==
  [RecordsNext]_recordsVars =>
    /\ [CacheNext]_cacheVars /\ [TreeNext]_treeVars /\ [ScopeNext]_scopeVars
    /\ [PriceNext]_priceVars /\ [SettingNext]_settingVars /\ [AccessNext]_accessVars
    /\ [ScreenNext]_screenVars /\ [ReportNext]_reportVars
BY Zenon DEF RecordsNext, recordsVars

LEMMA RecordsInvariance ==
  RecordsSpec => [](/\ CacheIInv /\ TreeIInv /\ ScopeIInv /\ PriceIInv
                    /\ SettingIInv /\ AccessIInv /\ ScreenIInv /\ ReportIInv)
<1>1. RecordsInit => /\ CacheIInv /\ TreeIInv /\ ScopeIInv /\ PriceIInv
                     /\ SettingIInv /\ AccessIInv /\ ScreenIInv /\ ReportIInv
  BY InitCache, InitTree, InitScope, InitPrice, InitSetting, InitAccess,
     ScreenBegins, InitReport DEF RecordsInit
<1>2. ScopeIInv /\ [ScopeNext]_scopeVars => ScopeIInv'
  BY ScopeStep
<1>3. PriceIInv /\ [PriceNext]_priceVars => PriceIInv'
  BY PriceStep
<1>4. SettingIInv /\ [SettingNext]_settingVars => SettingIInv'
  BY SettingStep
<1> QED BY <1>1, <1>2, <1>3, <1>4, RecordsSteps, CacheStep, TreeStep, AccessStep, ScreenStep,
           ReportStep, PTL
        DEF RecordsSpec

(***************************************************************************)
(* Side by side, each of these components promises what it promises alone. *)
(***************************************************************************)
THEOREM RecordsCorrect ==
  RecordsSpec => [](/\ CacheInv /\ TreeInv /\ ScopeInv /\ PriceInv
                    /\ SettingInv /\ ScreenInv /\ ReportInv)
<1>1. ScopeIInv => ScopeInv
  BY ListedResolved DEF ScopeIInv, ScopeInv
<1>2. PriceIInv => PriceInv
  BY PriceHolds
<1>3. SettingIInv => SettingInv
  BY SettingHolds
<1> QED BY <1>1, <1>2, <1>3, RecordsInvariance, CacheHolds, TreeHolds,
           ScreenKept, ReportHolds, PTL

(***************************************************************************)
(* And so does every step: a reservation is covered by the records it is   *)
(* made under, an account by its creator's permissions.                    *)
(***************************************************************************)
THEOREM RecordsStand == RecordsSpec => ReservationsCovered /\ AccessSound
<1> QED BY ReservedLive, ReservedPriced, CreatedGranted, StrandedLate, RecordsSteps,
           RecordsInvariance, AccessHolds, PTL
        DEF RecordsSpec, ReservationsCovered, ReservedUnderLiveGrant, ReservedPriceWasAllowed,
            AccessSound, CreatedWithinCreator, StrandedOnlyLate
====
