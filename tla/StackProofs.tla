----------------------------- MODULE StackProofs -----------------------------
(***************************************************************************)
(* Theorems about the layers of Stack: those that remember something from  *)
(* one request to the next, the limiter, the two sessions and the bridge   *)
(* of a VM, and the routing of a request.  They hold for any number of     *)
(* requests, and whatever routes and pages there are.                      *)
(***************************************************************************)
EXTENDS Stack, SequenceTheorems, FiniteSetTheorems, WellFoundedInduction, TLAPS

-----------------------------------------------------------------------------
(* ratelimit: the bucket that pays for every request holds no more than any *)
(* bucket the middleware made.                                              *)

Bucket == [tokens : Int, at : Int, seen : Int]

LimitTypes ==
    /\ clock \in Int
    /\ buckets \in Seq(Bucket)
    /\ entry \in 0..Len(buckets)
    /\ using \in [Clients -> [at : {"idle", "loaded", "seen", "served", "refused"}, bucket : Nat]]
    /\ \A r \in Clients : UnderWay(r) => using[r].bucket \in DOMAIN buckets
    /\ level \in [tokens : Int, at : Int]

LevelLowest == \A i \in DOMAIN buckets : Tokens(level) <= Tokens(buckets[i])

LimitInv == LimitTypes /\ LevelLowest

\* What a bucket with t tokens at time a holds at time c.
Held(t, a, c) == IF t + Rps * (c - a) < Burst THEN t + Rps * (c - a) ELSE Burst

LEMMA RatesInt == Rps \in Int /\ Burst \in Int /\ Rps > 0 /\ Burst > 0
BY RateAssumption

LEMMA HeldInt == ASSUME NEW t \in Int, NEW a \in Int, NEW c \in Int
                 PROVE  Held(t, a, c) \in Int /\ Held(t, a, c) <= Burst
<1>1. Rps * (c - a) \in Int
  BY RatesInt
<1> QED
  BY <1>1, RatesInt DEF Held

\* A tick keeps the order of two buckets.
LEMMA HeldOneMoreTick ==
    ASSUME NEW t \in Int, NEW a \in Int, NEW u \in Int, NEW b \in Int, NEW c \in Int,
           Held(t, a, c) <= Held(u, b, c)
    PROVE  Held(t, a, c + 1) <= Held(u, b, c + 1)
<1> DEFINE x == Rps * (c - a)
           y == Rps * (c - b)
<1>1. x \in Int /\ y \in Int
  BY RatesInt
<1>2. Rps * (c + 1 - a) = x + Rps /\ Rps * (c + 1 - b) = y + Rps
  BY RatesInt, SMT
<1>3. Held(t, a, c) = IF t + x < Burst THEN t + x ELSE Burst
  BY DEF Held
<1>4. Held(u, b, c) = IF u + y < Burst THEN u + y ELSE Burst
  BY DEF Held
<1>5. Held(t, a, c + 1) = IF t + (x + Rps) < Burst THEN t + (x + Rps) ELSE Burst
  BY <1>1, <1>2, RatesInt DEF Held
<1>6. Held(u, b, c + 1) = IF u + (y + Rps) < Burst THEN u + (y + Rps) ELSE Burst
  BY <1>1, <1>2, RatesInt DEF Held
<1> HIDE DEF x, y
<1> QED
  BY <1>1, <1>3, <1>4, <1>5, <1>6, RatesInt, SMT

\* A bucket just taken from holds what was left.
LEMMA HeldNow == ASSUME NEW t \in Int, NEW c \in Int, t <= Burst PROVE Held(t, c, c) = t
<1>1. Rps * (c - c) = 0
  BY RatesInt, SMT
<1> QED
  BY <1>1, RatesInt DEF Held

\* One bucket of the list is replaced.
LEMMA Replaced ==
    ASSUME NEW S, NEW q \in Seq(S), NEW i \in DOMAIN q, NEW e \in S
    PROVE  LET t == [q EXCEPT ![i] = e]
           IN  /\ t \in Seq(S) /\ Len(t) = Len(q) /\ DOMAIN t = DOMAIN q /\ t[i] = e
               /\ \A j \in DOMAIN q \ {i} : t[j] = q[j]
OBVIOUS

LEMMA LimitInitially == LimitInit => LimitInv
<1> SUFFICES ASSUME LimitInit PROVE LimitInv
  OBVIOUS
<1>1. IdleTTL \in Int /\ Burst \in Int
  BY RateAssumption
<1>2. buckets = <<>> /\ Len(buckets) = 0 /\ DOMAIN buckets = {}
  BY DEF LimitInit
<1>3. LimitTypes
  BY <1>1, <1>2 DEF LimitInit, LimitTypes, UnderWay
<1> QED
  BY <1>2, <1>3 DEF LimitInv, LevelLowest

\* Every step of the limiter keeps the order.
LEMMA LimitStep == LimitInv /\ [LimitNext]_limitVars => LimitInv'
<1> SUFFICES ASSUME LimitTypes, LevelLowest, [LimitNext]_limitVars
             PROVE  LimitTypes' /\ LevelLowest'
  BY DEF LimitInv
<1> DEFINE L(c) == Held(level.tokens, level.at, c)
           B(i, c) == Held(buckets[i].tokens, buckets[i].at, c)
<1>0. /\ \A i \in DOMAIN buckets : /\ buckets[i] \in Bucket
                                   /\ buckets[i].tokens \in Int /\ buckets[i].at \in Int
      /\ level.tokens \in Int /\ level.at \in Int /\ clock \in Int
      /\ DOMAIN buckets = 1..Len(buckets) /\ Len(buckets) \in Nat
  <2>1. \A i \in DOMAIN buckets : buckets[i] \in Bucket
    BY DEF LimitTypes
  <2> QED
    BY <2>1 DEF LimitTypes, Bucket
<1>1. \A i \in DOMAIN buckets : L(clock) <= B(i, clock)
  BY DEF LevelLowest, Tokens, Held
<1>2. CASE Tick
  <2>1. LimitTypes'
    BY <1>0, <1>2 DEF Tick, LimitTypes, UnderWay
  <2>2. \A i \in DOMAIN buckets : L(clock + 1) <= B(i, clock + 1)
    BY <1>0, <1>1, HeldOneMoreTick
  <2>3. LevelLowest'
    BY <2>2, <1>2 DEF Tick, LevelLowest, Tokens, Held
  <2> QED
    BY <2>1, <2>3
<1>3. CASE BeginRound \/ CheckEntry
  BY <1>0, <1>3 DEF BeginRound, CheckEntry, LimitTypes, LevelLowest, Tokens, UnderWay
<1>4. CASE DeleteEntry
  BY <1>0, <1>4 DEF DeleteEntry, LimitTypes, LevelLowest, Tokens, UnderWay
<1>5. ASSUME NEW r \in Clients, LoadOrStore(r) PROVE LimitTypes' /\ LevelLowest'
  <2>1. CASE entry # 0
    <3>1. entry \in DOMAIN buckets /\ entry \in Nat
      BY <1>0, <2>1 DEF LimitTypes
    <3>2. /\ using' = [using EXCEPT ![r] = [at |-> "loaded", bucket |-> entry]]
          /\ UNCHANGED <<clock, sweeper, level, buckets, entry>>
      BY <1>5, <2>1 DEF LoadOrStore
    <3>3. LimitTypes'
      BY <3>1, <3>2 DEF LimitTypes, UnderWay
    <3>4. LevelLowest'
      BY <3>2 DEF LevelLowest, Tokens
    <3> QED
      BY <3>3, <3>4
  <2>2. CASE entry = 0
    <3>1. NewBucket \in Bucket /\ NewBucket.tokens = Burst /\ NewBucket.at = clock
      BY <1>0, RatesInt DEF NewBucket, Bucket
    <3>2. /\ buckets' = Append(buckets, NewBucket) /\ entry' = Len(buckets')
          /\ using' = [using EXCEPT ![r] = [at |-> "loaded", bucket |-> entry']]
          /\ UNCHANGED <<clock, sweeper, level>>
      BY <1>5, <2>2 DEF LoadOrStore
    <3>3. /\ buckets' \in Seq(Bucket) /\ Len(buckets') = Len(buckets) + 1
          /\ DOMAIN buckets' = 1..Len(buckets')
          /\ \A i \in DOMAIN buckets : buckets'[i] = buckets[i]
          /\ buckets'[Len(buckets')] = NewBucket
      BY <1>0, <3>1, <3>2 DEF LimitTypes
    <3>4. LimitTypes'
      BY <1>0, <3>2, <3>3 DEF LimitTypes, UnderWay
    <3>5. ASSUME NEW i \in DOMAIN buckets' PROVE (Tokens(level) <= Tokens(buckets[i]))'
      <4>1. CASE i \in DOMAIN buckets
        BY <4>1, <3>2, <3>3 DEF LevelLowest, Tokens
      <4>2. CASE i = Len(buckets')
        <5>1. Held(Burst, clock, clock) = Burst
          BY <1>0, RatesInt, HeldNow
        <5>2. L(clock) <= Burst
          BY <1>0, HeldInt
        <5>4. Tokens(level)' = L(clock)
          BY <3>2 DEF Tokens, Held
        <5> HIDE DEF L
        <5> QED
          BY <4>2, <5>1, <5>2, <5>4, <3>1, <3>2, <3>3 DEF Tokens, Held
      <4> QED
        BY <4>1, <4>2, <1>0, <3>3
    <3> QED
      BY <3>4, <3>5 DEF LevelLowest
  <2> QED
    BY <2>1, <2>2
<1>6. ASSUME NEW r \in Clients, StoreLastSeen(r) PROVE LimitTypes' /\ LevelLowest'
  <2> DEFINE b == using[r].bucket
  <2>1. b \in DOMAIN buckets
    BY <1>6 DEF StoreLastSeen, LimitTypes, UnderWay
  <2>2. /\ using' = [using EXCEPT ![r].at = "seen"]
        /\ buckets' = [buckets EXCEPT ![b].seen = clock]
        /\ UNCHANGED <<clock, entry, sweeper, level>>
    BY <1>6 DEF StoreLastSeen
  <2>3. /\ buckets' \in Seq(Bucket) /\ Len(buckets') = Len(buckets)
        /\ DOMAIN buckets' = DOMAIN buckets
        /\ \A i \in DOMAIN buckets : /\ buckets'[i].tokens = buckets[i].tokens
                                     /\ buckets'[i].at = buckets[i].at
    <3> DEFINE e == [buckets[b] EXCEPT !.seen = clock]
    <3>1. e \in Bucket /\ e.tokens = buckets[b].tokens /\ e.at = buckets[b].at
      BY <1>0, <2>1 DEF Bucket
    <3>2. buckets' = [buckets EXCEPT ![b] = e]
      BY <2>2
    <3> HIDE DEF e
    <3> QED
      BY <2>1, <3>1, <3>2, Replaced DEF LimitTypes
  <2>4. LimitTypes'
    BY <1>0, <2>1, <2>2, <2>3 DEF LimitTypes, UnderWay
  <2>5. LevelLowest'
    BY <2>2, <2>3 DEF LevelLowest, Tokens
  <2> QED
    BY <2>4, <2>5
<1>7. ASSUME NEW r \in Clients, Allow(r) PROVE LimitTypes' /\ LevelLowest'
  <2> DEFINE b == using[r].bucket
             n == Tokens(buckets[b])
             m == Tokens(level)
  <2>1. b \in DOMAIN buckets
    BY <1>7 DEF Allow, LimitTypes, UnderWay
  <2>2. /\ n \in Int /\ m \in Int /\ n <= Burst /\ m <= Burst /\ m <= n
        /\ n = B(b, clock) /\ m = L(clock)
    BY <1>0, <1>1, <2>1, HeldInt DEF Tokens, Held
  <2>3. CASE n >= 1
    <3>1. /\ buckets' = [buckets EXCEPT ![b].tokens = n - 1, ![b].at = clock]
          /\ level' = [tokens |-> m - 1, at |-> clock]
          /\ using' = [using EXCEPT ![r] = [at |-> "served", bucket |-> 0]]
          /\ UNCHANGED <<clock, entry, sweeper>>
      BY <1>7, <2>3 DEF Allow
    <3> HIDE DEF n, m
    <3>2. /\ buckets' \in Seq(Bucket) /\ Len(buckets') = Len(buckets)
          /\ DOMAIN buckets' = DOMAIN buckets
          /\ \A i \in DOMAIN buckets \ {b} : buckets'[i] = buckets[i]
          /\ buckets'[b].tokens = n - 1 /\ buckets'[b].at = clock
      <4> DEFINE e == [buckets[b] EXCEPT !.tokens = n - 1, !.at = clock]
      <4>1. e \in Bucket /\ e.tokens = n - 1 /\ e.at = clock
        <5>1. buckets[b] \in Bucket /\ clock \in Int /\ n - 1 \in Int
          BY <1>0, <2>1, <2>2
        <5> HIDE DEF b
        <5> QED
          BY <5>1 DEF Bucket
      <4>2. buckets' = [buckets EXCEPT ![b] = e]
        BY <3>1
      <4>3. buckets \in Seq(Bucket)
        BY DEF LimitTypes
      <4> HIDE DEF e, b
      <4>4. /\ [buckets EXCEPT ![b] = e] \in Seq(Bucket)
            /\ Len([buckets EXCEPT ![b] = e]) = Len(buckets)
            /\ DOMAIN [buckets EXCEPT ![b] = e] = DOMAIN buckets
            /\ [buckets EXCEPT ![b] = e][b] = e
            /\ \A j \in DOMAIN buckets \ {b} : [buckets EXCEPT ![b] = e][j] = buckets[j]
        BY <2>1, <4>1, <4>3, Replaced
      <4> QED
        BY <4>1, <4>2, <4>4
    <3>3. LimitTypes'
      <4>1. level' \in [tokens : Int, at : Int]
        BY <1>0, <2>2, <3>1 DEF LimitTypes
      <4>2. /\ using' \in [Clients -> [at : {"idle", "loaded", "seen", "served", "refused"}, bucket : Nat]]
            /\ \A q \in Clients : UnderWay(q)' => UnderWay(q) /\ using'[q] = using[q]
        BY <3>1 DEF LimitTypes, UnderWay
      <4> QED
        BY <3>1, <3>2, <4>1, <4>2 DEF LimitTypes
    <3>4. Held(n - 1, clock, clock) = n - 1 /\ Held(m - 1, clock, clock) = m - 1
      BY <1>0, <2>2, RatesInt, HeldNow
    <3>5. Tokens(level)' = m - 1
      BY <3>1, <3>4 DEF Tokens, Held
    <3>6. ASSUME NEW i \in DOMAIN buckets PROVE (Tokens(level) <= Tokens(buckets[i]))'
      <4>1. CASE i = b
        <5>1. /\ clock' = clock
              /\ Tokens(buckets[i])' = Held(buckets'[i].tokens, buckets'[i].at, clock')
          BY <3>1 DEF Tokens, Held
        <5>2. Tokens(buckets[i])' = n - 1
          BY <4>1, <5>1, <3>2, <3>4
        <5> QED
          BY <5>2, <3>5, <2>2
      <4>2. CASE i # b
        <5>1. Tokens(buckets[i])' = B(i, clock)
          BY <3>1, <3>2, <4>2 DEF Tokens, Held
        <5>2. m <= B(i, clock) /\ B(i, clock) \in Int
          BY <1>0, <1>1, <2>2, HeldInt
        <5> HIDE DEF B
        <5> QED
          BY <5>1, <5>2, <3>5, <2>2
      <4> QED
        BY <4>1, <4>2
    <3> QED
      BY <3>2, <3>3, <3>6 DEF LevelLowest
  <2>4. CASE ~(n >= 1)
    <3>1. /\ using' = [using EXCEPT ![r] = [at |-> "refused", bucket |-> 0]]
          /\ UNCHANGED <<clock, entry, sweeper, buckets, level>>
      BY <1>7, <2>4 DEF Allow
    <3> QED
      BY <1>0, <3>1 DEF LimitTypes, LevelLowest, Tokens, UnderWay
  <2> QED
    BY <2>3, <2>4
<1>8. CASE UNCHANGED limitVars
  BY <1>8 DEF limitVars, LimitTypes, LevelLowest, Tokens, UnderWay
<1> QED
  BY <1>2, <1>3, <1>4, <1>5, <1>6, <1>7, <1>8 DEF LimitNext

\* ratelimit refuses a request only when the bucket that is never forgotten is
\* empty too, for any rates and any number of requests beside the sweeper.
THEOREM ForgettingIsFree == LimitSpec => NeverStricter
<1>1. LimitInv /\ [LimitNext]_limitVars =>
        \A r \in Clients : using[r].at = "seen" /\ using'[r].at = "refused" => Tokens(level) < 1
  <2> SUFFICES ASSUME LimitInv, [LimitNext]_limitVars, NEW r \in Clients,
                      using[r].at = "seen", using'[r].at = "refused"
               PROVE  Tokens(level) < 1
    OBVIOUS
  <2>1. Allow(r)
    BY DEF LimitNext, limitVars, LimitInv, LimitTypes, Tick, BeginRound, CheckEntry, DeleteEntry,
           LoadOrStore, StoreLastSeen, Allow, UnderWay
  <2>2. using[r].bucket \in DOMAIN buckets /\ using \in [Clients -> [at : {"idle", "loaded", "seen", "served", "refused"}, bucket : Nat]]
    BY DEF LimitInv, LimitTypes, UnderWay
  <2>3. Tokens(level) <= Tokens(buckets[using[r].bucket])
    BY <2>2 DEF LimitInv, LevelLowest
  <2>4. ~(Tokens(buckets[using[r].bucket]) >= 1)
    BY <2>1, <2>2 DEF Allow
  <2>5. Tokens(level) \in Int /\ Tokens(buckets[using[r].bucket]) \in Int
    <3>1. buckets[using[r].bucket] \in Bucket
      BY <2>2 DEF LimitInv, LimitTypes
    <3> QED
      BY <3>1, HeldInt DEF LimitInv, LimitTypes, Bucket, Tokens, Held
  <2> QED
    BY <2>3, <2>4, <2>5
<1> QED
  BY <1>1, LimitInitially, LimitStep, PTL DEF LimitSpec, NeverStricter

-----------------------------------------------------------------------------
(* ratelimit: a client whose bucket refills between two rounds is no more   *)
(* than a burst ahead.  A round of the sweeper gives back at most what the  *)
(* bucket it forgets is short of, and the next round does not come before   *)
(* the bucket that pays for every request has made up for that.             *)

\* What the bucket in the map holds: a new one, if there is none.
Has == IF entry = 0 THEN Burst ELSE Tokens(buckets[entry])

\* The bucket in the map is new: nobody has stored its lastSeen yet.
Unseen == entry # 0 /\ buckets[entry].seen = 0

\* A request whose bucket the sweeper took out of the map.
Parted(r) == UnderWay(r) /\ using[r].bucket # entry

\* The number of the last round that is over.
LastRound == IF sweeper.at = "waiting" THEN sweeper.ticks ELSE sweeper.ticks - 1

Times ==
    /\ sweeper \in [at : {"waiting", "checking", "deleting"}, cutoff : Int, ticks : Nat]
    /\ clock > 0
    /\ \A i \in DOMAIN buckets : buckets[i].tokens \in 0..Burst /\ buckets[i].at <= clock
    /\ level.tokens <= Burst /\ level.at <= clock
    /\ sweeper.ticks * SweepInterval <= clock /\ clock <= (sweeper.ticks + 1) * SweepInterval
    /\ sweeper.at # "waiting" =>
         clock = sweeper.ticks * SweepInterval /\ sweeper.cutoff = clock - IdleTTL

LastSeen ==
    /\ \A r \in Clients : using[r].at = "seen" => buckets[using[r].bucket].seen = clock
    /\ Unseen => /\ buckets[entry].tokens = Burst /\ buckets[entry].at = clock
                /\ \E r \in Clients : using[r].at = "loaded" /\ using[r].bucket = entry
    /\ entry # 0 /\ ~Unseen => level.at <= buckets[entry].seen

\* Requests part from the map only in a round, all from one bucket; what that
\* bucket and the one in the map hold together is at most a burst ahead.
PartedInv ==
    \A r \in Clients : Parted(r) =>
        /\ sweeper.at = "waiting" /\ clock = sweeper.ticks * SweepInterval
        /\ entry # 0 => buckets[entry].seen \in {0, clock}
        /\ \A q \in Clients : Parted(q) => using[q].bucket = using[r].bucket
        /\ Has + Tokens(buckets[using[r].bucket]) - Tokens(level) <= Burst

\* Ahead of the one bucket by a burst and no more; and once a client is forgotten,
\* the one bucket catches up with every tick since the round that forgot it.
Ahead ==
    /\ level.tokens >= -Burst
    /\ Has - Tokens(level) <= Burst
    /\ sweeper.at = "deleting" => entry # 0 /\ Has <= Tokens(level)
    /\ (entry = 0 \/ Unseen) /\ sweeper.at # "deleting" =>
          \/ Tokens(level) = Burst
          \/ Tokens(level) >= Rps * (clock - LastRound * SweepInterval)

Refills == Burst <= Rps * SweepInterval

AheadInv == Times /\ LastSeen /\ PartedInv /\ Ahead

LEMMA SweepsInt == /\ SweepInterval \in Nat /\ SweepInterval > 0 /\ IdleTTL \in Nat
                   /\ 2 * SweepInterval <= IdleTTL
BY RateAssumption

LEMMA Divided == ASSUME NEW c \in Nat, NEW s \in Nat, s > 0
                 PROVE  c \div s \in Nat /\ (c \div s) * s <= c /\ c < (c \div s) * s + s
BY SMT

\* The ticker of the sweeper: how many intervals have passed by a time.
LEMMA Rounds ==
    ASSUME NEW c \in Nat, NEW s \in Nat, s > 0, NEW t \in Nat, t * s <= c
    PROVE  /\ c \div s <= t => c + 1 <= (t + 1) * s
           /\ c \div s > t /\ c <= (t + 1) * s => c = (t + 1) * s /\ c \div s = t + 1
<1> DEFINE d == c \div s
<1>1. d \in Nat /\ d * s <= c /\ c < d * s + s
  BY Divided
<1> HIDE DEF d
<1>2. (t + 1) * s = t * s + s /\ t * s \in Nat /\ d * s \in Nat
  BY <1>1, SMT
<1>3. ASSUME d <= t PROVE d * s <= t * s
  BY <1>1, <1>3, SMT
<1>4. ASSUME d > t PROVE d * s >= t * s + s
  <2>1. d * s >= (t + 1) * s
    BY <1>1, <1>4, SMT
  <2> QED
    BY <2>1, <1>2
<1>5. ASSUME d > t + 1 PROVE d * s >= t * s + 2 * s
  <2>1. d * s >= (t + 2) * s
    BY <1>1, <1>5, SMT
  <2>2. (t + 2) * s = t * s + 2 * s
    BY SMT
  <2> QED
    BY <2>1, <2>2
<1>6. d <= t => c + 1 <= (t + 1) * s
  BY <1>1, <1>2, <1>3
<1>7. ASSUME d > t, c <= (t + 1) * s PROVE c = (t + 1) * s /\ d = t + 1
  <2>1. d * s = t * s + s
    BY <1>1, <1>2, <1>4, <1>7
  <2>2. ~(d > t + 1)
    BY <1>2, <1>5, <2>1
  <2> QED
    BY <1>1, <1>2, <1>7, <2>1, <2>2
<1> QED
  BY <1>6, <1>7 DEF d

LEMMA Scaled == ASSUME NEW r \in Int, NEW m \in Int, NEW n \in Int, r > 0, m >= n
                PROVE  r * m \in Int /\ r * n \in Int /\ r * m >= r * n
BY SMT

LEMMA HeldPositive == ASSUME NEW t \in Int, NEW a \in Int, NEW c \in Int, t >= 0, a <= c
                      PROVE  Held(t, a, c) >= 0
<1>1. Rps * (c - a) \in Int /\ Rps * (c - a) >= 0
  BY RatesInt, SMT
<1> QED
  BY <1>1, RatesInt DEF Held

\* A bucket gets Rps tokens per tick until it is full.
LEMMA HeldRefills ==
    ASSUME NEW t \in Int, NEW a \in Int, NEW c \in Int
    PROVE  \/ Held(t, a, c) = Burst /\ Held(t, a, c + 1) = Burst
           \/ /\ Held(t, a, c) < Burst
              /\ Held(t, a, c + 1) = Burst \/ Held(t, a, c + 1) = Held(t, a, c) + Rps
              /\ Held(t, a, c + 1) <= Held(t, a, c) + Rps
              /\ Held(t, a, c + 1) >= Held(t, a, c)
<1> DEFINE x == Rps * (c - a)
<1>1. x \in Int
  BY RatesInt
<1>2. Rps * (c + 1 - a) = x + Rps
  BY RatesInt, SMT
<1>3. Held(t, a, c) = IF t + x < Burst THEN t + x ELSE Burst
  BY DEF Held
<1>4. Held(t, a, c + 1) = IF t + (x + Rps) < Burst THEN t + (x + Rps) ELSE Burst
  BY <1>1, <1>2, RatesInt DEF Held
<1> HIDE DEF x
<1> QED
  BY <1>1, <1>3, <1>4, RatesInt

\* One that is a burst short is full after the time a client may be idle.
LEMMA HeldAfterIdle ==
    ASSUME NEW t \in Int, NEW a \in Int, NEW c \in Int, t >= -Burst, a < c - IdleTTL, Refills
    PROVE  Held(t, a, c) = Burst
<1> DEFINE x == Rps * (c - a)
           y == Rps * SweepInterval
<1>1. x \in Int /\ y \in Int /\ Burst <= y
  BY RatesInt, SweepsInt DEF Refills
<1>2. c - a >= 2 * SweepInterval /\ c - a \in Int
  BY SweepsInt
<1>3. x >= Rps * (2 * SweepInterval)
  BY <1>2, RatesInt, SweepsInt, Scaled
<1>4. Rps * (2 * SweepInterval) = 2 * y
  BY RatesInt, SweepsInt, SMT
<1>5. Held(t, a, c) = IF t + x < Burst THEN t + x ELSE Burst
  BY DEF Held
<1> HIDE DEF x, y
<1> QED
  BY <1>1, <1>3, <1>4, <1>5, RatesInt

\* What the buckets hold are numbers between nothing and a burst.
LEMMA Holdings ==
    ASSUME LimitTypes, Times
    PROVE  /\ \A i \in DOMAIN buckets : Tokens(buckets[i]) \in 0..Burst
           /\ Tokens(level) \in Int /\ Tokens(level) <= Burst
           /\ Has \in 0..Burst
           /\ clock \in Nat /\ entry \in Nat
           /\ entry # 0 => entry \in DOMAIN buckets
           /\ \A r \in Clients : UnderWay(r) => using[r].bucket \in DOMAIN buckets /\ using[r].bucket # 0
           /\ \A i \in DOMAIN buckets : buckets[i] \in Bucket /\ i \in Nat \ {0}
           /\ level.tokens \in Int /\ level.at \in Int
<1>1. /\ level.tokens \in Int /\ level.at \in Int /\ clock \in Nat /\ entry \in Nat
      /\ DOMAIN buckets = 1..Len(buckets) /\ Len(buckets) \in Nat
      /\ \A i \in DOMAIN buckets : buckets[i] \in Bucket
  BY DEF LimitTypes, Times
<1>2. ASSUME NEW i \in DOMAIN buckets PROVE Tokens(buckets[i]) \in 0..Burst
  <2>1. /\ buckets[i].tokens \in Int /\ buckets[i].at \in Int /\ clock \in Int
        /\ buckets[i].tokens >= 0 /\ buckets[i].at <= clock
    BY <1>1, <1>2, RatesInt DEF Bucket, Times
  <2>2. Tokens(buckets[i]) = Held(buckets[i].tokens, buckets[i].at, clock)
    BY DEF Tokens, Held
  <2>3. /\ Held(buckets[i].tokens, buckets[i].at, clock) \in Int
        /\ Held(buckets[i].tokens, buckets[i].at, clock) <= Burst
    BY <2>1, HeldInt
  <2>4. Held(buckets[i].tokens, buckets[i].at, clock) >= 0
    BY <2>1, HeldPositive
  <2> QED
    BY <2>2, <2>3, <2>4, RatesInt
<1>3. Tokens(level) = Held(level.tokens, level.at, clock)
  BY DEF Tokens, Held
<1>4. entry # 0 => entry \in DOMAIN buckets
  BY <1>1 DEF LimitTypes
<1>5. Has \in 0..Burst
  BY <1>2, <1>4, RatesInt DEF Has
<1>6. Tokens(level) \in Int /\ Tokens(level) <= Burst
  <2>1. level.tokens \in Int /\ level.at \in Int /\ clock \in Int
    BY <1>1
  <2>2. /\ Held(level.tokens, level.at, clock) \in Int
        /\ Held(level.tokens, level.at, clock) <= Burst
    BY <2>1, HeldInt
  <2> QED
    BY <1>3, <2>2
<1>7. \A r \in Clients : UnderWay(r) => using[r].bucket \in DOMAIN buckets
  BY DEF LimitTypes
<1>8. \A i \in DOMAIN buckets : i \in Nat \ {0}
  BY <1>1
<1> QED
  BY <1>1, <1>2, <1>4, <1>5, <1>6, <1>7, <1>8

LEMMA AheadInitially == LimitInit /\ Refills => AheadInv
<1> SUFFICES ASSUME LimitInit, Refills PROVE AheadInv
  OBVIOUS
<1> DEFINE t == IdleTTL \div SweepInterval
<1>1. /\ buckets = <<>> /\ entry = 0 /\ clock = IdleTTL
      /\ using = [r \in Clients |-> [at |-> "idle", bucket |-> 0]]
      /\ sweeper = [at |-> "waiting", cutoff |-> 0, ticks |-> t]
      /\ level = [tokens |-> Burst, at |-> IdleTTL]
  BY DEF LimitInit
<1>2. t \in Nat /\ t * SweepInterval <= clock /\ clock < t * SweepInterval + SweepInterval
  BY <1>1, SweepsInt, Divided
<1> HIDE DEF t
<1>3. (t + 1) * SweepInterval = t * SweepInterval + SweepInterval /\ t * SweepInterval \in Nat
  BY <1>2, SweepsInt, SMT
<1>4. Times
  <2>1. DOMAIN buckets = {}
    BY <1>1
  <2> QED
    BY <1>1, <1>2, <1>3, <2>1, SweepsInt, RatesInt DEF Times
<1>5. Tokens(level) = Burst /\ Has = Burst
  <2>1. Held(Burst, IdleTTL, IdleTTL) = Burst
    BY RatesInt, SweepsInt, HeldNow
  <2> QED
    BY <1>1, <2>1 DEF Tokens, Held, Has
<1>6. \A r \in Clients : ~UnderWay(r) /\ using[r].at # "seen"
  BY <1>1 DEF UnderWay
<1>7. LastSeen /\ PartedInv
  BY <1>1, <1>6 DEF LastSeen, PartedInv, Parted, Unseen
<1>8. Ahead
  BY <1>1, <1>5, RatesInt DEF Ahead
<1> QED
  BY <1>4, <1>7, <1>8 DEF AheadInv

LEMMA AheadTick == ASSUME LimitTypes, AheadInv, Tick PROVE AheadInv'
<1> USE DEF AheadInv
<1>1. /\ clock' = clock + 1 /\ UNCHANGED <<buckets, entry, using, sweeper, level>>
      /\ \A r \in Clients : ~UnderWay(r) /\ using[r].at # "seen" /\ using[r].at # "loaded"
      /\ sweeper.at = "waiting" /\ ~Due
  BY DEF Tick, UnderWay
<1>2. /\ Has \in 0..Burst /\ Tokens(level) \in Int /\ Tokens(level) <= Burst /\ clock \in Nat
      /\ level.tokens \in Int /\ level.at \in Int /\ clock \in Int
      /\ entry # 0 => entry \in DOMAIN buckets /\ buckets[entry] \in Bucket
  BY Holdings
<1>3. sweeper.ticks \in Nat /\ sweeper.ticks * SweepInterval <= clock
  BY DEF Times
<1>4. clock + 1 <= (sweeper.ticks + 1) * SweepInterval
  BY <1>1, <1>2, <1>3, Rounds, SweepsInt DEF Due
<1>5. ~Unseen /\ ~Unseen'
  BY <1>1 DEF Unseen, LastSeen
<1>6. Times'
  <2>1. sweeper.ticks * SweepInterval \in Int
    BY <1>3, SweepsInt
  <2>2. \A i \in DOMAIN buckets : buckets[i].at \in Int
    BY Holdings DEF Bucket
  <2> QED
    BY <1>1, <1>2, <1>3, <1>4, <2>1, <2>2 DEF Times
<1>7. LastSeen' /\ PartedInv'
  BY <1>1, <1>5 DEF LastSeen, PartedInv, Parted, Unseen, UnderWay
<1>8. \/ Tokens(level) = Burst /\ Tokens(level)' = Burst
      \/ /\ Tokens(level) < Burst
         /\ Tokens(level)' = Burst \/ Tokens(level)' = Tokens(level) + Rps
         /\ Tokens(level)' <= Tokens(level) + Rps
         /\ Tokens(level)' >= Tokens(level)
  <2>1. /\ Tokens(level) = Held(level.tokens, level.at, clock)
        /\ Tokens(level)' = Held(level.tokens, level.at, clock + 1)
    BY <1>1 DEF Tokens, Held
  <2> QED
    BY <1>2, <2>1, HeldRefills
<1>9. \/ Has' = Burst /\ Has = Burst
      \/ Has' <= Has + Rps /\ Has' \in Int /\ Has' <= Burst
  <2>1. CASE entry = 0
    BY <1>1, <2>1 DEF Has
  <2>2. CASE entry # 0
    <3>1. /\ Has = Held(buckets[entry].tokens, buckets[entry].at, clock)
          /\ Has' = Held(buckets[entry].tokens, buckets[entry].at, clock + 1)
      BY <1>1, <2>2 DEF Has, Tokens, Held
    <3>2. buckets[entry].tokens \in Int /\ buckets[entry].at \in Int /\ clock + 1 \in Int
      BY <1>2, <2>2 DEF Bucket
    <3>3. /\ Held(buckets[entry].tokens, buckets[entry].at, clock + 1) \in Int
          /\ Held(buckets[entry].tokens, buckets[entry].at, clock + 1) <= Burst
      BY <3>2, HeldInt
    <3>4. \/ /\ Held(buckets[entry].tokens, buckets[entry].at, clock) = Burst
             /\ Held(buckets[entry].tokens, buckets[entry].at, clock + 1) = Burst
          \/ Held(buckets[entry].tokens, buckets[entry].at, clock + 1)
               <= Held(buckets[entry].tokens, buckets[entry].at, clock) + Rps
      BY <1>2, <3>2, HeldRefills
    <3> QED
      BY <3>1, <3>3, <3>4
  <2> QED
    BY <2>1, <2>2
<1>10. Has - Tokens(level) <= Burst
  BY DEF Ahead
<1>11. Has' - Tokens(level)' <= Burst
  BY <1>2, <1>8, <1>9, <1>10, RatesInt
<1>12. ASSUME (entry = 0 \/ Unseen)'
       PROVE  \/ Tokens(level)' = Burst
              \/ Tokens(level)' >= Rps * (clock' - LastRound' * SweepInterval)
  <2> DEFINE x == Rps * (clock - sweeper.ticks * SweepInterval)
  <2>1. \/ Tokens(level) = Burst \/ Tokens(level) >= x
    BY <1>1, <1>5, <1>12 DEF Ahead, LastRound
  <2>2. x \in Int
    BY <1>2, <1>3, RatesInt, SweepsInt
  <2>3. Rps * (clock + 1 - sweeper.ticks * SweepInterval) = x + Rps
    <3> DEFINE y == sweeper.ticks * SweepInterval
    <3>1. y \in Int
      BY <1>3, SweepsInt
    <3> HIDE DEF y
    <3>2. Rps * (clock + 1 - y) = Rps * (clock - y) + Rps
      BY <1>2, <3>1, RatesInt, SMT
    <3> QED
      BY <3>2 DEF y
  <2>4. clock' - LastRound' * SweepInterval = clock + 1 - sweeper.ticks * SweepInterval
    <3>1. clock' = clock + 1 /\ LastRound' = sweeper.ticks
      BY <1>1 DEF LastRound
    <3> QED
      BY <1>2, <1>3, <3>1, SweepsInt
  <2> HIDE DEF x
  <2> QED
    BY <1>2, <1>8, <2>1, <2>2, <2>3, <2>4, RatesInt
<1>13. Ahead'
  BY <1>1, <1>11, <1>12 DEF Ahead
<1> QED
  BY <1>6, <1>7, <1>13

\* While the sweeper is in a round, no request has parted from the map.
LEMMA RoundHoldsAll ==
    ASSUME PartedInv, sweeper.at # "waiting" \/ clock # sweeper.ticks * SweepInterval
    PROVE  \A r \in Clients : ~Parted(r)
BY DEF PartedInv

LEMMA AheadBeginRound == ASSUME LimitTypes, AheadInv, BeginRound PROVE AheadInv'
<1> USE DEF AheadInv
<1> DEFINE T == sweeper.ticks
           S == SweepInterval
<1>1. /\ sweeper.at = "waiting" /\ clock \div S > T
      /\ sweeper' = [at |-> "checking", cutoff |-> clock - IdleTTL, ticks |-> clock \div S]
      /\ UNCHANGED <<clock, buckets, entry, using, level>>
  BY DEF BeginRound, Due
<1>2. clock \in Nat /\ T \in Nat /\ T * S <= clock /\ clock <= (T + 1) * S
  BY Holdings DEF Times
<1>3. clock = (T + 1) * S /\ clock \div S = T + 1
  BY <1>1, <1>2, Rounds, SweepsInt
<1>4. (T + 1) * S = T * S + S /\ (T + 1 + 1) * S = T * S + S + S /\ T * S \in Nat
  BY <1>2, SweepsInt, SMT
<1>5. \A r \in Clients : ~Parted(r)
  <2>1. clock # T * S
    BY <1>2, <1>3, <1>4, SweepsInt
  <2> QED
    BY <2>1, RoundHoldsAll
<1>6. /\ sweeper'.at = "checking" /\ sweeper'.cutoff = clock - IdleTTL /\ sweeper'.ticks = T + 1
      /\ sweeper' \in [at : {"waiting", "checking", "deleting"}, cutoff : Int, ticks : Nat]
  BY <1>1, <1>2, <1>3, SweepsInt
<1> HIDE DEF T, S
<1>7. sweeper'.ticks * S <= clock /\ clock <= (sweeper'.ticks + 1) * S /\ clock = sweeper'.ticks * S
  BY <1>2, <1>3, <1>4, <1>6, SweepsInt DEF S
<1>8. Times'
  BY <1>1, <1>6, <1>7 DEF Times, S
<1>9. LastSeen' /\ PartedInv'
  BY <1>1, <1>5 DEF LastSeen, PartedInv, Parted, Unseen, UnderWay
<1>10. Has' = Has /\ Tokens(level)' = Tokens(level)
  BY <1>1 DEF Has, Tokens
<1>11. LastRound' = LastRound
  BY <1>1, <1>2, <1>6 DEF LastRound, T
<1>12. Ahead'
  BY <1>1, <1>6, <1>10, <1>11 DEF Ahead, Unseen
<1> QED
  BY <1>8, <1>9, <1>12

\* A client is forgotten only when the one bucket is full again, or the bucket in
\* the map holds no more than it.
LEMMA AheadCheckEntry == ASSUME LimitTypes, AheadInv, Refills, CheckEntry PROVE AheadInv'
<1> USE DEF AheadInv
<1> DEFINE due == entry # 0 /\ buckets[entry].seen < sweeper.cutoff
<1>1. /\ sweeper.at = "checking"
      /\ sweeper' = [sweeper EXCEPT !.at = IF due THEN "deleting" ELSE "waiting"]
      /\ UNCHANGED <<clock, buckets, entry, using, level>>
  BY DEF CheckEntry
<1>2. sweeper \in [at : {"waiting", "checking", "deleting"}, cutoff : Int, ticks : Nat]
  BY DEF Times
<1>3. /\ sweeper'.at = IF due THEN "deleting" ELSE "waiting"
      /\ sweeper'.ticks = sweeper.ticks /\ sweeper'.cutoff = sweeper.cutoff
      /\ sweeper' \in [at : {"waiting", "checking", "deleting"}, cutoff : Int, ticks : Nat]
  <2> HIDE DEF due
  <2> QED
    BY <1>1, <1>2
<1>4. /\ clock = sweeper.ticks * SweepInterval /\ sweeper.cutoff = clock - IdleTTL
      /\ sweeper.ticks \in Nat /\ clock \in Nat
  BY <1>1, <1>2, Holdings DEF Times
<1>5. \A r \in Clients : ~Parted(r)
  BY <1>1, RoundHoldsAll
<1>6. Times'
  BY <1>1, <1>3, <1>4 DEF Times
<1>7. LastSeen' /\ PartedInv'
  BY <1>1, <1>5 DEF LastSeen, PartedInv, Parted, Unseen, UnderWay
<1>8. Has' = Has /\ Tokens(level)' = Tokens(level) /\ (Unseen' <=> Unseen)
  BY <1>1 DEF Has, Tokens, Unseen
<1>9. /\ Has \in 0..Burst /\ Tokens(level) \in Int /\ Tokens(level) <= Burst
      /\ level.tokens \in Int /\ level.at \in Int
      /\ entry # 0 => entry \in DOMAIN buckets /\ buckets[entry].seen \in Int
  BY Holdings DEF Bucket
<1>10. level.tokens >= -Burst /\ Has - Tokens(level) <= Burst
  BY DEF Ahead
<1>11. ASSUME due PROVE Tokens(level) = Burst
  <2>1. CASE Unseen
    <3>1. LastRound = sweeper.ticks - 1
      BY <1>1 DEF LastRound
    <3>2. \/ Tokens(level) = Burst
          \/ Tokens(level) >= Rps * (clock - (sweeper.ticks - 1) * SweepInterval)
      BY <1>1, <2>1, <3>1 DEF Ahead
    <3>3. clock - (sweeper.ticks - 1) * SweepInterval = SweepInterval
      BY <1>4, SweepsInt, SMT
    <3>4. Rps * SweepInterval \in Int /\ Burst <= Rps * SweepInterval
      BY RatesInt, SweepsInt DEF Refills
    <3> QED
      BY <1>9, <3>2, <3>3, <3>4, RatesInt
  <2>2. CASE ~Unseen
    <3>1. level.at <= buckets[entry].seen
      BY <1>11, <2>2 DEF LastSeen
    <3>2. level.at < clock - IdleTTL
      BY <1>4, <1>9, <1>11, <3>1, SweepsInt
    <3>3. Tokens(level) = Held(level.tokens, level.at, clock)
      BY DEF Tokens, Held
    <3>4. clock \in Int
      BY <1>4
    <3>5. Held(level.tokens, level.at, clock) = Burst
      BY <1>9, <1>10, <3>2, <3>4, HeldAfterIdle
    <3> QED
      BY <3>3, <3>5
  <2> QED
    BY <2>1, <2>2
<1>12. ASSUME ~due, entry = 0 \/ Unseen
       PROVE  Tokens(level) >= Rps * (clock - LastRound' * SweepInterval)
  <2>1. LastRound' = sweeper.ticks
    BY <1>3, <1>12 DEF LastRound
  <2>2. Has = Burst
    <3>1. CASE Unseen
      <4>1. Held(Burst, clock, clock) = Burst
        BY <1>4, RatesInt, HeldNow
      <4> QED
        BY <3>1, <4>1 DEF Unseen, LastSeen, Has, Tokens, Held
    <3> QED
      BY <3>1, <1>12 DEF Has
  <2>3. Rps * (clock - sweeper.ticks * SweepInterval) = 0
    <3>1. clock - sweeper.ticks * SweepInterval = 0
      BY <1>4
    <3> QED
      BY <3>1, RatesInt
  <2> QED
    BY <1>9, <1>10, <2>1, <2>2, <2>3, RatesInt
<1>13. Ahead'
  <2>1. CASE due
    <3>1. sweeper'.at = "deleting" /\ entry # 0
      BY <1>3, <2>1
    <3> QED
      BY <1>1, <1>8, <1>9, <1>10, <1>11, <2>1, <3>1 DEF Ahead
  <2>2. CASE ~due
    <3>1. sweeper'.at = "waiting"
      BY <1>3, <2>2
    <3> QED
      BY <1>1, <1>8, <1>10, <1>12, <2>2, <3>1 DEF Ahead
  <2> QED
    BY <2>1, <2>2
<1> QED
  BY <1>6, <1>7, <1>13

\* The requests that the sweeper parts from the map all use the bucket it takes out.
LEMMA AheadDeleteEntry == ASSUME LimitTypes, AheadInv, DeleteEntry PROVE AheadInv'
<1> USE DEF AheadInv
<1>1. /\ sweeper.at = "deleting"
      /\ sweeper' = [sweeper EXCEPT !.at = "waiting"]
      /\ entry' = 0 /\ UNCHANGED <<clock, buckets, using, level>>
  BY DEF DeleteEntry
<1>2. sweeper \in [at : {"waiting", "checking", "deleting"}, cutoff : Int, ticks : Nat]
  BY DEF Times
<1>3. /\ sweeper'.at = "waiting"
      /\ sweeper'.ticks = sweeper.ticks /\ sweeper'.cutoff = sweeper.cutoff
      /\ sweeper' \in [at : {"waiting", "checking", "deleting"}, cutoff : Int, ticks : Nat]
  BY <1>1, <1>2
<1>4. clock = sweeper.ticks * SweepInterval /\ sweeper.ticks \in Nat /\ clock \in Nat
  BY <1>1, <1>2, Holdings DEF Times
<1>5. \A r \in Clients : ~Parted(r)
  BY <1>1, RoundHoldsAll
<1>6. /\ Has \in 0..Burst /\ Tokens(level) \in Int /\ entry # 0 /\ Has <= Tokens(level)
      /\ Has = Tokens(buckets[entry])
  BY <1>1, Holdings DEF Ahead, Has
<1>7. Times'
  BY <1>1, <1>3, <1>4 DEF Times
<1>8. LastSeen'
  BY <1>1 DEF LastSeen, Unseen
<1>9. Has' = Burst /\ Tokens(level)' = Tokens(level)
  BY <1>1 DEF Has, Tokens
<1>10. PartedInv'
  <2> SUFFICES ASSUME NEW r \in Clients, Parted(r)'
               PROVE  /\ \A q \in Clients : Parted(q)' => using[q].bucket = using[r].bucket
                      /\ Burst + Tokens(buckets[using[r].bucket]) - Tokens(level) <= Burst
    BY <1>1, <1>3, <1>4, <1>9 DEF PartedInv, Tokens
  <2>1. \A q \in Clients : Parted(q)' => using[q].bucket = entry
    BY <1>1, <1>5 DEF Parted, UnderWay
  <2> QED
    BY <2>1, <1>6, RatesInt
<1>11. LastRound' = sweeper.ticks
  BY <1>3 DEF LastRound
<1>12. Rps * (clock - sweeper.ticks * SweepInterval) = 0
  <2>1. clock - sweeper.ticks * SweepInterval = 0
    BY <1>4
  <2> QED
    BY <2>1, RatesInt
<1>13. Ahead'
  <2>1. Burst - Tokens(level) <= Burst /\ Tokens(level) >= 0
    BY <1>6, RatesInt
  <2> QED
    BY <1>1, <1>3, <1>9, <1>11, <1>12, <2>1 DEF Ahead
<1> QED
  BY <1>7, <1>8, <1>10, <1>13

LEMMA AheadLoadOrStore == ASSUME LimitTypes, AheadInv, NEW r \in Clients, LoadOrStore(r) PROVE AheadInv'
<1> USE DEF AheadInv
<1>1. /\ using \in [Clients -> [at : {"idle", "loaded", "seen", "served", "refused"}, bucket : Nat]]
      /\ ~UnderWay(r) /\ UNCHANGED <<clock, sweeper, level>>
  BY DEF LoadOrStore, LimitTypes
<1>2. CASE entry # 0
  <2>1. UNCHANGED <<buckets, entry>> /\ using' = [using EXCEPT ![r] = [at |-> "loaded", bucket |-> entry]]
    BY <1>2 DEF LoadOrStore
  <2>2. /\ using'[r].at = "loaded" /\ using'[r].bucket = entry
        /\ \A q \in Clients \ {r} : using'[q] = using[q]
    BY <1>1, <2>1
  <2>3. /\ \A q \in Clients : Parted(q)' => Parted(q) /\ using'[q].bucket = using[q].bucket
        /\ \A q \in Clients : using'[q].at = "seen" => using'[q] = using[q]
    BY <2>1, <2>2 DEF Parted, UnderWay
  <2>4. Times'
    BY <1>1, <2>1 DEF Times
  <2>5. LastSeen'
    BY <1>1, <2>1, <2>2, <2>3 DEF LastSeen, Unseen
  <2>6. Has' = Has /\ Tokens(level)' = Tokens(level)
    BY <1>1, <2>1 DEF Has, Tokens
  <2>7. PartedInv'
    BY <1>1, <2>1, <2>3, <2>6 DEF PartedInv, Tokens
  <2>8. Ahead'
    BY <1>1, <2>1, <2>6 DEF Ahead, Unseen, LastRound
  <2> QED
    BY <2>4, <2>5, <2>7, <2>8
<1>3. CASE entry = 0
  <2> DEFINE n == Len(buckets) + 1
  <2>1. /\ buckets' = Append(buckets, NewBucket) /\ entry' = Len(buckets')
        /\ using' = [using EXCEPT ![r] = [at |-> "loaded", bucket |-> entry']]
    BY <1>3 DEF LoadOrStore
  <2>2. /\ clock \in Nat /\ clock > 0 /\ buckets \in Seq(Bucket)
        /\ NewBucket \in Bucket /\ NewBucket.tokens = Burst /\ NewBucket.at = clock /\ NewBucket.seen = 0
    BY Holdings, RatesInt DEF NewBucket, Bucket, LimitTypes, Times
  <2>3. /\ entry' = n /\ n # 0 /\ n \notin DOMAIN buckets
        /\ DOMAIN buckets' = DOMAIN buckets \cup {n}
        /\ buckets'[n] = NewBucket
        /\ \A i \in DOMAIN buckets : buckets'[i] = buckets[i]
    BY <2>1, <2>2
  <2> HIDE DEF n
  <2>4. /\ using'[r].at = "loaded" /\ using'[r].bucket = n
        /\ \A q \in Clients \ {r} : using'[q] = using[q]
    BY <1>1, <2>1, <2>3
  <2>5. \A q \in Clients : UnderWay(q) => using[q].bucket \in DOMAIN buckets /\ using[q].bucket # 0 /\ q # r
    BY <1>1, Holdings
  <2>6. \A q \in Clients : Parted(q)' => Parted(q) /\ using'[q] = using[q] /\ using[q].bucket \in DOMAIN buckets
    BY <1>3, <2>3, <2>4, <2>5 DEF Parted, UnderWay
  <2>7. \A q \in Clients : using'[q].at = "seen" => using'[q] = using[q] /\ using[q].bucket \in DOMAIN buckets
    BY <2>4, <2>5 DEF UnderWay
  <2>8. Times'
    <3>1. \A i \in DOMAIN buckets' : buckets'[i].tokens \in 0..Burst /\ buckets'[i].at <= clock
      BY <2>2, <2>3, RatesInt DEF Times
    <3> QED
      BY <1>1, <3>1 DEF Times
  <2>9. Unseen'
    BY <2>2, <2>3 DEF Unseen
  <2>10. LastSeen'
    <3>1. \A q \in Clients : using'[q].at = "seen" => buckets'[using'[q].bucket].seen = clock'
      BY <1>1, <2>3, <2>7 DEF LastSeen
    <3>2. buckets'[entry'].tokens = Burst /\ buckets'[entry'].at = clock'
      BY <1>1, <2>2, <2>3
    <3>3. using'[r].at = "loaded" /\ using'[r].bucket = entry'
      BY <2>3, <2>4
    <3> QED
      BY <2>9, <3>1, <3>2, <3>3 DEF LastSeen
  <2>11. Has' = Has /\ Tokens(level)' = Tokens(level)
    <3>1. Held(Burst, clock, clock) = Burst
      BY <2>2, RatesInt, HeldNow
    <3>2. Tokens(buckets[entry])' = Burst
      BY <1>1, <2>2, <2>3, <3>1 DEF Tokens, Held
    <3> QED
      BY <1>1, <1>3, <2>3, <3>2 DEF Has, Tokens
  <2>12. PartedInv'
    <3> SUFFICES ASSUME NEW q \in Clients, Parted(q)'
                 PROVE  /\ sweeper'.at = "waiting" /\ clock' = sweeper'.ticks * SweepInterval
                        /\ buckets'[entry'].seen = 0
                        /\ \A p \in Clients : Parted(p)' => using'[p].bucket = using'[q].bucket
                        /\ Has' + Tokens(buckets[using[q].bucket])' - Tokens(level)' <= Burst
      BY DEF PartedInv
    <3>1. Parted(q) /\ using'[q] = using[q] /\ using[q].bucket \in DOMAIN buckets
      BY <2>6
    <3>2. Tokens(buckets[using[q].bucket])' = Tokens(buckets[using[q].bucket])
      BY <1>1, <2>3, <3>1 DEF Tokens
    <3> QED
      BY <1>1, <2>2, <2>3, <2>6, <2>11, <3>1, <3>2 DEF PartedInv
  <2>13. Ahead'
    BY <1>1, <1>3, <2>11 DEF Ahead, LastRound
  <2> QED
    BY <2>8, <2>10, <2>12, <2>13
<1> QED
  BY <1>2, <1>3

LEMMA AheadStoreLastSeen ==
    ASSUME LimitTypes, AheadInv, NEW r \in Clients, StoreLastSeen(r)
    PROVE  AheadInv'
<1> USE DEF AheadInv
<1> DEFINE b == using[r].bucket
<1>1. /\ using[r].at = "loaded" /\ using' = [using EXCEPT ![r].at = "seen"]
      /\ buckets' = [buckets EXCEPT ![b].seen = clock]
      /\ UNCHANGED <<clock, entry, sweeper, level>>
  BY DEF StoreLastSeen
<1>2. /\ using \in [Clients -> [at : {"idle", "loaded", "seen", "served", "refused"}, bucket : Nat]]
      /\ b \in DOMAIN buckets /\ clock \in Nat /\ clock > 0 /\ level.at <= clock
      /\ buckets[b] \in Bucket
  BY <1>1, Holdings DEF LimitTypes, UnderWay, Times
<1>3. /\ using'[r].at = "seen" /\ using'[r].bucket = b
      /\ \A q \in Clients \ {r} : using'[q] = using[q]
  <2> DEFINE u == [using[r] EXCEPT !.at = "seen"]
  <2>1. u.at = "seen" /\ u.bucket = b
    BY <1>2
  <2>2. using' = [using EXCEPT ![r] = u]
    BY <1>1
  <2> HIDE DEF u, b
  <2> QED
    BY <1>2, <2>1, <2>2
<1>4. /\ DOMAIN buckets' = DOMAIN buckets /\ buckets'[b].seen = clock
      /\ \A i \in DOMAIN buckets : /\ buckets'[i].tokens = buckets[i].tokens
                                   /\ buckets'[i].at = buckets[i].at
                                   /\ i # b => buckets'[i].seen = buckets[i].seen
  <2> DEFINE e == [buckets[b] EXCEPT !.seen = clock]
  <2>1. e \in Bucket /\ e.tokens = buckets[b].tokens /\ e.at = buckets[b].at /\ e.seen = clock
    BY <1>2 DEF Bucket
  <2>2. buckets' = [buckets EXCEPT ![b] = e]
    BY <1>1
  <2> HIDE DEF e, b
  <2> QED
    BY <1>2, <2>1, <2>2, Replaced DEF LimitTypes
<1> HIDE DEF b
<1>5. /\ \A q \in Clients : /\ UnderWay(q)' <=> UnderWay(q)
                            /\ using'[q].bucket = using[q].bucket
                            /\ Parted(q)' <=> Parted(q)
                            /\ UnderWay(q) => using[q].bucket \in DOMAIN buckets
      /\ entry # 0 => entry \in DOMAIN buckets
  BY <1>1, <1>3, Holdings DEF UnderWay, Parted, b
<1>6. Times'
  BY <1>1, <1>4 DEF Times
<1>7. /\ \A i \in DOMAIN buckets : Tokens(buckets[i])' = Tokens(buckets[i])
      /\ Has' = Has /\ Tokens(level)' = Tokens(level)
  BY <1>1, <1>4, <1>5 DEF Tokens, Has
<1>8. LastSeen'
  <2>1. ASSUME NEW q \in Clients, using'[q].at = "seen" PROVE buckets'[using'[q].bucket].seen = clock
    <3>1. using'[q].bucket \in DOMAIN buckets
      BY <1>2, <1>3, <1>5, <2>1 DEF UnderWay
    <3> QED
      BY <1>3, <1>4, <2>1, <3>1 DEF LastSeen
  <2>2. CASE entry = b
    BY <1>1, <1>2, <1>4, <2>1, <2>2 DEF LastSeen, Unseen
  <2>3. CASE entry # b
    BY <1>1, <1>2, <1>3, <1>4, <1>5, <2>1, <2>3 DEF LastSeen, Unseen, b
  <2> QED
    BY <2>2, <2>3
<1>9. entry # 0 => buckets'[entry].seen \in {buckets[entry].seen, clock}
  BY <1>4, <1>5
<1>10. PartedInv'
  BY <1>1, <1>5, <1>7, <1>9 DEF PartedInv, Parted
<1>11. Unseen' => Unseen
  BY <1>1, <1>2, <1>9 DEF Unseen
<1>12. Ahead'
  BY <1>1, <1>7, <1>11 DEF Ahead, LastRound
<1> QED
  BY <1>6, <1>8, <1>10, <1>12

\* What a request takes, it takes from its own bucket and from the one bucket.
LEMMA AheadAllow == ASSUME LimitTypes, AheadInv, NEW r \in Clients, Allow(r) PROVE AheadInv'
<1> USE DEF AheadInv
<1>0. PICK b, n, m : b = using[r].bucket /\ n = Tokens(buckets[b]) /\ m = Tokens(level)
  OBVIOUS
<1>1. /\ using \in [Clients -> [at : {"idle", "loaded", "seen", "served", "refused"}, bucket : Nat]]
      /\ using[r].at = "seen" /\ UnderWay(r) /\ b \in DOMAIN buckets /\ b # 0
      /\ buckets[b].seen = clock /\ buckets[b] \in Bucket /\ clock \in Nat /\ clock > 0
      /\ n \in 0..Burst /\ m \in Int /\ m <= Burst /\ Has \in 0..Burst
      /\ \A i \in DOMAIN buckets : Tokens(buckets[i]) \in 0..Burst
      /\ UNCHANGED <<clock, entry, sweeper>>
  <2>1. using[r].at = "seen" /\ UnderWay(r)
    BY DEF Allow, UnderWay
  <2> QED
    BY <1>0, <2>1, Holdings DEF Allow, LimitTypes, Times, LastSeen
<1>2. /\ \A q \in Clients \ {r} : using'[q] = using[q]
      /\ using'[r].at \in {"served", "refused"}
  BY <1>1 DEF Allow
<1>3. \A q \in Clients : Parted(q)' => Parted(q) /\ using'[q] = using[q]
  BY <1>1, <1>2 DEF Parted, UnderWay
<1>4. Unseen => b # entry /\ \E q \in Clients : using'[q].at = "loaded" /\ using'[q].bucket = entry
  <2>1. Unseen => b # entry
    BY <1>0, <1>1 DEF Unseen
  <2>2. ASSUME NEW q \in Clients, using[q].at = "loaded" PROVE using'[q] = using[q]
    BY <1>1, <1>2, <2>2
  <2> QED
    BY <2>1, <2>2 DEF LastSeen
<1>5. \A q \in Clients : using'[q].at = "seen" => using'[q] = using[q] /\ using[q].bucket \in DOMAIN buckets
  <2>1. \A q \in Clients : using[q].at = "seen" => using[q].bucket \in DOMAIN buckets
    BY Holdings DEF UnderWay
  <2> QED
    BY <1>2, <2>1
<1>6. CASE ~(n >= 1)
  <2>1. UNCHANGED <<buckets, level>>
    BY <1>0, <1>6 DEF Allow
  <2>2. Times'
    BY <1>1, <2>1 DEF Times
  <2>3. LastSeen'
    BY <1>1, <1>4, <1>5, <2>1 DEF LastSeen, Unseen
  <2>4. Has' = Has /\ Tokens(level)' = Tokens(level)
    BY <1>1, <2>1 DEF Has, Tokens
  <2>5. PartedInv'
    BY <1>1, <1>3, <2>1, <2>4 DEF PartedInv, Tokens
  <2>6. Ahead'
    BY <1>1, <2>1, <2>4 DEF Ahead, Unseen, LastRound
  <2> QED
    BY <2>2, <2>3, <2>5, <2>6
<1>7. CASE n >= 1
  <2>1. /\ buckets' = [buckets EXCEPT ![b].tokens = n - 1, ![b].at = clock]
        /\ level' = [tokens |-> m - 1, at |-> clock]
    BY <1>0, <1>7 DEF Allow
  <2>2. /\ DOMAIN buckets' = DOMAIN buckets
        /\ \A i \in DOMAIN buckets \ {b} : buckets'[i] = buckets[i]
        /\ buckets'[b].tokens = n - 1 /\ buckets'[b].at = clock /\ buckets'[b].seen = clock
    <3> DEFINE e == [buckets[b] EXCEPT !.tokens = n - 1, !.at = clock]
    <3>1. e \in Bucket /\ e.tokens = n - 1 /\ e.at = clock /\ e.seen = clock
      <4>1. buckets[b] \in Bucket /\ clock \in Int /\ n - 1 \in Int /\ buckets[b].seen = clock
        BY <1>1, RatesInt
      <4> QED
        BY <4>1 DEF Bucket
    <3>2. buckets' = [buckets EXCEPT ![b] = e]
      BY <2>1
    <3>3. buckets \in Seq(Bucket)
      BY DEF LimitTypes
    <3> HIDE DEF e
    <3>4. /\ DOMAIN [buckets EXCEPT ![b] = e] = DOMAIN buckets
          /\ [buckets EXCEPT ![b] = e][b] = e
          /\ \A j \in DOMAIN buckets \ {b} : [buckets EXCEPT ![b] = e][j] = buckets[j]
      BY <1>1, <3>1, <3>3, Replaced
    <3> QED
      BY <3>1, <3>2, <3>4
  <2>3. /\ level'.tokens = m - 1 /\ level'.at = clock
    BY <2>1
  <2>4. Tokens(level)' = m - 1 /\ Tokens(buckets[b])' = n - 1
    <3>1. Held(n - 1, clock, clock) = n - 1 /\ Held(m - 1, clock, clock) = m - 1
      <4>1. /\ n - 1 \in Int /\ m - 1 \in Int /\ clock \in Int
            /\ n - 1 <= Burst /\ m - 1 <= Burst
        BY <1>1, RatesInt
      <4> QED
        BY <4>1, HeldNow
    <3>2. /\ Tokens(level)' = Held(level'.tokens, level'.at, clock')
          /\ Tokens(buckets[b])' = Held(buckets'[b].tokens, buckets'[b].at, clock')
      BY DEF Tokens, Held
    <3> QED
      BY <1>1, <2>2, <2>3, <3>1, <3>2
  <2>5. \A i \in DOMAIN buckets \ {b} : Tokens(buckets[i])' = Tokens(buckets[i])
    BY <1>1, <2>2 DEF Tokens
  <2>6. Times'
    <3>1. \A i \in DOMAIN buckets : buckets'[i].tokens \in 0..Burst /\ buckets'[i].at <= clock
      BY <1>1, <1>7, <2>2, RatesInt DEF Times
    <3> QED
      BY <1>1, <2>2, <2>3, <3>1, RatesInt DEF Times
  <2>7. CASE b = entry
    <3>1. Has = n /\ Has' = n - 1 /\ ~Unseen /\ ~Unseen'
      BY <1>0, <1>1, <2>2, <2>4, <2>7 DEF Has, Unseen
    <3>2. LastSeen'
      <4>1. \A q \in Clients : using'[q].at = "seen" => buckets'[using'[q].bucket].seen = clock
        BY <1>1, <1>5, <2>2 DEF LastSeen
      <4> QED
        BY <1>1, <2>2, <2>3, <2>7, <3>1, <4>1 DEF LastSeen
    <3>3. PartedInv'
      <4> SUFFICES ASSUME NEW q \in Clients, Parted(q)'
                   PROVE  /\ sweeper'.at = "waiting" /\ clock' = sweeper'.ticks * SweepInterval
                          /\ buckets'[entry'].seen = clock'
                          /\ \A p \in Clients : Parted(p)' => using'[p].bucket = using'[q].bucket
                          /\ Has' + Tokens(buckets[using[q].bucket])' - Tokens(level)' <= Burst
        BY DEF PartedInv
      <4>1. PICK i : i = using[q].bucket
        OBVIOUS
      <4>2. Parted(q) /\ using'[q] = using[q] /\ i # b /\ i \in DOMAIN buckets
        BY <1>3, <2>7, <4>1, Holdings DEF Parted
      <4>3. Tokens(buckets[using[q].bucket])' = Tokens(buckets[i]) /\ Tokens(buckets[i]) \in Int
        BY <1>1, <2>5, <4>1, <4>2
      <4>4. Has + Tokens(buckets[i]) - m <= Burst
        BY <1>0, <4>1, <4>2 DEF PartedInv
      <4>5. Has' + Tokens(buckets[using[q].bucket])' - Tokens(level)' <= Burst
        BY <1>1, <2>4, <3>1, <4>3, <4>4, RatesInt
      <4> QED
        BY <1>1, <1>3, <2>2, <2>7, <4>2, <4>5 DEF PartedInv
    <3>4. Ahead'
      <4>1. Has - m <= Burst /\ (sweeper.at = "deleting" => entry # 0 /\ Has <= m)
        BY <1>0 DEF Ahead
      <4>2. m - 1 >= -Burst /\ Has' - (m - 1) <= Burst
        BY <1>1, <1>7, <3>1, <4>1, RatesInt
      <4>3. sweeper.at = "deleting" => entry # 0 /\ Has' <= m - 1
        BY <1>1, <3>1, <4>1, RatesInt
      <4>4. entry' # 0
        BY <1>1, <2>7
      <4> QED
        BY <1>1, <2>3, <2>4, <3>1, <4>2, <4>3, <4>4 DEF Ahead
    <3> QED
      BY <2>6, <3>2, <3>3, <3>4
  <2>8. CASE b # entry
    <3>1. /\ sweeper.at = "waiting" /\ clock = sweeper.ticks * SweepInterval
          /\ entry # 0 => buckets[entry].seen \in {0, clock}
          /\ \A q \in Clients : Parted(q) => using[q].bucket = b
          /\ Has + n - m <= Burst
      <4>1. Parted(r)
        BY <1>0, <1>1, <2>8 DEF Parted
      <4> QED
        BY <1>0, <4>1 DEF PartedInv
    <3>2. entry # 0 => entry \in DOMAIN buckets /\ buckets'[entry] = buckets[entry]
      BY <2>2, <2>8, Holdings
    <3>3. Has' = Has /\ (Unseen' <=> Unseen)
      BY <1>1, <2>5, <2>8, <3>2 DEF Has, Unseen
    <3>4. LastSeen'
      <4>1. \A q \in Clients : using'[q].at = "seen" => buckets'[using'[q].bucket].seen = clock
        BY <1>1, <1>5, <2>2 DEF LastSeen
      <4>2. Unseen' => /\ buckets'[entry'].tokens = Burst /\ buckets'[entry'].at = clock'
                       /\ \E q \in Clients : using'[q].at = "loaded" /\ using'[q].bucket = entry'
        BY <1>1, <1>4, <3>2, <3>3 DEF LastSeen, Unseen
      <4>3. entry # 0 /\ ~Unseen => clock <= buckets'[entry].seen
        BY <1>1, <3>1, <3>2 DEF Unseen
      <4> QED
        BY <1>1, <2>3, <3>3, <4>1, <4>2, <4>3 DEF LastSeen
    <3>5. PartedInv'
      <4> SUFFICES ASSUME NEW q \in Clients, Parted(q)'
                   PROVE  /\ sweeper'.at = "waiting" /\ clock' = sweeper'.ticks * SweepInterval
                          /\ entry' # 0 => buckets'[entry'].seen \in {0, clock'}
                          /\ \A p \in Clients : Parted(p)' => using'[p].bucket = using'[q].bucket
                          /\ Has' + Tokens(buckets[using[q].bucket])' - Tokens(level)' <= Burst
        BY DEF PartedInv
      <4>1. \A p \in Clients : Parted(p)' => using'[p].bucket = b
        BY <1>3, <3>1
      <4>2. Tokens(buckets[using[q].bucket])' = n - 1
        BY <2>4, <4>1
      <4>3. Has' + Tokens(buckets[using[q].bucket])' - Tokens(level)' <= Burst
        BY <1>1, <2>4, <3>1, <3>3, <4>2, RatesInt
      <4> QED
        BY <1>1, <3>1, <3>2, <4>1, <4>3
    <3>6. Ahead'
      <4>1. m - 1 >= -Burst /\ Has - (m - 1) <= Burst
        BY <1>1, <1>7, <3>1, RatesInt
      <4>2. ASSUME entry = 0 \/ Unseen PROVE Has = Burst
        <5>1. CASE Unseen
          <6>1. Held(Burst, clock, clock) = Burst
            BY <1>1, RatesInt, HeldNow
          <6> QED
            BY <5>1, <6>1 DEF Unseen, LastSeen, Has, Tokens, Held
        <5> QED
          BY <5>1, <4>2 DEF Has
      <4>3. Rps * (clock - sweeper.ticks * SweepInterval) = 0
        <5>1. clock - sweeper.ticks * SweepInterval = 0
          BY <1>1, <3>1
        <5> QED
          BY <5>1, RatesInt
      <4>4. entry = 0 \/ Unseen => m - 1 >= Rps * (clock - sweeper.ticks * SweepInterval)
        BY <1>1, <1>7, <3>1, <4>2, <4>3, RatesInt
      <4>5. LastRound' = sweeper.ticks
        BY <1>1, <3>1 DEF LastRound
      <4> QED
        BY <1>1, <2>3, <2>4, <3>1, <3>3, <4>1, <4>4, <4>5 DEF Ahead
    <3> QED
      BY <2>6, <3>4, <3>5, <3>6
  <2> QED
    BY <2>7, <2>8
<1> QED
  BY <1>6, <1>7

LEMMA AheadStep == LimitInv /\ AheadInv /\ Refills /\ [LimitNext]_limitVars => AheadInv'
<1> SUFFICES ASSUME LimitInv, AheadInv, Refills, [LimitNext]_limitVars PROVE AheadInv'
  OBVIOUS
<1>1. LimitTypes
  BY DEF LimitInv
<1>2. CASE UNCHANGED limitVars
  BY <1>2 DEF limitVars, AheadInv, Times, LastSeen, PartedInv, Ahead, Has, Unseen, Parted, UnderWay,
              LastRound, Tokens
<1> QED
  BY <1>1, <1>2, AheadTick, AheadBeginRound, AheadCheckEntry, AheadDeleteEntry, AheadLoadOrStore,
     AheadStoreLastSeen, AheadAllow DEF LimitNext

\* ratelimit admits a client at most one burst more than a single bucket would have
\* by now, for any rates, any number of requests and any buckets the sweeper takes
\* out of the map beneath them, when a bucket refills between two rounds.
THEOREM ForgettingIsBounded == LimitSpec => []OneBurstAhead
<1> DEFINE I == Refills => AheadInv
<1>1. LimitInit => I
  BY AheadInitially
<1>2. LimitInv /\ I /\ [LimitNext]_limitVars => I'
  BY AheadStep DEF Refills
<1>3. I => OneBurstAhead
  BY DEF AheadInv, Ahead, OneBurstAhead, Refills
<1> HIDE DEF I
<1> QED
  BY <1>1, <1>2, <1>3, LimitInitially, LimitStep, PTL DEF LimitSpec

-----------------------------------------------------------------------------
(* jwt: the tokens of one browser.                                         *)

Tokens0 == [kind : {"token"}, id : Nat, iat0 : Int, exp : Int]
CookieSet == Tokens0 \cup {NoCookie, Deletion}

Slot == [at : {"idle", "sent", "handling", "answered"}, cookie : CookieSet, claims : CookieSet,
         set : BOOLEAN, clear : BOOLEAN, reply : CookieSet, said : {"nothing", "set", "clear"}]

SessionTypes == /\ now \in Nat
                /\ jar \in CookieSet
                /\ fetch \in [Fetches -> Slot]
                /\ born \in Seq(Nat)

\* A token names a session that was established, when, and is within the cap.
AnchoredIn(sessions, c) == c.kind = "token" =>
                 /\ c.id \in 1..Len(sessions) /\ c.iat0 = sessions[c.id]
                 /\ c.exp <= c.iat0 + MaxLifetime + Expiry

Anchored(c) == AnchoredIn(born, c)

AllAnchored == /\ Anchored(jar)
               /\ \A r \in Fetches : /\ Anchored(fetch[r].cookie)
                                     /\ Anchored(fetch[r].claims)
                                     /\ Anchored(fetch[r].reply)

CapInv == SessionTypes /\ AllAnchored

LEMMA Kinds == /\ NoCookie.kind = "none" /\ Deletion.kind = "deletion"
               /\ NoCookie \in CookieSet /\ Deletion \in CookieSet
               /\ \A c \in CookieSet : /\ c.kind = "token" => c \in Tokens0
                                       /\ c.kind = "deletion" => c = Deletion
               /\ \A c \in Tokens0 : c.kind = "token" /\ c.id \in Nat /\ c.iat0 \in Int /\ c.exp \in Int
<1>1. \A c \in Tokens0 : c.kind = "token" /\ c.id \in Nat /\ c.iat0 \in Int /\ c.exp \in Int
  BY DEF Tokens0
<1>2. NoCookie.kind = "none" /\ Deletion.kind = "deletion"
  BY DEF NoCookie, Deletion
<1> QED
  BY <1>1, <1>2 DEF CookieSet

LEMMA IdleSlot == /\ Idle \in Slot /\ Idle.at = "idle" /\ Idle.set = FALSE /\ Idle.clear = FALSE
                  /\ Idle.cookie = NoCookie /\ Idle.claims = NoCookie /\ Idle.reply = NoCookie
                  /\ Idle.said = "nothing"
BY Kinds DEF Idle, Slot

\* The list of sessions grows at its end.
LEMMA Established ==
    ASSUME NEW q \in Seq(Nat), NEW n \in Nat
    PROVE  /\ Append(q, n) \in Seq(Nat) /\ Len(Append(q, n)) = Len(q) + 1
           /\ Append(q, n)[Len(q) + 1] = n /\ Len(q) \in Nat
           /\ \A i \in 1..Len(q) : Append(q, n)[i] = q[i]
OBVIOUS

\* One request's slot is replaced.
LEMMA SlotReplaced ==
    ASSUME NEW r \in Fetches, NEW s \in Slot, SessionTypes, fetch' = [fetch EXCEPT ![r] = s]
    PROVE  /\ fetch' \in [Fetches -> Slot] /\ fetch'[r] = s
           /\ \A q \in Fetches \ {r} : fetch'[q] = fetch[q]
BY DEF SessionTypes

\* What a request's slot becomes in a step of its own.
Became(r, s) == /\ s \in Slot
                /\ fetch' \in [Fetches -> Slot] /\ fetch'[r] = s
                /\ \A q \in Fetches \ {r} : fetch'[q] = fetch[q]

LEMMA SendStep == ASSUME SessionTypes, NEW r \in Fetches, Send(r)
    PROVE Became(r, [fetch[r] EXCEPT !.at = "sent", !.cookie = jar])
<1>1. fetch[r] \in Slot /\ jar \in CookieSet
  BY DEF SessionTypes
<1>2. [fetch[r] EXCEPT !.at = "sent", !.cookie = jar] \in Slot
  BY <1>1 DEF Slot
<1>3. fetch' = [fetch EXCEPT ![r] = [fetch[r] EXCEPT !.at = "sent", !.cookie = jar]]
  BY DEF Send
<1> QED
  BY <1>2, <1>3, SlotReplaced DEF Became

LEMMA WrapStep == ASSUME SessionTypes, NEW r \in Fetches, Wrap(r)
    PROVE Became(r, [fetch[r] EXCEPT !.at = "handling", !.claims = Verify(fetch[r].cookie)])
<1>1. fetch[r] \in Slot /\ fetch[r].cookie \in CookieSet
  BY DEF SessionTypes, Slot
<1>2. Verify(fetch[r].cookie) \in CookieSet
  BY <1>1, Kinds DEF Verify
<1>3. [fetch[r] EXCEPT !.at = "handling", !.claims = Verify(fetch[r].cookie)] \in Slot
  BY <1>1, <1>2 DEF Slot
<1>4. fetch' = [fetch EXCEPT ![r] = [fetch[r] EXCEPT !.at = "handling", !.claims = Verify(fetch[r].cookie)]]
  BY DEF Wrap
<1> QED
  BY <1>3, <1>4, SlotReplaced DEF Became

LEMMA SetStep == ASSUME SessionTypes, NEW r \in Fetches, Set(r)
    PROVE Became(r, [fetch[r] EXCEPT !.set = TRUE, !.clear = FALSE, !.said = "set"])
<1>1. fetch[r] \in Slot
  BY DEF SessionTypes
<1>2. [fetch[r] EXCEPT !.set = TRUE, !.clear = FALSE, !.said = "set"] \in Slot
  BY <1>1 DEF Slot
<1>3. fetch' = [fetch EXCEPT ![r] = [fetch[r] EXCEPT !.set = TRUE, !.clear = FALSE, !.said = "set"]]
  BY DEF Set
<1> QED
  BY <1>2, <1>3, SlotReplaced DEF Became

LEMMA ClearStep == ASSUME SessionTypes, NEW r \in Fetches, Clear(r)
    PROVE Became(r, [fetch[r] EXCEPT !.set = FALSE, !.clear = TRUE, !.claims = NoCookie,
                                     !.said = "clear"])
<1>1. fetch[r] \in Slot
  BY DEF SessionTypes
<1>2. [fetch[r] EXCEPT !.set = FALSE, !.clear = TRUE, !.claims = NoCookie, !.said = "clear"] \in Slot
  BY <1>1, Kinds DEF Slot
<1>3. fetch' = [fetch EXCEPT ![r] = [fetch[r] EXCEPT !.set = FALSE, !.clear = TRUE,
                                       !.claims = NoCookie, !.said = "clear"]]
  BY DEF Clear
<1> QED
  BY <1>2, <1>3, SlotReplaced DEF Became

Answered(r, answer) == [Idle EXCEPT !.at = "answered", !.cookie = fetch[r].cookie,
                                    !.reply = answer, !.said = fetch[r].said]

\* save answers with a new session, a deletion, the refreshed session or nothing.
LEMMA SaveStep == ASSUME SessionTypes, NEW r \in Fetches, Save(r)
    PROVE  /\ fetch[r].at = "handling"
           /\ \/ /\ fetch[r].set
                 /\ born' = Append(born, now)
                 /\ Became(r, Answered(r, Token(Len(born) + 1, now, now + Expiry)))
              \/ /\ ~fetch[r].set /\ fetch[r].clear /\ born' = born
                 /\ Became(r, Answered(r, Deletion))
              \/ /\ ~fetch[r].set /\ ~fetch[r].clear /\ born' = born
                 /\ fetch[r].claims.kind = "token"
                 /\ now - fetch[r].claims.iat0 <= MaxLifetime
                 /\ Became(r, Answered(r, Refreshed(fetch[r].claims)))
              \/ /\ ~fetch[r].set /\ ~fetch[r].clear /\ born' = born
                 /\ Became(r, Answered(r, NoCookie))
<1>1. /\ fetch[r] \in Slot /\ fetch[r].cookie \in CookieSet /\ fetch[r].claims \in CookieSet
      /\ fetch[r].set \in BOOLEAN /\ fetch[r].clear \in BOOLEAN
      /\ fetch[r].said \in {"nothing", "set", "clear"}
  BY DEF SessionTypes, Slot
<1>2. Expiry \in Nat /\ now \in Nat /\ Len(born) + 1 \in Nat
  BY SessionAssumption DEF SessionTypes
<1>3. \A c \in CookieSet : Answered(r, c) \in Slot
  BY <1>1, Kinds DEF Answered, Slot, Idle
<1>4. \A c \in CookieSet : fetch' = [fetch EXCEPT ![r] = Answered(r, c)] => Became(r, Answered(r, c))
  BY <1>3, SlotReplaced DEF Became
<1>5. fetch[r].at = "handling"
  BY DEF Save
<1>6. CASE fetch[r].set
  <2>1. /\ born' = Append(born, now)
        /\ fetch' = [fetch EXCEPT ![r] = Answered(r, Token(Len(born'), now, now + Expiry))]
    BY <1>6 DEF Save, Answered
  <2>2. Len(born') = Len(born) + 1
    BY <2>1, <1>2, Established DEF SessionTypes
  <2>3. Token(Len(born) + 1, now, now + Expiry) \in CookieSet
    BY <1>2 DEF Token, CookieSet, Tokens0
  <2> QED
    BY <1>4, <1>5, <1>6, <2>1, <2>2, <2>3
<1>7. CASE ~fetch[r].set /\ fetch[r].clear
  <2>1. born' = born /\ fetch' = [fetch EXCEPT ![r] = Answered(r, Deletion)]
    BY <1>7 DEF Save, Answered
  <2> QED
    BY <1>4, <1>5, <1>7, <2>1, Kinds
<1>8. CASE ~fetch[r].set /\ ~fetch[r].clear
  <2> DEFINE q == fetch[r]
             Slides == Refresh /\ q.claims.kind = "token" /\ now - q.claims.iat0 <= MaxLifetime
  <2>1. /\ born' = born
        /\ fetch' = [fetch EXCEPT ![r] = Answered(r, IF Slides THEN Refreshed(q.claims) ELSE NoCookie)]
    BY <1>8 DEF Save, Answered
  <2>2. CASE Slides
    <3>1. Refreshed(q.claims) \in CookieSet
      BY <1>1, <1>2, <2>2, Kinds DEF Refreshed, Token, CookieSet, Tokens0
    <3> QED
      BY <1>4, <1>5, <1>8, <2>1, <2>2, <3>1
  <2>3. CASE ~Slides
    BY <1>4, <1>5, <1>8, <2>1, <2>3, Kinds
  <2> QED
    BY <2>2, <2>3
<1> QED
  BY <1>1, <1>6, <1>7, <1>8

LEMMA EndStep == ASSUME SessionTypes, NEW r \in Fetches, Receive(r) \/ Lose(r)
                 PROVE  Became(r, Idle) /\ fetch[r].at = "answered" /\ jar' \in CookieSet
<1>1. fetch' = [fetch EXCEPT ![r] = Idle] /\ fetch[r].at = "answered"
  BY DEF Receive, Lose
<1>2. fetch[r].reply \in CookieSet
  BY DEF SessionTypes, Slot
<1>3. jar' \in CookieSet
  <2>1. CASE Lose(r)
    BY <2>1 DEF Lose, SessionTypes
  <2>2. CASE Receive(r)
    BY <2>2, <1>2, Kinds DEF Receive, SessionTypes
  <2> QED
    BY <2>1, <2>2
<1> QED
  BY <1>1, <1>3, IdleSlot, SlotReplaced DEF Became

\* The six ways a request's slot changes, and what else changes with it.
LEMMA Steps ==
    ASSUME SessionTypes, [SessionNext]_sessionVars
    PROVE  \/ /\ fetch' = fetch /\ jar' = jar /\ born' = born /\ now' \in Nat
              /\ over' = over /\ overlap' = overlap
           \/ \E r \in Fetches : Send(r) \/ Wrap(r) \/ Set(r) \/ Clear(r) \/ Save(r)
                                   \/ Receive(r) \/ Lose(r)
<1>1. CASE TimePasses
  BY <1>1 DEF TimePasses, SessionTypes
<1>2. CASE UNCHANGED sessionVars
  BY <1>2 DEF sessionVars, SessionTypes
<1> QED
  BY <1>1, <1>2 DEF SessionNext

LEMMA TypesStep == SessionTypes /\ [SessionNext]_sessionVars => SessionTypes'
<1> SUFFICES ASSUME SessionTypes, [SessionNext]_sessionVars PROVE SessionTypes'
  OBVIOUS
<1>1. ASSUME NEW r \in Fetches, Send(r) \/ Wrap(r) \/ Set(r) \/ Clear(r) PROVE SessionTypes'
  <2>1. fetch' \in [Fetches -> Slot]
    BY <1>1, SendStep, WrapStep, SetStep, ClearStep DEF Became
  <2> QED
    BY <1>1, <2>1 DEF Send, Wrap, Set, Clear, SessionTypes
<1>2. ASSUME NEW r \in Fetches, Save(r) PROVE SessionTypes'
  <2>1. fetch' \in [Fetches -> Slot] /\ born' \in Seq(Nat)
    BY <1>2, SaveStep, Established DEF Became, SessionTypes
  <2> QED
    BY <1>2, <2>1 DEF Save, SessionTypes
<1>3. ASSUME NEW r \in Fetches, Receive(r) \/ Lose(r) PROVE SessionTypes'
  <2>1. fetch' \in [Fetches -> Slot] /\ jar' \in CookieSet
    BY <1>3, EndStep DEF Became
  <2> QED
    BY <1>3, <2>1 DEF Receive, Lose, SessionTypes
<1>4. CASE fetch' = fetch /\ jar' = jar /\ born' = born /\ now' \in Nat
  BY <1>4 DEF SessionTypes
<1> QED
  BY <1>1, <1>2, <1>3, <1>4, Steps

LEMMA SessionInitially == SessionInit => /\ SessionTypes /\ jar = NoCookie /\ over = {}
                                         /\ \A r \in Fetches : fetch[r] = Idle
BY IdleSlot, Kinds DEF SessionInit, SessionTypes

-----------------------------------------------------------------------------
(* The cap: every token is anchored at its session's sign-in.               *)

LEMMA CapInitially == SessionInit => CapInv
BY SessionInitially, IdleSlot, Kinds DEF CapInv, AllAnchored, Anchored, AnchoredIn

\* A slot that keeps its tokens, or takes them from elsewhere, stays anchored.
LEMMA AnchoredStep == CapInv /\ [SessionNext]_sessionVars => AllAnchored'
<1> SUFFICES ASSUME SessionTypes, AllAnchored, [SessionNext]_sessionVars PROVE AllAnchored'
  BY DEF CapInv
<1> DEFINE Slot3(q) == Anchored(q.cookie) /\ Anchored(q.claims) /\ Anchored(q.reply)
<1>0. \A r \in Fetches : fetch[r] \in Slot /\ Slot3(fetch[r])
  BY DEF SessionTypes, AllAnchored
<1>a. Anchored(jar)
  BY DEF AllAnchored
<1>b. Anchored(NoCookie) /\ Anchored(Deletion)
  BY Kinds DEF Anchored, AnchoredIn
<1>1. ASSUME NEW r \in Fetches, NEW s, Became(r, s), Slot3(s), UNCHANGED <<jar, born>>
      PROVE  AllAnchored'
  <2>1. \A q \in Fetches : Slot3(fetch'[q])
    BY <1>0, <1>1 DEF Became
  <2> QED
    BY <1>1, <1>a, <2>1 DEF AllAnchored, Anchored
<1>2. ASSUME NEW r \in Fetches, Send(r) PROVE AllAnchored'
  <2>1. Slot3([fetch[r] EXCEPT !.at = "sent", !.cookie = jar])
    BY <1>0, <1>a DEF Slot
  <2>2. UNCHANGED <<jar, born>>
    BY <1>2 DEF Send
  <2> QED
    BY <1>1, <1>2, <2>1, <2>2, SendStep
<1>3. ASSUME NEW r \in Fetches, Wrap(r) PROVE AllAnchored'
  <2>1. Anchored(Verify(fetch[r].cookie))
    BY <1>0, <1>b DEF Verify
  <2>2. Slot3([fetch[r] EXCEPT !.at = "handling", !.claims = Verify(fetch[r].cookie)])
    BY <1>0, <2>1 DEF Slot
  <2>3. UNCHANGED <<jar, born>>
    BY <1>3 DEF Wrap
  <2> QED
    BY <1>1, <1>3, <2>2, <2>3, WrapStep
<1>4. ASSUME NEW r \in Fetches, Set(r) PROVE AllAnchored'
  <2>1. Slot3([fetch[r] EXCEPT !.set = TRUE, !.clear = FALSE, !.said = "set"])
    BY <1>0 DEF Slot
  <2>2. UNCHANGED <<jar, born>>
    BY <1>4 DEF Set
  <2> QED
    BY <1>1, <1>4, <2>1, <2>2, SetStep
<1>5. ASSUME NEW r \in Fetches, Clear(r) PROVE AllAnchored'
  <2>1. Slot3([fetch[r] EXCEPT !.set = FALSE, !.clear = TRUE, !.claims = NoCookie, !.said = "clear"])
    BY <1>0, <1>b DEF Slot
  <2>2. UNCHANGED <<jar, born>>
    BY <1>5 DEF Clear
  <2> QED
    BY <1>1, <1>5, <2>1, <2>2, ClearStep
<1>6. ASSUME NEW r \in Fetches, Save(r) PROVE AllAnchored'
  <2>0. jar' = jar /\ Expiry \in Nat /\ MaxLifetime \in Nat /\ now \in Nat
    BY <1>6, SessionAssumption DEF Save, SessionTypes
  <2>1. \A c : /\ Answered(r, c).cookie = fetch[r].cookie /\ Answered(r, c).claims = NoCookie
               /\ Answered(r, c).reply = c
    BY DEF Answered, Idle
  <2>2. CASE /\ born' = Append(born, now)
             /\ Became(r, Answered(r, Token(Len(born) + 1, now, now + Expiry)))
    <3>1. /\ Len(born') = Len(born) + 1 /\ born'[Len(born) + 1] = now /\ Len(born) \in Nat
          /\ \A i \in 1..Len(born) : born'[i] = born[i]
      BY <2>0, <2>2, Established DEF SessionTypes
    <3>2. \A c : Anchored(c) => AnchoredIn(born', c)
      BY <3>1 DEF Anchored, AnchoredIn
    <3>3. AnchoredIn(born', Token(Len(born) + 1, now, now + Expiry))
      BY <2>0, <3>1 DEF AnchoredIn, Token
    <3>4. \A q \in Fetches : /\ AnchoredIn(born', fetch'[q].cookie)
                             /\ AnchoredIn(born', fetch'[q].claims)
                             /\ AnchoredIn(born', fetch'[q].reply)
      BY <1>0, <1>b, <2>1, <2>2, <3>2, <3>3 DEF Became
    <3>5. AnchoredIn(born', jar')
      BY <1>a, <2>0, <3>2
    <3> QED
      BY <3>4, <3>5 DEF AllAnchored, Anchored
  <2>3. CASE born' = born /\ Became(r, Answered(r, Deletion))
    BY <1>0, <1>1, <1>b, <2>0, <2>1, <2>3
  <2>4. CASE /\ born' = born /\ fetch[r].claims.kind = "token"
             /\ now - fetch[r].claims.iat0 <= MaxLifetime
             /\ Became(r, Answered(r, Refreshed(fetch[r].claims)))
    <3>1. fetch[r].claims \in Tokens0
      BY <1>0, <2>4, Kinds DEF Slot
    <3>2. Anchored(Refreshed(fetch[r].claims))
      BY <1>0, <2>0, <2>4, <3>1, Kinds DEF Anchored, AnchoredIn, Refreshed, Token
    <3> QED
      BY <1>0, <1>1, <1>b, <2>0, <2>1, <2>4, <3>2
  <2>5. CASE born' = born /\ Became(r, Answered(r, NoCookie))
    BY <1>0, <1>1, <1>b, <2>0, <2>1, <2>5
  <2> QED
    BY <1>6, <2>2, <2>3, <2>4, <2>5, SaveStep
<1>7. ASSUME NEW r \in Fetches, Receive(r) \/ Lose(r) PROVE AllAnchored'
  <2>1. born' = born /\ (jar' = jar \/ jar' = fetch[r].reply \/ jar' = NoCookie)
    BY <1>7 DEF Receive, Lose
  <2>2. Anchored(jar')
    BY <1>0, <1>a, <1>b, <2>1
  <2>3. \A q \in Fetches : Slot3(fetch'[q])
    BY <1>0, <1>7, <1>b, EndStep, IdleSlot DEF Became
  <2> QED
    BY <2>1, <2>2, <2>3 DEF AllAnchored, Anchored
<1>8. CASE fetch' = fetch /\ jar' = jar /\ born' = born
  BY <1>8 DEF AllAnchored, Anchored
<1> QED
  BY <1>2, <1>3, <1>4, <1>5, <1>6, <1>7, <1>8, Steps

\* Sliding expiration never extends a session beyond its absolute lifetime and
\* one expiry, for any number of requests that refresh it side by side.
THEOREM LifetimeIsCapped == SessionSpec => []LifetimeCapped
<1>1. CapInv /\ [SessionNext]_sessionVars => CapInv'
  BY TypesStep, AnchoredStep DEF CapInv
<1>2. CapInv => LifetimeCapped
  BY DEF CapInv, AllAnchored, Anchored, AnchoredIn, LifetimeCapped, Cookies
<1> QED
  BY <1>1, <1>2, CapInitially, PTL DEF SessionSpec

-----------------------------------------------------------------------------
(* Sign-out: who may still bring a session back carries it.                 *)

Names(c, i) == c.kind = "token" /\ c.id = i

\* What the handler said is what save will answer.
Said == \A r \in Fetches :
          /\ fetch[r].at = "handling" /\ fetch[r].said = "clear" => fetch[r].clear /\ ~fetch[r].set
          /\ fetch[r].at = "answered" /\ fetch[r].said = "clear" => fetch[r].reply = Deletion
          /\ fetch[r].at # "answered" => fetch[r].reply = NoCookie
          /\ fetch[r].at \in {"idle", "sent"} => fetch[r].claims = NoCookie /\ fetch[r].said = "nothing"
          /\ fetch[r].claims.kind = "token" => Names(fetch[r].cookie, fetch[r].claims.id)

\* A session that was just established is nowhere but in its answer.
Fresh(r) == fetch[r].reply.kind = "token" /\ ~Names(fetch[r].cookie, fetch[r].reply.id)

FreshAlone == \A r \in Fetches : Fresh(r) =>
                /\ ~Names(jar, fetch[r].reply.id) /\ fetch[r].reply.id \notin over
                /\ \A q \in Fetches : /\ ~Names(fetch[q].cookie, fetch[r].reply.id)
                                      /\ q # r => ~Names(fetch[q].reply, fetch[r].reply.id)

\* A session signed out is in the jar or on its way only if it overlapped.
OutOrOverlapped == /\ SignedOutStaysOut
                   /\ \A r \in Fetches : \A i \in over : Names(fetch[r].cookie, i) => i \in overlap

\* Only sessions that were established are signed out.
OverBorn == over \subseteq 1..Len(born)

OutInv == CapInv /\ OverBorn /\ Said /\ FreshAlone /\ OutOrOverlapped

LEMMA OutInitially == SessionInit => OutInv
<1> SUFFICES ASSUME SessionInit PROVE OutInv
  OBVIOUS
<1>1. CapInv /\ over = {} /\ jar.kind = "none"
  BY CapInitially, SessionInitially, Kinds
<1>2. \A r \in Fetches : /\ fetch[r].at = "idle" /\ fetch[r].reply = NoCookie
                         /\ fetch[r].claims = NoCookie /\ fetch[r].cookie = NoCookie
                         /\ fetch[r].said = "nothing"
  BY SessionInitially, IdleSlot
<1> QED
  BY <1>1, <1>2, Kinds DEF OutInv, OverBorn, Said, FreshAlone, Fresh, OutOrOverlapped,
                           SignedOutStaysOut, Names

\* Steps of one request that keep its answer and leave the jar and the history
\* alone; its cookie stays or is the jar's.
LEMMA QuietStep ==
    ASSUME OutInv, NEW r \in Fetches, NEW s, Became(r, s), jar' = jar, over' = over,
           overlap' = overlap, s.reply = fetch[r].reply, s.cookie = fetch[r].cookie \/ s.cookie = jar,
           fetch[r].reply = NoCookie
    PROVE  FreshAlone' /\ OutOrOverlapped'
<1> USE DEF OutInv
<1>1. \A q \in Fetches : fetch'[q].reply = fetch[q].reply
  BY DEF Became
<1>2. \A q \in Fetches : fetch'[q].cookie = fetch[q].cookie \/ fetch'[q].cookie = jar
  BY DEF Became
<1>3. \A q \in Fetches : q # r => fetch'[q].cookie = fetch[q].cookie
  BY DEF Became
<1>4. FreshAlone'
  <2> SUFFICES ASSUME NEW p \in Fetches, Fresh(p)'
               PROVE  /\ ~Names(jar, fetch[p].reply.id) /\ fetch[p].reply.id \notin over
                      /\ \A q \in Fetches : /\ ~Names(fetch'[q].cookie, fetch[p].reply.id)
                                            /\ q # p => ~Names(fetch[q].reply, fetch[p].reply.id)
    BY <1>1 DEF FreshAlone, Names
  <2>1. p # r
    BY <1>1, Kinds DEF Fresh
  <2>2. Fresh(p)
    BY <1>1, <1>3, <2>1 DEF Fresh, Names
  <2> QED
    BY <1>2, <2>2 DEF FreshAlone
<1>5. OutOrOverlapped'
  <2>1. \A q \in Fetches : \A i \in over : Names(fetch'[q].cookie, i) => i \in overlap
    BY <1>2 DEF OutOrOverlapped, SignedOutStaysOut, Names
  <2> QED
    BY <2>1 DEF OutOrOverlapped, SignedOutStaysOut, Names
<1> QED
  BY <1>4, <1>5

LEMMA OutSave == ASSUME OutInv, NEW r \in Fetches, Save(r) PROVE OverBorn' /\ Said' /\ FreshAlone' /\ OutOrOverlapped'
<1> USE DEF OutInv
<1>0. jar' = jar /\ over' = over /\ overlap' = overlap /\ Len(born) \in Nat
  BY DEF Save, CapInv, SessionTypes
<1>1. \A c : /\ Answered(r, c).cookie = fetch[r].cookie /\ Answered(r, c).claims = NoCookie
             /\ Answered(r, c).reply = c /\ Answered(r, c).said = fetch[r].said
             /\ Answered(r, c).at = "answered"
  BY DEF Answered, Idle
<1>2. PICK c : Became(r, Answered(r, c)) /\
        \/ fetch[r].set /\ born' = Append(born, now) /\ c = Token(Len(born) + 1, now, now + Expiry)
        \/ ~fetch[r].set /\ fetch[r].clear /\ born' = born /\ c = Deletion
        \/ /\ ~fetch[r].set /\ ~fetch[r].clear /\ born' = born
           /\ fetch[r].claims.kind = "token" /\ c = Refreshed(fetch[r].claims)
        \/ ~fetch[r].set /\ ~fetch[r].clear /\ born' = born /\ c = NoCookie
  BY SaveStep DEF CapInv
<1>3. fetch[r].at = "handling"
  BY SaveStep DEF CapInv
<1>4. /\ fetch'[r].cookie = fetch[r].cookie /\ fetch'[r].claims = NoCookie /\ fetch'[r].reply = c
      /\ fetch'[r].said = fetch[r].said /\ fetch'[r].at = "answered"
      /\ \A q \in Fetches \ {r} : fetch'[q] = fetch[q]
  BY <1>1, <1>2 DEF Became
<1>5. \A q \in Fetches : fetch'[q].cookie = fetch[q].cookie
  BY <1>4
<1>6. OverBorn'
  <2>1. Len(born') = Len(born) \/ Len(born') = Len(born) + 1
    BY <1>2, Established DEF CapInv, SessionTypes, Save
  <2> QED
    BY <1>0, <2>1 DEF OverBorn
<1>7. Said'
  BY <1>2, <1>3, <1>4, Kinds DEF Said
<1>8. CASE c.kind = "token" /\ c.id = Len(born) + 1
  <2>1. \A i \in 1..Len(born) : i # c.id
    BY <1>0, <1>8
  <2>2. /\ ~Names(jar, c.id) /\ c.id \notin over
        /\ \A q \in Fetches : ~Names(fetch[q].cookie, c.id) /\ ~Names(fetch[q].reply, c.id)
    BY <2>1 DEF Names, OverBorn, CapInv, AllAnchored, Anchored, AnchoredIn
  <2>3. FreshAlone'
    <3> SUFFICES ASSUME NEW p \in Fetches, Fresh(p)'
                 PROVE  /\ ~Names(jar, fetch'[p].reply.id) /\ fetch'[p].reply.id \notin over
                        /\ \A q \in Fetches : /\ ~Names(fetch[q].cookie, fetch'[p].reply.id)
                                              /\ q # p => ~Names(fetch'[q].reply, fetch'[p].reply.id)
      BY <1>0, <1>5 DEF FreshAlone, Names
    <3>1. CASE p = r
      BY <1>4, <2>2, <3>1
    <3>2. CASE p # r
      <4>1. Fresh(p) /\ fetch'[p].reply = fetch[p].reply
        BY <1>4, <3>2 DEF Fresh, Names
      <4>2. fetch[p].reply.id # c.id
        BY <2>2, <4>1 DEF Fresh, Names
      <4> QED
        BY <1>4, <4>1, <4>2 DEF FreshAlone, Names
    <3> QED
      BY <3>1, <3>2
  <2> QED
    BY <1>0, <1>5, <1>6, <1>7, <2>3 DEF OutOrOverlapped, SignedOutStaysOut, Names
<1>9. CASE c.kind # "token" \/ Names(fetch[r].cookie, c.id)
  <2>1. FreshAlone'
    <3> SUFFICES ASSUME NEW p \in Fetches, Fresh(p)'
                 PROVE  /\ ~Names(jar, fetch'[p].reply.id) /\ fetch'[p].reply.id \notin over
                        /\ \A q \in Fetches : /\ ~Names(fetch[q].cookie, fetch'[p].reply.id)
                                              /\ q # p => ~Names(fetch'[q].reply, fetch'[p].reply.id)
      BY <1>0, <1>5 DEF FreshAlone, Names
    <3>1. p # r
      BY <1>4, <1>9 DEF Fresh, Names
    <3>2. Fresh(p) /\ fetch'[p].reply = fetch[p].reply
      BY <1>4, <3>1 DEF Fresh, Names
    <3>3. ~Names(fetch[r].cookie, fetch[p].reply.id)
      BY <3>2 DEF FreshAlone
    <3>4. ~Names(fetch'[r].reply, fetch[p].reply.id)
      BY <1>4, <1>9, <3>3 DEF Names
    <3> QED
      BY <1>4, <3>2, <3>4 DEF FreshAlone, Names
  <2> QED
    BY <1>0, <1>5, <1>6, <1>7, <2>1 DEF OutOrOverlapped, SignedOutStaysOut, Names
<1> QED
  <2>1. CASE c = Token(Len(born) + 1, now, now + Expiry)
    BY <1>8, <2>1 DEF Token
  <2>2. CASE c = Deletion \/ c = NoCookie
    BY <1>9, <2>2, Kinds
  <2>3. CASE fetch[r].claims.kind = "token" /\ c = Refreshed(fetch[r].claims)
    <3>1. c.id = fetch[r].claims.id
      BY <2>3 DEF Refreshed, Token
    <3> QED
      BY <1>9, <2>3, <3>1 DEF Said
  <2> QED
    BY <1>2, <2>1, <2>2, <2>3

\* Before it has an answer, a request keeps the fourfold account.
LEMMA OutQuiet ==
    ASSUME OutInv, NEW r \in Fetches, Send(r) \/ Wrap(r) \/ Set(r) \/ Clear(r)
    PROVE  OverBorn' /\ Said' /\ FreshAlone' /\ OutOrOverlapped'
<1> USE DEF OutInv
<1>0. /\ jar' = jar /\ over' = over /\ overlap' = overlap /\ born' = born
      /\ fetch[r] \in Slot /\ SessionTypes
  BY DEF Send, Wrap, Set, Clear, CapInv, SessionTypes
<1>1. OverBorn'
  BY <1>0 DEF OverBorn
<1>2. fetch[r].reply = NoCookie
  BY DEF Said, Send, Wrap, Set, Clear
<1>3. ASSUME NEW s, Became(r, s), s.reply = fetch[r].reply, s.at # "answered",
             s.cookie = fetch[r].cookie \/ s.cookie = jar,
             s.at = "handling" /\ s.said = "clear" => s.clear /\ ~s.set,
             s.at \in {"idle", "sent"} => s.claims = NoCookie /\ s.said = "nothing",
             s.claims.kind = "token" => Names(s.cookie, s.claims.id)
      PROVE  FreshAlone' /\ OutOrOverlapped' /\ Said'
  <2>1. FreshAlone' /\ OutOrOverlapped'
    BY <1>0, <1>2, <1>3, QuietStep
  <2>2. fetch'[r] = s /\ \A q \in Fetches \ {r} : fetch'[q] = fetch[q]
    BY <1>3 DEF Became
  <2>3. Said'
    BY <1>2, <1>3, <2>2 DEF Said, Names
  <2> QED
    BY <2>1, <2>3
<1>4. CASE Send(r)
  <2> DEFINE s == [fetch[r] EXCEPT !.at = "sent", !.cookie = jar]
  <2>1. /\ s.reply = fetch[r].reply /\ s.at = "sent" /\ s.cookie = jar
        /\ s.claims = fetch[r].claims /\ s.said = fetch[r].said
    BY <1>0 DEF Slot
  <2>2. fetch[r].claims = NoCookie /\ fetch[r].said = "nothing"
    BY <1>4 DEF Said, Send
  <2> QED
    BY <1>0, <1>1, <1>3, <1>4, <2>1, <2>2, SendStep, Kinds
<1>5. CASE Wrap(r)
  <2> DEFINE s == [fetch[r] EXCEPT !.at = "handling", !.claims = Verify(fetch[r].cookie)]
  <2>1. /\ s.reply = fetch[r].reply /\ s.at = "handling" /\ s.cookie = fetch[r].cookie
        /\ s.claims = Verify(fetch[r].cookie) /\ s.said = fetch[r].said
        /\ s.clear = fetch[r].clear /\ s.set = fetch[r].set
    BY <1>0 DEF Slot
  <2>2. s.claims.kind = "token" => Names(s.cookie, s.claims.id)
    BY <2>1, Kinds DEF Verify, Names
  <2>3. fetch[r].said # "clear"
    BY <1>5 DEF Said, Wrap
  <2> QED
    BY <1>0, <1>1, <1>3, <1>5, <2>1, <2>2, <2>3, WrapStep
<1>6. CASE Set(r)
  <2> DEFINE s == [fetch[r] EXCEPT !.set = TRUE, !.clear = FALSE, !.said = "set"]
  <2>1. /\ s.reply = fetch[r].reply /\ s.at = "handling" /\ s.cookie = fetch[r].cookie
        /\ s.claims = fetch[r].claims /\ s.said = "set"
    BY <1>0, <1>6 DEF Slot, Set
  <2>2. s.claims.kind = "token" => Names(s.cookie, s.claims.id)
    BY <2>1 DEF Said
  <2> QED
    BY <1>0, <1>1, <1>3, <1>6, <2>1, <2>2, SetStep
<1>7. CASE Clear(r)
  <2> DEFINE s == [fetch[r] EXCEPT !.set = FALSE, !.clear = TRUE, !.claims = NoCookie,
                                   !.said = "clear"]
  <2>1. /\ s.reply = fetch[r].reply /\ s.at = "handling" /\ s.cookie = fetch[r].cookie
        /\ s.claims = NoCookie /\ s.clear /\ ~s.set
    BY <1>0, <1>7 DEF Slot, Clear
  <2> QED
    BY <1>0, <1>1, <1>3, <1>7, <2>1, ClearStep, Kinds
<1> QED
  BY <1>4, <1>5, <1>6, <1>7

\* A request's answer reaches the browser, or is lost.
LEMMA OutEnd ==
    ASSUME OutInv, NEW r \in Fetches, Receive(r) \/ Lose(r)
    PROVE  OverBorn' /\ Said' /\ FreshAlone' /\ OutOrOverlapped'
<1> USE DEF OutInv
<1> DEFINE reply == fetch[r].reply
<1>0. /\ born' = born /\ fetch'[r] = Idle /\ \A q \in Fetches \ {r} : fetch'[q] = fetch[q]
      /\ fetch[r].at = "answered" /\ SessionTypes
  BY EndStep DEF Became, CapInv, Receive, Lose
<1>1. /\ Said' /\ fetch'[r].cookie = NoCookie /\ fetch'[r].reply = NoCookie
      /\ \A i : ~Names(fetch'[r].cookie, i) /\ ~Names(fetch'[r].reply, i)
  BY <1>0, IdleSlot, Kinds DEF Said, Names
<1>2. \A p \in Fetches : Fresh(p)' => p # r /\ Fresh(p) /\ fetch'[p].reply = fetch[p].reply
  BY <1>0, <1>1, Kinds DEF Fresh, Names
<1>3. CASE Lose(r)
  <2>1. jar' = jar /\ over' = over /\ overlap' = overlap
    BY <1>3 DEF Lose
  <2>2. FreshAlone'
    BY <1>0, <1>1, <1>2, <2>1 DEF FreshAlone, Names
  <2>3. OutOrOverlapped'
    BY <1>0, <1>1, <2>1 DEF OutOrOverlapped, SignedOutStaysOut, Names
  <2> QED
    BY <1>0, <1>1, <2>1, <2>2, <2>3 DEF OverBorn
<1>4. CASE Receive(r) /\ SignedOut(r) = {}
  <2>1. /\ over' = over
        /\ overlap' = overlap
    BY <1>4 DEF Receive
  <2>2. jar' = jar \/ jar' = reply \/ jar' = NoCookie
    BY <1>4 DEF Receive
  <2>3. FreshAlone'
    <3> SUFFICES ASSUME NEW p \in Fetches, Fresh(p)'
                 PROVE  /\ ~Names(jar', fetch[p].reply.id) /\ fetch[p].reply.id \notin over
                        /\ \A q \in Fetches : /\ ~Names(fetch'[q].cookie, fetch[p].reply.id)
                                              /\ q # p => ~Names(fetch'[q].reply, fetch[p].reply.id)
      BY <1>2, <2>1 DEF FreshAlone, Names
    <3>1. p # r /\ Fresh(p)
      BY <1>2
    <3>2. ~Names(jar', fetch[p].reply.id)
      BY <2>2, <3>1, Kinds DEF FreshAlone, Names
    <3> QED
      BY <1>0, <1>1, <3>1, <3>2 DEF FreshAlone
  <2>4. SignedOutStaysOut'
    <3>1. reply.kind = "token" /\ reply.id \in over => reply.id \in overlap
      BY DEF OutOrOverlapped, FreshAlone, Fresh
    <3> QED
      BY <2>1, <2>2, <3>1, Kinds DEF OutOrOverlapped, SignedOutStaysOut
  <2>5. OutOrOverlapped'
    BY <1>0, <1>1, <2>1, <2>4 DEF OutOrOverlapped, Names
  <2> QED
    BY <1>0, <1>1, <2>1, <2>3, <2>5 DEF OverBorn
<1>5. CASE Receive(r) /\ SignedOut(r) # {}
  <2> DEFINE i == fetch[r].cookie.id
             Others == {fetch[q].cookie.id : q \in {p \in Fetches \ {r} : fetch[p].cookie.kind = "token"}}
  <2>1. /\ fetch[r].said = "clear" /\ fetch[r].cookie.kind = "token" /\ SignedOut(r) = {i}
    BY <1>5 DEF SignedOut
  <2>2. reply = Deletion
    BY <1>0, <2>1 DEF Said
  <2>3. jar' = NoCookie
    BY <1>5, <2>2, Kinds DEF Receive
  <2>4. over' = over \cup {i} /\ overlap' = overlap \cup ({i} \cap Others)
    BY <1>5, <2>1 DEF Receive
  <2>5. i \in 1..Len(born)
    BY <2>1 DEF CapInv, AllAnchored, Anchored, AnchoredIn
  <2>6. FreshAlone'
    <3> SUFFICES ASSUME NEW p \in Fetches, Fresh(p)'
                 PROVE  /\ ~Names(jar', fetch[p].reply.id) /\ fetch[p].reply.id \notin over'
                        /\ \A q \in Fetches : /\ ~Names(fetch'[q].cookie, fetch[p].reply.id)
                                              /\ q # p => ~Names(fetch'[q].reply, fetch[p].reply.id)
      BY <1>2 DEF FreshAlone, Names
    <3>1. p # r /\ Fresh(p)
      BY <1>2
    <3>2. fetch[p].reply.id # i
      BY <2>1, <3>1 DEF FreshAlone, Names
    <3>3. ~Names(jar', fetch[p].reply.id)
      BY <2>3, Kinds DEF Names
    <3> QED
      BY <1>0, <1>1, <2>4, <3>1, <3>2, <3>3 DEF FreshAlone
  <2>7. \A q \in Fetches : \A j \in over' : Names(fetch'[q].cookie, j) => j \in overlap'
    <3> SUFFICES ASSUME NEW q \in Fetches, NEW j \in over', Names(fetch'[q].cookie, j)
                 PROVE  j \in overlap'
      OBVIOUS
    <3>1. q # r /\ Names(fetch[q].cookie, j)
      BY <1>0, <1>1
    <3>2. CASE j \in over
      BY <2>4, <3>1, <3>2 DEF OutOrOverlapped
    <3>3. CASE j = i
      <4>1. j \in Others
        BY <3>1 DEF Names
      <4> QED
        BY <2>4, <3>3, <4>1
    <3> QED
      BY <2>4, <3>2, <3>3
  <2>8. OutOrOverlapped'
    BY <2>3, <2>7, Kinds DEF OutOrOverlapped, SignedOutStaysOut
  <2> QED
    BY <1>0, <1>1, <2>4, <2>5, <2>6, <2>8 DEF OverBorn
<1> QED
  BY <1>3, <1>4, <1>5

\* A session that was signed out is back in the browser only through a request
\* that already carried it when the browser learned of the sign-out, for any
\* number of requests and whatever the order of their answers.
THEOREM SignOutHolds == SessionSpec => []SignedOutStaysOut
<1>1. OutInv /\ [SessionNext]_sessionVars => OutInv'
  <2> SUFFICES ASSUME OutInv, [SessionNext]_sessionVars PROVE OutInv'
    OBVIOUS
  <2>1. CapInv'
    BY TypesStep, AnchoredStep DEF CapInv, OutInv
  <2>2. CASE /\ fetch' = fetch /\ jar' = jar /\ born' = born /\ over' = over /\ overlap' = overlap
    BY <2>1, <2>2 DEF OutInv, OverBorn, Said, FreshAlone, Fresh, OutOrOverlapped,
                      SignedOutStaysOut, Names
  <2>3. SessionTypes
    BY DEF OutInv, CapInv
  <2> QED
    BY <2>1, <2>2, <2>3, Steps, OutQuiet, OutSave, OutEnd DEF OutInv
<1>2. OutInv => SignedOutStaysOut
  BY DEF OutInv, OutOrOverlapped
<1> QED
  BY <1>1, <1>2, OutInitially, PTL DEF SessionSpec

-----------------------------------------------------------------------------
(* session and flash: what a request does to its own copy, and what is then *)
(* left in the cookie.                                                      *)

Values == [value : Nat, flash : Nat]
AVisit == [at : {"idle", "sent", "handling", "answered"}, sent : Values, values : Values,
           gone : SUBSET Nat, reply : BOOLEAN]

FlashTypes == /\ visit \in [Visits -> AVisit]
              /\ cookie \in [key : Nat, values : Values]
              /\ key \in Nat /\ cookie.key <= key
              /\ written \in Nat

LEMMA NoVisitType == NoVisit \in AVisit /\ NoValues \in Values
                     /\ NoVisit.at = "idle" /\ NoVisit.sent = NoValues
BY DEF NoVisit, NoValues, NoItem, AVisit, Values

LEMMA DecodedType == FlashTypes => Decoded \in Values
BY NoVisitType DEF FlashTypes, Decoded

\* What the steps of one request do to it, field by field.
Others(v) == \A p \in Visits \ {v} : visit'[p] = visit[p]
Same(v, fields) == \A x \in fields : visit'[v][x] = visit[v][x]

LEMMA VisitStep ==
    ASSUME FlashTypes, NEW v \in Visits, Visit(v)
    PROVE  /\ FlashTypes' /\ Others(v)
           /\ visit'[v].at = "sent" /\ visit'[v].sent = Decoded
           /\ visit'[v].values = NoValues /\ visit'[v].gone = {} /\ ~visit'[v].reply
BY DecodedType, NoVisitType DEF FlashTypes, Visit, Others, NoVisit, AVisit

LEMMA WrapFlashStep ==
    ASSUME FlashTypes, NEW v \in Visits, WrapFlash(v)
    PROVE  /\ FlashTypes' /\ Others(v)
           /\ visit[v].at = "sent" /\ visit'[v].at = "handling"
           /\ Same(v, {"sent", "reply"})
           /\ visit'[v].gone = {visit[v].sent.flash} \ {NoItem}
           /\ visit'[v].values = [visit[v].sent EXCEPT !.flash = NoItem]
<1>1. visit[v] \in AVisit /\ visit[v].sent \in Values
  BY DEF FlashTypes, AVisit
<1>2. [visit[v].sent EXCEPT !.flash = NoItem] \in Values
  BY <1>1 DEF Values, NoItem
<1>3. {visit[v].sent.flash} \ {NoItem} \in SUBSET Nat
  BY <1>1 DEF Values
<1> QED
  BY <1>1, <1>2, <1>3 DEF FlashTypes, WrapFlash, TakeFlash, Others, Same, AVisit

LEMMA StoreStep ==
    ASSUME FlashTypes, NEW v \in Visits, NEW slot \in {"value", "flash"}, Store(v, slot)
    PROVE  /\ FlashTypes' /\ Others(v)
           /\ visit[v].at = "handling" /\ written' = written + 1
           /\ Same(v, {"at", "sent", "reply"})
           /\ visit'[v].gone = visit[v].gone \cup ({visit[v].values[slot]} \ {NoItem})
           /\ visit'[v].values = [visit[v].values EXCEPT ![slot] = written + 1]
<1>1. visit[v] \in AVisit /\ visit[v].values \in Values
  BY DEF FlashTypes, AVisit
<1>2. [visit[v].values EXCEPT ![slot] = written + 1] \in Values /\ written + 1 \in Nat
  BY <1>1 DEF Values, FlashTypes
<1>3. visit[v].gone \cup ({visit[v].values[slot]} \ {NoItem}) \in SUBSET Nat
  BY <1>1 DEF Values, AVisit
<1> QED
  BY <1>1, <1>2, <1>3 DEF FlashTypes, Store, Others, Same, AVisit

LEMMA ClearSessionStep ==
    ASSUME FlashTypes, NEW v \in Visits, ClearSession(v)
    PROVE  /\ FlashTypes' /\ Others(v)
           /\ visit[v].at = "handling"
           /\ Same(v, {"at", "sent", "reply"})
           /\ visit'[v].gone = visit[v].gone \cup ItemsOf(visit[v].values)
           /\ visit'[v].values = NoValues
<1>1. visit[v] \in AVisit /\ visit[v].values \in Values
  BY DEF FlashTypes, AVisit
<1>2. visit[v].gone \cup ItemsOf(visit[v].values) \in SUBSET Nat
  BY <1>1 DEF Values, AVisit, ItemsOf
<1> QED
  BY <1>1, <1>2, NoVisitType DEF FlashTypes, ClearSession, Others, Same, AVisit

LEMMA AnsweredStep ==
    ASSUME FlashTypes, NEW v \in Visits, SaveSession(v) \/ SkipSave(v)
    PROVE  /\ FlashTypes' /\ Others(v)
           /\ visit[v].at = "handling" /\ visit'[v].at = "answered"
           /\ Same(v, {"sent", "values", "gone"})
           /\ SaveSession(v) => visit'[v].reply
           /\ SkipSave(v) => visit'[v].reply = visit[v].reply
BY DEF FlashTypes, SaveSession, SkipSave, Others, Same, AVisit

LEMMA VisitOver ==
    ASSUME FlashTypes, NEW v \in Visits, TakeAnswer(v) \/ DropAnswer(v)
    PROVE  /\ FlashTypes' /\ Others(v)
           /\ visit[v].at = "answered" /\ visit'[v] = NoVisit
<1>1. visit[v].values \in Values
  BY DEF FlashTypes, AVisit
<1> QED
  BY <1>1, NoVisitType DEF FlashTypes, TakeAnswer, DropAnswer, Others, AVisit

LEMMA RestartStep ==
    ASSUME FlashTypes, Restart
    PROVE  /\ FlashTypes' /\ Decoded' = NoValues
           /\ \A v \in Visits : visit'[v] = NoVisit
<1>1. key' = key + 1 /\ cookie' = cookie /\ cookie.key # key'
  BY DEF Restart, FlashTypes
<1> QED
  BY <1>1, NoVisitType DEF FlashTypes, Restart, Decoded

LEMMA FlashTypesStep == FlashTypes /\ [FlashNext]_flashVars => FlashTypes'
<1> SUFFICES ASSUME FlashTypes, [FlashNext]_flashVars PROVE FlashTypes'
  OBVIOUS
<1>1. CASE UNCHANGED flashVars
  BY <1>1 DEF FlashTypes, flashVars
<1> QED
  BY <1>1, VisitStep, WrapFlashStep, StoreStep, ClearSessionStep, AnsweredStep, VisitOver,
     RestartStep DEF FlashNext

LEMMA FlashInitially ==
    FlashInit => /\ FlashTypes /\ Decoded = NoValues
                 /\ \A v \in Visits : visit[v] = NoVisit
BY NoVisitType DEF FlashInit, FlashTypes, Decoded

\* Only the answers and a restart touch what the browser has.
LEMMA CookieKept ==
    ASSUME FlashTypes, NEW v \in Visits,
           \/ Visit(v) \/ WrapFlash(v) \/ ClearSession(v) \/ SaveSession(v) \/ SkipSave(v)
           \/ DropAnswer(v) \/ \E slot \in {"value", "flash"} : Store(v, slot)
    PROVE  Decoded' = Decoded /\ UNCHANGED <<arrived, ended, raced>>
BY DEF Visit, WrapFlash, ClearSession, SaveSession, SkipSave, DropAnswer, Store, Decoded

LEMMA CookieTaken ==
    ASSUME FlashTypes, NEW v \in Visits, TakeAnswer(v)
    PROVE  Decoded' = IF visit[v].reply THEN visit[v].values ELSE Decoded
BY DEF TakeAnswer, Decoded, FlashTypes

-----------------------------------------------------------------------------
\* A request's answer lacks nothing of what it was sent but what it removed.
Conserved == \A v \in Visits :
                visit[v].at \in {"handling", "answered"} =>
                    ItemsOf(visit[v].sent) \subseteq ItemsOf(visit[v].values) \cup visit[v].gone

\* What must be in the browser is also in every request under way.
KeptEverywhere ==
    \A i \in arrived \ (ended \cup raced) :
        /\ i \in ItemsOf(Decoded)
        /\ \A v \in Outstanding : i \in ItemsOf(visit[v].sent)

LEMMA ConservedStep == FlashTypes /\ Conserved /\ [FlashNext]_flashVars => Conserved'
<1> SUFFICES ASSUME FlashTypes, Conserved, [FlashNext]_flashVars,
                    NEW v \in Visits, visit'[v].at \in {"handling", "answered"}
             PROVE  ItemsOf(visit'[v].sent) \subseteq ItemsOf(visit'[v].values) \cup visit'[v].gone
  BY DEF Conserved, ItemsOf
<1>1. CASE visit'[v] = visit[v]
  BY <1>1 DEF Conserved
<1>2. ASSUME NEW p \in Visits, Others(p), p # v PROVE visit'[v] = visit[v]
  BY <1>2 DEF Others
<1>3. visit[v].sent \in Values /\ visit[v].values \in Values
  BY DEF FlashTypes, AVisit
<1>4. CASE UNCHANGED flashVars
  BY <1>1, <1>4 DEF flashVars
<1>5. CASE Restart
  BY <1>5, RestartStep, NoVisitType
<1>6. ASSUME NEW p \in Visits, Visit(p) PROVE visit'[v] = visit[v]
  BY <1>2, <1>6, VisitStep
<1>7. ASSUME NEW p \in Visits, WrapFlash(p)
      PROVE  ItemsOf(visit'[v].sent) \subseteq ItemsOf(visit'[v].values) \cup visit'[v].gone
  <2>1. CASE p = v
    <3>1. visit'[v].sent = visit[v].sent
      BY <1>7, <2>1, WrapFlashStep DEF Same
    <3>2. visit'[v].gone = {visit[v].sent.flash} \ {NoItem}
      BY <1>7, <2>1, WrapFlashStep
    <3>3. visit'[v].values.value = visit[v].sent.value
      BY <1>3, <1>7, <2>1, WrapFlashStep DEF Values
    <3> QED
      BY <3>1, <3>2, <3>3 DEF ItemsOf
  <2> QED
    BY <1>1, <1>2, <1>7, <2>1, WrapFlashStep
<1>8. ASSUME NEW p \in Visits, NEW slot \in {"value", "flash"}, Store(p, slot)
      PROVE  ItemsOf(visit'[v].sent) \subseteq ItemsOf(visit'[v].values) \cup visit'[v].gone
  <2>1. CASE p = v
    <3>1. visit'[v].sent = visit[v].sent
      BY <1>8, <2>1, StoreStep DEF Same
    <3>2. visit'[v].gone = visit[v].gone \cup ({visit[v].values[slot]} \ {NoItem})
      BY <1>8, <2>1, StoreStep
    <3>3. \A s \in {"value", "flash"} \ {slot} : visit'[v].values[s] = visit[v].values[s]
      BY <1>3, <1>8, <2>1, StoreStep DEF Values
    <3>4. ItemsOf(visit[v].values) \subseteq ItemsOf(visit'[v].values) \cup visit'[v].gone
      BY <3>2, <3>3 DEF ItemsOf
    <3>5. ItemsOf(visit[v].sent) \subseteq ItemsOf(visit[v].values) \cup visit[v].gone
      BY <1>8, <2>1, StoreStep DEF Conserved
    <3> QED
      BY <3>1, <3>2, <3>4, <3>5
  <2> QED
    BY <1>1, <1>2, <1>8, <2>1, StoreStep
<1>9. ASSUME NEW p \in Visits, ClearSession(p)
      PROVE  ItemsOf(visit'[v].sent) \subseteq ItemsOf(visit'[v].values) \cup visit'[v].gone
  <2>1. CASE p = v
    <3>1. visit'[v].sent = visit[v].sent
      BY <1>9, <2>1, ClearSessionStep DEF Same
    <3>2. visit'[v].gone = visit[v].gone \cup ItemsOf(visit[v].values)
      BY <1>9, <2>1, ClearSessionStep
    <3>3. ItemsOf(visit[v].sent) \subseteq ItemsOf(visit[v].values) \cup visit[v].gone
      BY <1>9, <2>1, ClearSessionStep DEF Conserved
    <3> QED
      BY <3>1, <3>2, <3>3
  <2> QED
    BY <1>1, <1>2, <1>9, <2>1, ClearSessionStep
<1>10. ASSUME NEW p \in Visits, SaveSession(p) \/ SkipSave(p)
       PROVE  ItemsOf(visit'[v].sent) \subseteq ItemsOf(visit'[v].values) \cup visit'[v].gone
  <2>1. CASE p = v
    <3>1. /\ visit'[v].sent = visit[v].sent /\ visit'[v].values = visit[v].values
          /\ visit'[v].gone = visit[v].gone /\ visit[v].at = "handling"
      BY <1>10, <2>1, AnsweredStep DEF Same
    <3> QED
      BY <3>1 DEF Conserved
  <2> QED
    BY <1>1, <1>2, <1>10, <2>1, AnsweredStep
<1>11. ASSUME NEW p \in Visits, TakeAnswer(p) \/ DropAnswer(p) PROVE visit'[v] = visit[v]
  <2>1. p # v
    BY <1>11, VisitOver, NoVisitType
  <2> QED
    BY <1>2, <1>11, <2>1, VisitOver
<1> QED
  BY <1>1, <1>4, <1>5, <1>6, <1>7, <1>8, <1>9, <1>10, <1>11 DEF FlashNext

LEMMA KeptStep ==
    FlashTypes /\ Conserved /\ KeptEverywhere /\ [FlashNext]_flashVars => KeptEverywhere'
<1> SUFFICES ASSUME FlashTypes, Conserved, KeptEverywhere, [FlashNext]_flashVars,
                    NEW i \in (arrived \ (ended \cup raced))'
             PROVE  /\ i \in ItemsOf(Decoded')
                    /\ \A v \in Outstanding' : i \in ItemsOf(visit'[v].sent)
  BY DEF KeptEverywhere, ItemsOf
<1>1. CASE UNCHANGED flashVars
  BY <1>1 DEF KeptEverywhere, flashVars, Outstanding, Decoded
<1>2. CASE Restart
  BY <1>2 DEF Restart
<1>3. ASSUME NEW v \in Visits, Visit(v) \/ WrapFlash(v) \/ ClearSession(v) \/ SaveSession(v)
             \/ SkipSave(v) \/ DropAnswer(v) \/ \E slot \in {"value", "flash"} : Store(v, slot)
      PROVE  /\ i \in ItemsOf(Decoded')
             /\ \A p \in Outstanding' : i \in ItemsOf(visit'[p].sent)
  <2>1. Decoded' = Decoded /\ i \in arrived \ (ended \cup raced)
    BY <1>3, CookieKept
  <2>2. i \in ItemsOf(Decoded) /\ \A p \in Outstanding : i \in ItemsOf(visit[p].sent)
    BY <2>1 DEF KeptEverywhere
  <2>3. ASSUME NEW p \in Outstanding' PROVE i \in ItemsOf(visit'[p].sent)
    <3>1. CASE visit'[p] = visit[p]
      BY <2>2, <2>3, <3>1 DEF Outstanding
    <3>2. CASE p = v
      <4>1. CASE Visit(v)
        BY <2>2, <3>2, <4>1, VisitStep
      <4>2. CASE ~Visit(v)
        <5>1. visit'[v].sent = visit[v].sent /\ visit[v].at # "idle"
          BY <1>3, <2>3, <3>2, <4>2, WrapFlashStep, ClearSessionStep, AnsweredStep, StoreStep,
             VisitOver, NoVisitType DEF Same, Outstanding
        <5> QED
          BY <2>2, <3>2, <5>1 DEF Outstanding
      <4> QED
        BY <4>1, <4>2
    <3>3. Others(v)
      BY <1>3, VisitStep, WrapFlashStep, ClearSessionStep, AnsweredStep, StoreStep, VisitOver
    <3> QED
      BY <2>3, <3>1, <3>2, <3>3 DEF Others, Outstanding
  <2> QED
    BY <2>1, <2>2, <2>3
<1>4. ASSUME NEW v \in Visits, TakeAnswer(v)
      PROVE  /\ i \in ItemsOf(Decoded')
             /\ \A p \in Outstanding' : i \in ItemsOf(visit'[p].sent)
  <2>1. /\ Others(v) /\ visit[v].at = "answered" /\ visit'[v].at = "idle"
        /\ v \in Outstanding
    BY <1>4, VisitOver, NoVisitType DEF Outstanding
  <2>2. Outstanding' \subseteq Outstanding \ {v} /\ \A p \in Outstanding' : visit'[p] = visit[p]
    BY <2>1 DEF Others, Outstanding
  <2>3. CASE i \in arrived \ (ended \cup raced)
    <3>1. i \in ItemsOf(Decoded) /\ \A p \in Outstanding : i \in ItemsOf(visit[p].sent)
      BY <2>3 DEF KeptEverywhere
    <3>2. CASE visit[v].reply
      <4>1. i \in ItemsOf(visit[v].values) \cup visit[v].gone
        BY <2>1, <3>1 DEF Conserved
      <4>2. i \notin visit[v].gone
        BY <1>4, <3>2 DEF TakeAnswer
      <4> QED
        BY <1>4, <2>2, <3>1, <3>2, <4>1, <4>2, CookieTaken
    <3> QED
      BY <1>4, <2>2, <3>1, <3>2, CookieTaken
  <2>4. CASE ~(i \in arrived \ (ended \cup raced))
    <3>1. visit[v].reply
      BY <1>4, <2>4 DEF TakeAnswer
    <3>2. i \in ItemsOf(visit[v].values) \ arrived
      BY <1>4, <2>4, <3>1 DEF TakeAnswer
    <3>3. \A p \in Outstanding \ {v} : i \in ItemsOf(visit[p].sent)
      BY <1>4, <3>1, <3>2 DEF TakeAnswer
    <3> QED
      BY <1>4, <2>2, <3>1, <3>2, <3>3, CookieTaken
  <2> QED
    BY <2>3, <2>4
<1> QED
  BY <1>1, <1>2, <1>3, <1>4 DEF FlashNext

\* What an answer brought to the browser (session.Set, saveWriter.save) stays
\* there until a request that carries it removes or replaces it, unless another
\* request was under way as it arrived: for any number of requests and restarts.
THEOREM ValuesKept == FlashSpec => []KeptUnlessRaced
<1>1. FlashInit => FlashTypes /\ Conserved /\ KeptEverywhere
  BY FlashInitially, NoVisitType DEF Conserved, KeptEverywhere, FlashInit
<1>2. KeptEverywhere => KeptUnlessRaced
  BY DEF KeptEverywhere, KeptUnlessRaced
<1> QED
  BY <1>1, <1>2, FlashTypesStep, ConservedStep, KeptStep, PTL DEF FlashSpec

-----------------------------------------------------------------------------
(* flash: where a message that may not be shown again still is.             *)

\* Written into the session of a request that is not over.
Draft(v, m) == visit[v].at \in {"handling", "answered"} /\ visit[v].values.flash = m

\* Sent along with a request that is not over.
Carrier(v, m) == visit[v].at # "idle" /\ visit[v].sent.flash = m

\* A message's number was given to it.
Numbered == /\ shown \subseteq 1..written /\ Decoded.flash \in 0..written
            /\ \A v \in Visits : visit[v].sent.flash \in 0..written /\ visit[v].values.flash \in 0..written

\* An answer that has no cookie excuses what its request carried.
Unsaved == \A v \in Visits : visit[v].at = "answered" /\ ~visit[v].reply =>
                                  visit[v].sent.flash \in excused \cup {NoItem}

\* A draft is nowhere else.
DraftAlone(m) == \A v \in Visits : Draft(v, m) =>
                    /\ m \notin shown /\ Decoded.flash # m
                    /\ \A p \in Visits : ~Carrier(p, m) /\ (Draft(p, m) => p = v)

\* A message is under way with one request.
OneCarrier(m) == \A v, p \in Visits : Carrier(v, m) /\ Carrier(p, m) => v = p

\* Once shown it is in the browser only while the request that got it is not over.
ShownGoes(m) == m \in shown => /\ \A v \in Visits : Carrier(v, m) => visit[v].at # "sent"
                               /\ Decoded.flash = m => \E v \in Visits : Carrier(v, m)

InOnePlace == \A m \in (1..written) \ excused : DraftAlone(m) /\ OneCarrier(m) /\ ShownGoes(m)

OnceInv == FlashTypes /\ Numbered /\ Unsaved /\ InOnePlace /\ FlashOnce

LEMMA OnceInitially == FlashInit => OnceInv
<1> SUFFICES ASSUME FlashInit PROVE OnceInv
  OBVIOUS
<1>1. FlashTypes /\ Decoded.flash = 0 /\ written = 0 /\ shown = {} /\ again = {}
  BY FlashInitially DEF FlashInit, NoValues, NoItem
<1>2. \A v \in Visits : visit[v].at = "idle" /\ visit[v].sent.flash = 0 /\ visit[v].values.flash = 0
  BY FlashInitially DEF NoVisit, NoValues, NoItem
<1> QED
  BY <1>1, <1>2 DEF OnceInv, Numbered, Unsaved, InOnePlace, FlashOnce

LEMMA OnceStep == OnceInv /\ [FlashNext]_flashVars => OnceInv'
<1> SUFFICES ASSUME OnceInv, [FlashNext]_flashVars PROVE OnceInv'
  OBVIOUS
<1>0. FlashTypes /\ FlashTypes' /\ Numbered /\ Unsaved /\ InOnePlace /\ FlashOnce
  BY FlashTypesStep DEF OnceInv
<1>t. /\ written \in Nat /\ Decoded \in Values
      /\ \A v \in Visits : visit[v].sent \in Values /\ visit[v].values \in Values
  BY <1>0, DecodedType DEF FlashTypes, AVisit
<1>n. NoVisit.at = "idle" /\ NoVisit.sent.flash = 0 /\ NoVisit.values.flash = 0 /\ NoValues.flash = 0
  BY DEF NoVisit, NoValues, NoItem
<1>1. CASE UNCHANGED flashVars
  BY <1>0, <1>1 DEF flashVars, OnceInv, Numbered, Unsaved, InOnePlace, DraftAlone, OneCarrier, ShownGoes, FlashOnce, Draft,
                    Carrier,
                    Decoded
<1>2. CASE Restart
  <2>1. UNCHANGED <<written, shown, again, excused>>
    BY <1>2 DEF Restart
  <2>2. Decoded'.flash = 0 /\ \A v \in Visits : visit'[v] = NoVisit
    BY <1>0, <1>2, <1>n, RestartStep
  <2> QED
    BY <1>0, <1>t, <1>n, <2>1, <2>2
    DEF OnceInv, Numbered, Unsaved, InOnePlace, DraftAlone, OneCarrier, ShownGoes, FlashOnce, Draft,
                    Carrier
<1>3. ASSUME NEW v \in Visits, Visit(v) PROVE OnceInv'
  <2>1. /\ Others(v) /\ visit'[v].at = "sent" /\ visit'[v].sent = Decoded
        /\ visit'[v].values.flash = 0 /\ visit[v].at = "idle"
    BY <1>0, <1>3, <1>n, VisitStep DEF Visit
  <2>2. /\ UNCHANGED <<written, shown, again>> /\ Decoded' = Decoded
        /\ excused' = excused \cup ({Decoded.flash} \cap {visit[q].sent.flash : q \in Outstanding})
    BY <1>0, <1>3, CookieKept DEF Visit
  <2>3. Numbered' /\ Unsaved' /\ FlashOnce'
    BY <1>0, <1>t, <2>1, <2>2 DEF Numbered, Unsaved, FlashOnce, Others
  <2>4. \A m \in (1..written) \ excused' : Decoded.flash = m => \A p \in Visits : ~Carrier(p, m)
    BY <2>2 DEF Carrier, Outstanding
  <2>6. InOnePlace'
    <3> SUFFICES ASSUME NEW m \in (1..written) \ excused'
                 PROVE  (DraftAlone(m) /\ OneCarrier(m) /\ ShownGoes(m))'
      BY <2>2 DEF InOnePlace
    <3>1. DraftAlone(m) /\ OneCarrier(m) /\ ShownGoes(m)
      BY <1>0, <2>2 DEF InOnePlace
    <3>2. \A p \in Visits : Draft(p, m)' => Draft(p, m)
      BY <1>t, <2>1, <2>2 DEF Draft, Others
    <3>3. \A p \in Visits : Carrier(p, m)' <=> Carrier(p, m) \/ (p = v /\ Decoded.flash = m)
      BY <1>t, <2>1, <2>2 DEF Carrier, Others
    <3>4. Decoded.flash = m => \A p \in Visits : ~Carrier(p, m)
      BY <2>4
    <3>5. Decoded.flash = m => m \notin shown
      BY <3>1, <3>4 DEF ShownGoes
    <3>6. DraftAlone(m)'
      BY <2>2, <3>1, <3>2, <3>3 DEF DraftAlone
    <3>7. OneCarrier(m)'
      BY <3>1, <3>3, <3>4 DEF OneCarrier
    <3>8. ShownGoes(m)'
      BY <2>1, <2>2, <3>1, <3>3, <3>5 DEF ShownGoes, Others, Carrier
    <3> QED
      BY <3>6, <3>7, <3>8
  <2> QED
    BY <1>0, <2>3, <2>6 DEF OnceInv
<1>4. ASSUME NEW v \in Visits, WrapFlash(v) PROVE OnceInv'
  <2> DEFINE n == visit[v].sent.flash
  <2>1. /\ Others(v) /\ visit[v].at = "sent" /\ visit'[v].at = "handling"
        /\ visit'[v].sent = visit[v].sent /\ visit'[v].values.flash = 0
    BY <1>0, <1>t, <1>4, WrapFlashStep DEF Same, Values, NoItem
  <2>2. /\ UNCHANGED <<written, excused>> /\ Decoded' = Decoded
        /\ shown' = shown \cup ({n} \ {NoItem}) /\ again' = again \cup (({n} \ {NoItem}) \cap shown)
    BY <1>0, <1>4, CookieKept DEF WrapFlash
  <2>3. n \in 0..written /\ (n # 0 => Carrier(v, n))
    BY <1>0, <2>1 DEF Numbered, Carrier
  <2>4. n \in shown => n \in excused
    BY <1>0, <2>1, <2>3 DEF InOnePlace, ShownGoes, Numbered
  <2>5. Numbered' /\ Unsaved' /\ FlashOnce'
    <3>1. Numbered'
      <4>1. shown' \subseteq 1..written
        <5>1. {n} \ {NoItem} \subseteq 1..written
          BY <1>t, <2>3 DEF NoItem
        <5> HIDE DEF n
        <5> QED
          BY <1>0, <2>2, <5>1 DEF Numbered
      <4>2. 0 \in 0..written
        BY <1>t
      <4>4. Decoded'.flash \in 0..written'
        BY <1>0, <2>2 DEF Numbered
      <4>3. ASSUME NEW p \in Visits
            PROVE  visit'[p].sent.flash \in 0..written' /\ visit'[p].values.flash \in 0..written'
        BY <1>0, <2>1, <2>2, <4>2 DEF Numbered, Others
      <4> QED
        BY <2>2, <4>1, <4>3, <4>4 DEF Numbered
    <3>2. Unsaved'
      BY <1>0, <1>t, <2>1, <2>2 DEF Unsaved, Others
    <3>3. FlashOnce'
      BY <1>0, <2>2, <2>4 DEF FlashOnce
    <3> QED
      BY <3>1, <3>2, <3>3
  <2>6. InOnePlace'
    <3> SUFFICES ASSUME NEW m \in (1..written) \ excused
                 PROVE  (DraftAlone(m) /\ OneCarrier(m) /\ ShownGoes(m))'
      BY <2>2 DEF InOnePlace
    <3>1. DraftAlone(m) /\ OneCarrier(m) /\ ShownGoes(m)
      BY <1>0 DEF InOnePlace
    <3>2. \A p \in Visits : Draft(p, m)' => Draft(p, m)
      BY <1>t, <2>1 DEF Draft, Others
    <3>3. \A p \in Visits : Carrier(p, m)' <=> Carrier(p, m)
      BY <2>1 DEF Carrier, Others
    <3>4. m \in shown' => m \in shown \/ Carrier(v, m)
      BY <1>t, <2>1, <2>2 DEF Carrier
    <3>5. DraftAlone(m)'
      BY <2>2, <3>1, <3>2, <3>3, <3>4 DEF DraftAlone
    <3>6. OneCarrier(m)'
      BY <3>1, <3>3 DEF OneCarrier
    <3>7. ShownGoes(m)'
      <4>1. ASSUME m \in shown', NEW p \in Visits, Carrier(p, m)' PROVE visit'[p].at # "sent"
        BY <2>1, <3>1, <3>3, <3>4, <4>1 DEF ShownGoes, OneCarrier, Others
      <4>2. ASSUME m \in shown', Decoded'.flash = m PROVE \E p \in Visits : Carrier(p, m)'
        BY <2>2, <3>1, <3>3, <3>4, <4>2 DEF ShownGoes
      <4> QED
        BY <4>1, <4>2 DEF ShownGoes
    <3> QED
      BY <3>5, <3>6, <3>7
  <2> QED
    BY <1>0, <2>5, <2>6 DEF OnceInv
<1>5. ASSUME NEW v \in Visits, Others(v), FlashTypes', Decoded' = Decoded,
             UNCHANGED <<shown, again>>, excused \subseteq excused',
             written' \in {written, written + 1},
             visit[v].at = "handling", visit'[v].at \in {"handling", "answered"},
             visit'[v].sent = visit[v].sent,
             \/ visit'[v].values.flash \in {visit[v].values.flash, 0}
             \/ written' = written + 1 /\ visit'[v].values.flash = written + 1,
             visit'[v].at = "answered" /\ ~visit'[v].reply =>
                 visit[v].sent.flash \in excused' \cup {NoItem}
      PROVE  OnceInv'
  <2>1. Numbered' /\ Unsaved' /\ FlashOnce'
    BY <1>0, <1>t, <1>5 DEF Numbered, Unsaved, FlashOnce, Others
  <2>2. InOnePlace'
    <3> SUFFICES ASSUME NEW m \in (1..written') \ excused'
                 PROVE  (DraftAlone(m) /\ OneCarrier(m) /\ ShownGoes(m))'
      BY DEF InOnePlace
    <3>1. \A p \in Visits : Carrier(p, m)' <=> Carrier(p, m)
      BY <1>5 DEF Carrier, Others
    <3>2. CASE m \in 1..written
      <4>1. DraftAlone(m) /\ OneCarrier(m) /\ ShownGoes(m)
        BY <1>0, <1>5, <3>2 DEF InOnePlace
      <4>2. \A p \in Visits : Draft(p, m)' => Draft(p, m)
        BY <1>t, <1>5, <3>2 DEF Draft, Others
      <4>3. DraftAlone(m)' /\ OneCarrier(m)'
        BY <1>5, <3>1, <4>1, <4>2 DEF DraftAlone, OneCarrier
      <4>4. ShownGoes(m)'
        BY <1>5, <3>1, <4>1 DEF ShownGoes, Others
      <4> QED
        BY <4>3, <4>4
    <3>3. CASE m = written + 1
      <4>1. m \notin shown /\ Decoded.flash # m /\ \A p \in Visits : ~Carrier(p, m) /\ ~Draft(p, m)
        BY <1>0, <1>t, <3>3 DEF Numbered, Carrier, Draft
      <4>2. \A p \in Visits : Draft(p, m)' => p = v
        BY <1>5, <4>1 DEF Draft, Others
      <4> QED
        BY <1>5, <3>1, <4>1, <4>2 DEF DraftAlone, OneCarrier, ShownGoes
    <3> QED
      BY <1>t, <1>5, <3>2, <3>3
  <2> QED
    BY <1>5, <2>1, <2>2 DEF OnceInv
<1>6. ASSUME NEW v \in Visits, NEW slot \in {"value", "flash"}, Store(v, slot) PROVE OnceInv'
  <2>1. /\ Others(v) /\ visit[v].at = "handling" /\ visit'[v].at = "handling"
        /\ visit'[v].sent = visit[v].sent
        /\ visit'[v].values.flash \in {visit[v].values.flash, written + 1}
    BY <1>0, <1>t, <1>6, StoreStep DEF Same, Values
  <2>2. /\ UNCHANGED <<shown, again, excused>> /\ Decoded' = Decoded /\ written' = written + 1
    BY <1>0, <1>6, CookieKept DEF Store
  <2> QED
    BY <1>0, <1>5, <2>1, <2>2
<1>7. ASSUME NEW v \in Visits, ClearSession(v) PROVE OnceInv'
  <2>1. /\ Others(v) /\ visit[v].at = "handling" /\ visit'[v].at = "handling"
        /\ visit'[v].sent = visit[v].sent /\ visit'[v].values.flash = 0
    BY <1>0, <1>n, <1>7, ClearSessionStep DEF Same
  <2>2. UNCHANGED <<shown, again, excused, written>> /\ Decoded' = Decoded
    BY <1>0, <1>7, CookieKept DEF ClearSession
  <2> QED
    BY <1>0, <1>5, <2>1, <2>2
<1>8. ASSUME NEW v \in Visits, SaveSession(v) \/ SkipSave(v) PROVE OnceInv'
  <2>1. /\ Others(v) /\ visit[v].at = "handling" /\ visit'[v].at = "answered"
        /\ visit'[v].sent = visit[v].sent /\ visit'[v].values = visit[v].values
        /\ SaveSession(v) => visit'[v].reply
    BY <1>0, <1>8, AnsweredStep DEF Same
  <2>2. /\ UNCHANGED <<shown, again, written>> /\ Decoded' = Decoded
        /\ excused \subseteq excused'
        /\ SkipSave(v) => visit[v].sent.flash \in excused' \cup {NoItem}
    BY <1>0, <1>8, CookieKept DEF SaveSession, SkipSave
  <2> QED
    BY <1>0, <1>5, <1>8, <2>1, <2>2
<1>9. ASSUME NEW v \in Visits, TakeAnswer(v) \/ DropAnswer(v) PROVE OnceInv'
  <2>1. /\ Others(v) /\ visit[v].at = "answered" /\ visit'[v].at = "idle"
        /\ visit'[v].sent.flash = 0 /\ visit'[v].values.flash = 0
    BY <1>0, <1>n, <1>9, VisitOver
  <2>2. /\ UNCHANGED <<shown, again, written>> /\ excused \subseteq excused'
        /\ DropAnswer(v) => visit[v].sent.flash \in excused' \cup {NoItem}
    BY <1>9 DEF TakeAnswer, DropAnswer
  <2>3. Decoded' = IF TakeAnswer(v) /\ visit[v].reply THEN visit[v].values ELSE Decoded
    BY <1>0, <1>9, CookieKept, CookieTaken
  <2>4. ~(TakeAnswer(v) /\ visit[v].reply) => visit[v].sent.flash \in excused' \cup {NoItem}
    BY <1>0, <1>9, <2>1, <2>2 DEF Unsaved
  <2>5. Numbered' /\ Unsaved' /\ FlashOnce'
    BY <1>0, <1>t, <2>1, <2>2, <2>3 DEF Numbered, Unsaved, FlashOnce, Others
  <2>6. InOnePlace'
    <3> SUFFICES ASSUME NEW m \in (1..written) \ excused'
                 PROVE  (DraftAlone(m) /\ OneCarrier(m) /\ ShownGoes(m))'
      BY <2>2 DEF InOnePlace
    <3>1. m # 0 /\ DraftAlone(m) /\ OneCarrier(m) /\ ShownGoes(m)
      BY <1>0, <1>t, <2>2 DEF InOnePlace
    <3>2. \A p \in Visits : Draft(p, m)' <=> p # v /\ Draft(p, m)
      BY <2>1, <3>1 DEF Draft, Others
    <3>3. \A p \in Visits : Carrier(p, m)' <=> p # v /\ Carrier(p, m)
      BY <2>1, <3>1 DEF Carrier, Others
    <3>4. OneCarrier(m)'
      BY <3>1, <3>3 DEF OneCarrier
    <3>5. CASE TakeAnswer(v) /\ visit[v].reply
      <4>1. Decoded'.flash = m => Draft(v, m)
        BY <2>1, <2>3, <3>5 DEF Draft
      <4>2. DraftAlone(m)'
        BY <2>2, <3>1, <3>2, <3>3, <4>1 DEF DraftAlone
      <4>3. ShownGoes(m)'
        BY <2>1, <2>2, <3>1, <3>3, <4>1 DEF ShownGoes, DraftAlone, Others
      <4> QED
        BY <3>4, <4>2, <4>3
    <3>6. CASE ~(TakeAnswer(v) /\ visit[v].reply)
      <4>1. Decoded' = Decoded /\ ~Carrier(v, m)
        BY <2>3, <2>4, <3>1, <3>6 DEF Carrier, NoItem
      <4>2. DraftAlone(m)'
        BY <2>2, <3>1, <3>2, <3>3, <4>1 DEF DraftAlone
      <4>3. ShownGoes(m)'
        BY <2>1, <2>2, <3>1, <3>3, <4>1 DEF ShownGoes, Others
      <4> QED
        BY <3>4, <4>2, <4>3
    <3> QED
      BY <3>5, <3>6
  <2> QED
    BY <1>0, <2>5, <2>6 DEF OnceInv
<1> QED
  BY <1>1, <1>2, <1>3, <1>4, <1>6, <1>7, <1>8, <1>9 DEF FlashNext

\* middleware/flash hands a message to one request, and to another one only if
\* both carried it, or if the answer that should have removed it from the
\* browser had no cookie or was lost: for any number of requests and restarts.
THEOREM ShownOnce == FlashSpec => []FlashOnce
<1>1. OnceInv => FlashOnce
  BY DEF OnceInv
<1> QED
  BY <1>1, OnceInitially, OnceStep, PTL DEF FlashSpec

-----------------------------------------------------------------------------
(* engine: the bridge of a VM from lease to lease.                          *)

ATable == [Functions -> Nat]
AnObject == [functions : ATable, memoized : BOOLEAN]

BridgeTypes ==
    /\ engine \in {"goja", "sobek", "v8go", "qjs", "quickjsgo", "moderncquickjs"}
    /\ objects \in Seq(AnObject) /\ bridge \in [target : Nat, caches : Seq(ATable)]
    /\ handle \in Nat /\ diFuncs \in ATable
    /\ context \in Nat /\ sink \in Nat /\ served \in Nat
    /\ at \in {"idle", "extracting", "injecting", "ready", "running", "drained"}
    /\ injected \in 0..Len(Injectors)

\* The bridge is the newest object, and so is the one goja and sobek remember;
\* quickjsgo remembers the first, which is the bridge of the first lease only.
Newest ==
    /\ bridge.target = Len(objects) /\ handle \in DOMAIN objects
    /\ engine \in {"goja", "sobek"} => handle = bridge.target
    /\ engine = "quickjsgo" =>
           handle = 1 /\ (bridge.target = 1 <=> served = 0 \/ (at # "idle" /\ served = 1))

InUse == at \in {"injecting", "ready", "running"}
Reached == ~(engine = "quickjsgo" /\ served > 1)
Latest == IF injected = 0 THEN {} ELSE Injectors[injected]

\* An unused VM's bridge is empty.
Clean == at \in {"idle", "extracting"} =>
             /\ context = None /\ sink = None /\ bridge.caches = <<>>
             /\ \A f \in Functions : objects[bridge.target].functions[f] = None /\ diFuncs[f] = None

\* The functions in place are those of the injector that ran last.
Filled == InUse => \A f \in Functions :
    /\ objects[bridge.target].functions[f] = IF Reached /\ f \in Latest THEN served ELSE None
    /\ engine = "moderncquickjs" => diFuncs[f] = IF f \in Latest THEN served ELSE None

\* A cache is empty before the program runs; then all of a function's nested
\* caches have this request's result, or none has one.
Caches == InUse => \A f \in Functions :
    \/ \A i \in DOMAIN bridge.caches : bridge.caches[i][f] = None
    \/ at = "running" /\ \A i \in DOMAIN bridge.caches : bridge.caches[i][f] = served

Progress == /\ at # "idle" => served > 0
            /\ at \in {"ready", "running"} => injected = Len(Injectors)
            /\ at \in {"ready", "running"} => context = served
            /\ at = "running" => sink \in {None, served}

BridgeInv == BridgeTypes /\ Newest /\ Clean /\ Filled /\ Caches /\ Progress

LEMMA NoneGiven == /\ NoFunctions \in ATable /\ NewObject \in AnObject
                   /\ NewObject.functions = NoFunctions
                   /\ \A f \in Functions : NoFunctions[f] = None
                   /\ None = 0
BY DEF NoFunctions, ATable, NewObject, AnObject, None

Updated(s, i, e) == [s EXCEPT ![i] = e]

LEMMA SeqUpdate ==
    ASSUME NEW S, NEW s \in Seq(S), NEW i \in DOMAIN s, NEW e \in S
    PROVE  LET t == Updated(s, i, e)
           IN  /\ t \in Seq(S) /\ Len(t) = Len(s) /\ DOMAIN t = DOMAIN s
               /\ t[i] = e /\ \A j \in DOMAIN s \ {i} : t[j] = s[j]
BY DEF Updated

LEMMA GivenTable ==
    ASSUME served \in Nat, NEW names
    PROVE  Given(names) \in ATable /\ \A f \in Functions : Given(names)[f] = IF f \in names THEN served ELSE None
BY DEF Given, ATable, None

\* A program finds what its own request gave it: the caches agree with it.
LEMMA AnswerIsOwn ==
    ASSUME BridgeInv, InUse, NEW f \in Functions
    PROVE  Answer(f) = IF Reached /\ f \in Latest THEN served ELSE None
<1>0. BridgeTypes /\ Filled /\ Caches /\ Progress /\ served > 0
  BY DEF BridgeInv, Progress, InUse
<1>1. objects[bridge.target].functions[f] # None => Call(f) = IF f \in Latest THEN served ELSE None
  BY <1>0 DEF Call, Filled, Reached
<1>2. Holds(f) # {} => Holds(f) = DOMAIN bridge.caches
                       /\ \A i \in DOMAIN bridge.caches : bridge.caches[i][f] = served
  BY <1>0 DEF Holds, Caches, None, BridgeTypes
<1>3. ASSUME Holds(f) # {}
      PROVE  \A i \in Holds(f) : bridge.caches[i][f] = served
  BY <1>2, <1>3
<1>4. ASSUME Holds(f) # {}
      PROVE  (CHOOSE i \in Holds(f) : \A j \in Holds(f) : j <= i) \in Holds(f)
  <2>1. Len(bridge.caches) \in Nat /\ DOMAIN bridge.caches = 1..Len(bridge.caches)
    BY <1>0 DEF BridgeTypes
  <2>2. Len(bridge.caches) \in Holds(f) /\ \A j \in Holds(f) : j <= Len(bridge.caches)
    BY <1>2, <1>4, <2>1
  <2> QED
    BY <2>2
<1> QED
  BY <1>0, <1>1, <1>3, <1>4 DEF Answer, Filled

LEMMA BridgeInitially == BridgeInit => BridgeInv
<1> SUFFICES ASSUME BridgeInit PROVE BridgeInv
  OBVIOUS
<1>1. Len(Injectors) \in Nat
  BY BridgeAssumption
<1> QED
  BY <1>1, NoneGiven, BridgeAssumption
     DEF BridgeInit, BridgeInv, BridgeTypes, Newest, Clean, Filled, Caches, Progress, InUse, NewBridge

LEMMA LeaseStep ==
    ASSUME BridgeInv, NEW use \in {"injecting", "extracting"}, Lease(use)
    PROVE  BridgeInv'
<1>0. BridgeTypes /\ Newest /\ Clean /\ Len(Injectors) \in Nat
  BY BridgeAssumption DEF BridgeInv
<1>1. BridgeTypes'
  BY <1>0 DEF BridgeTypes, Lease
<1>2. Newest'
  BY <1>0 DEF Newest, Lease, BridgeTypes
<1>3. Clean'
  BY <1>0 DEF Clean, Lease
<1>4. Filled'
  BY <1>0 DEF Filled, Clean, Lease, InUse, Latest, BridgeTypes
<1>5. Caches' /\ Progress'
  BY <1>0 DEF Caches, Clean, Lease, InUse, Progress, BridgeTypes
<1> QED
  BY <1>1, <1>2, <1>3, <1>4, <1>5 DEF BridgeInv

\* What an injector's functions do to the bridge, whichever object the engine fills.
LEMMA SetFunctions ==
    ASSUME BridgeInv, at # "idle", NEW names
    PROVE  LET filled == SetDependencyInjection(names)
           IN  /\ filled \in Seq(AnObject) /\ Len(filled) = Len(objects)
               /\ bridge.target \in DOMAIN filled
               /\ \A f \in Functions : filled[bridge.target].functions[f]
                                       = IF Reached /\ f \in names THEN served ELSE None
<1> DEFINE new == [functions |-> NoFunctions,
                   memoized |-> engine = "v8go" /\ objects[Emptied].memoized]
           filling == IF HoldsHandle THEN handle ELSE bridge.target
           table == [f \in Functions |-> IF f \in names THEN served
                                         ELSE EmptiedObjects[filling].functions[f]]
           filled == [EmptiedObjects EXCEPT ![filling].functions = table]
<1>0. BridgeTypes /\ Newest /\ served \in Nat /\ served > 0
  BY DEF BridgeInv, BridgeTypes, Progress
<1>1. /\ Len(objects) \in Nat /\ DOMAIN objects = 1..Len(objects) /\ objects \in Seq(AnObject)
      /\ \A i \in DOMAIN objects : objects[i] \in AnObject
  BY <1>0 DEF BridgeTypes
<1>2. bridge.target \in DOMAIN objects /\ bridge.target = Len(objects) /\ handle \in DOMAIN objects
  BY <1>0, <1>1 DEF Newest
<1>3. Emptied \in DOMAIN objects /\ filling \in DOMAIN objects
  BY <1>2 DEF Emptied
<1>4. /\ EmptiedObjects \in Seq(AnObject) /\ Len(EmptiedObjects) = Len(objects)
      /\ DOMAIN EmptiedObjects = DOMAIN objects
      /\ EmptiedObjects[Emptied].functions = NoFunctions
      /\ \A i \in DOMAIN objects \ {Emptied} : EmptiedObjects[i] = objects[i]
  <2>1. new \in AnObject /\ new.functions = NoFunctions
    BY NoneGiven DEF AnObject
  <2>2. EmptiedObjects = Updated(objects, Emptied, new)
    BY DEF EmptiedObjects, Updated
  <2> HIDE DEF new
  <2>3. LET t == Updated(objects, Emptied, new)
        IN  /\ t \in Seq(AnObject) /\ Len(t) = Len(objects) /\ DOMAIN t = DOMAIN objects
            /\ t[Emptied] = new /\ \A i \in DOMAIN objects \ {Emptied} : t[i] = objects[i]
    <3>1. objects \in Seq(AnObject) /\ Emptied \in DOMAIN objects
      BY <1>1, <1>3
    <3>2. new \in AnObject
      BY <2>1
    <3> QED
      BY <3>1, <3>2, SeqUpdate
  <2> QED
    BY <2>1, <2>2, <2>3
<1>5. Emptied = bridge.target /\ (filling = bridge.target <=> Reached)
  <2>1. CASE engine = "quickjsgo"
    <3>1. handle = 1 /\ (bridge.target = 1 <=> served = 1)
      BY <1>0, <2>1 DEF Newest
    <3> QED
      BY <1>0, <2>1, <3>1 DEF Emptied, HoldsHandle, Reached
  <2>2. CASE engine # "quickjsgo"
    BY <1>0, <2>2 DEF Emptied, Newest, HoldsHandle, Reached
  <2> QED
    BY <2>1, <2>2
<1>6. SetDependencyInjection(names) = filled
  BY DEF SetDependencyInjection
<1> HIDE DEF filling
<1>7. EmptiedObjects[filling] \in AnObject
  BY <1>3, <1>4
<1>8. table \in ATable
  BY <1>0, <1>7 DEF AnObject, ATable
<1> HIDE DEF table
<1>9. filled \in Seq(AnObject) /\ Len(filled) = Len(objects) /\ filled[filling].functions = table
      /\ \A i \in DOMAIN objects \ {filling} : filled[i] = EmptiedObjects[i]
  BY <1>1, <1>3, <1>4, <1>7, <1>8 DEF AnObject
<1> HIDE DEF filled
<1>10. \A f \in Functions : filled[bridge.target].functions[f]
                            = IF Reached /\ f \in names THEN served ELSE None
  <2>1. CASE Reached
    BY <1>4, <1>5, <1>9, <2>1, NoneGiven DEF table
  <2>2. CASE ~Reached
    BY <1>2, <1>4, <1>5, <1>9, <2>2, NoneGiven
  <2> QED
    BY <2>1, <2>2
<1> QED
  BY <1>1, <1>2, <1>6, <1>9, <1>10

LEMMA InjectStep ==
    ASSUME BridgeInv, Inject
    PROVE  BridgeInv'
<1> DEFINE names == Injectors[injected + 1]
           filled == SetDependencyInjection(names)
<1>0. /\ BridgeTypes /\ Newest /\ Caches /\ Progress
      /\ at = "injecting" /\ injected < Len(Injectors) /\ Len(Injectors) \in Nat
  BY BridgeAssumption DEF BridgeInv, Inject
<1>1. /\ filled \in Seq(AnObject) /\ Len(filled) = Len(objects)
      /\ bridge.target \in DOMAIN filled
      /\ \A f \in Functions : filled[bridge.target].functions[f]
                              = IF Reached /\ f \in names THEN served ELSE None
  BY <1>0, SetFunctions
<1>2. /\ diFuncs' = IF engine = "moderncquickjs" THEN Given(names) ELSE diFuncs
      /\ objects' = [filled EXCEPT ![bridge.target].memoized = TRUE]
      /\ bridge' = IF filled[bridge.target].memoized THEN bridge
                   ELSE [bridge EXCEPT !.caches = Append(@, NoFunctions)]
      /\ injected' = injected + 1
      /\ UNCHANGED <<engine, handle, context, sink, at, served>>
  BY DEF Inject
<1> HIDE DEF filled, names
<1>3. /\ objects' \in Seq(AnObject) /\ Len(objects') = Len(filled)
      /\ objects'[bridge.target].functions = filled[bridge.target].functions
  <2> DEFINE target == bridge.target
             new == [filled[target] EXCEPT !.memoized = TRUE]
  <2>1. filled \in Seq(AnObject) /\ target \in DOMAIN filled /\ filled[target] \in AnObject
    BY <1>1
  <2>2. new \in AnObject /\ new.functions = filled[target].functions
    BY <2>1 DEF AnObject
  <2>3. objects' = Updated(filled, target, new)
    BY <1>2 DEF Updated
  <2> HIDE DEF new, target
  <2>4. /\ Updated(filled, target, new) \in Seq(AnObject)
        /\ Len(Updated(filled, target, new)) = Len(filled)
        /\ Updated(filled, target, new)[target] = new
    BY <2>1, <2>2, SeqUpdate
  <2> QED
    BY <2>2, <2>3, <2>4 DEF target
<1>4. bridge'.target = bridge.target /\ bridge' \in [target : Nat, caches : Seq(ATable)]
      /\ \A f \in Functions : \A i \in DOMAIN bridge'.caches : bridge'.caches[i][f] = None
  <2>1. bridge.caches \in Seq(ATable)
        /\ \A f \in Functions : \A i \in DOMAIN bridge.caches : bridge.caches[i][f] = None
    BY <1>0 DEF BridgeTypes, Caches, InUse
  <2>2. Append(bridge.caches, NoFunctions) \in Seq(ATable)
        /\ \A f \in Functions : \A i \in DOMAIN Append(bridge.caches, NoFunctions) :
               Append(bridge.caches, NoFunctions)[i][f] = None
    BY <2>1, NoneGiven
  <2> QED
    BY <1>0, <1>2, <2>1, <2>2 DEF BridgeTypes
<1>5. BridgeTypes'
  BY <1>0, <1>1, <1>2, <1>3, <1>4, GivenTable DEF BridgeTypes
<1>6. Newest'
  <2>1. Len(objects') = Len(objects) /\ DOMAIN objects' = DOMAIN objects
    BY <1>0, <1>1, <1>3 DEF BridgeTypes
  <2> QED
    BY <1>0, <1>2, <1>4, <2>1 DEF Newest
<1>7. Filled'
  <2>1. Latest' = names
    BY <1>0, <1>2 DEF Latest, names, BridgeTypes
  <2>2. Reached' <=> Reached
    BY <1>2 DEF Reached
  <2>3. engine = "moderncquickjs" =>
            \A f \in Functions : diFuncs'[f] = IF f \in names THEN served ELSE None
    BY <1>0, <1>2, GivenTable DEF BridgeTypes
  <2> QED
    BY <1>1, <1>2, <1>3, <1>4, <2>1, <2>2, <2>3 DEF Filled
<1>8. Clean' /\ Caches' /\ Progress'
  BY <1>0, <1>2, <1>4 DEF Clean, Caches, Progress
<1> QED
  BY <1>5, <1>6, <1>7, <1>8 DEF BridgeInv

LEMMA AskStep ==
    ASSUME BridgeInv, NEW f \in Functions, Ask(f)
    PROVE  BridgeInv'
<1> DEFINE caches == [i \in DOMAIN bridge.caches |->
                         IF \A j \in Holds(f) : j < i
                           THEN [bridge.caches[i] EXCEPT ![f] = Answer(f)] ELSE bridge.caches[i]]
<1>0. /\ BridgeTypes /\ Newest /\ Filled /\ Caches /\ Progress
      /\ at = "running" /\ InUse /\ Answer(f) # None
  BY DEF BridgeInv, Ask, InUse
<1>1. Answer(f) = served /\ served \in Nat /\ served # None
  BY <1>0, AnswerIsOwn DEF BridgeTypes
<1>2. /\ bridge' = [bridge EXCEPT !.caches = caches]
      /\ UNCHANGED <<engine, objects, handle, diFuncs, context, sink, at, served, injected>>
  BY DEF Ask
<1>3. Len(bridge.caches) \in Nat /\ DOMAIN bridge.caches = 1..Len(bridge.caches)
      /\ \A i \in DOMAIN bridge.caches : bridge.caches[i] \in ATable
  BY <1>0 DEF BridgeTypes
<1>4. caches \in Seq(ATable) /\ DOMAIN caches = DOMAIN bridge.caches
  <2>1. \A i \in DOMAIN bridge.caches : caches[i] \in ATable
    BY <1>1, <1>3 DEF ATable
  <2>2. caches \in [1..Len(bridge.caches) -> ATable]
    BY <1>3, <2>1
  <2> QED
    BY <1>3, <2>2, SeqDef
<1>5. \A i \in DOMAIN caches : \A g \in Functions \ {f} : caches[i][g] = bridge.caches[i][g]
  BY <1>3 DEF ATable
<1>6. \A i \in DOMAIN caches : caches[i][f] = served
  <2>1. CASE \A i \in DOMAIN bridge.caches : bridge.caches[i][f] = None
    BY <1>1, <1>3, <2>1 DEF Holds, ATable
  <2>2. CASE \A i \in DOMAIN bridge.caches : bridge.caches[i][f] = served
    BY <1>1, <1>3, <2>2 DEF ATable
  <2> QED
    BY <1>0, <2>1, <2>2 DEF Caches
<1> HIDE DEF caches
<1>7. bridge'.target = bridge.target /\ bridge'.caches = caches
      /\ bridge' \in [target : Nat, caches : Seq(ATable)]
  BY <1>0, <1>2, <1>4 DEF BridgeTypes
<1>8. BridgeTypes' /\ Newest' /\ Clean' /\ Progress'
  BY <1>0, <1>2, <1>7 DEF BridgeTypes, Newest, Clean, Progress
<1>9. Filled'
  BY <1>0, <1>2, <1>7 DEF Filled, InUse, Reached, Latest
<1>10. Caches'
  BY <1>0, <1>2, <1>4, <1>5, <1>6, <1>7 DEF Caches
<1> QED
  BY <1>8, <1>9, <1>10 DEF BridgeInv

LEMMA ResetStep ==
    ASSUME BridgeInv, ClearState
    PROVE  BridgeInv'
<1> DEFINE emptied == IF engine \in {"goja", "sobek", "v8go"}
                        THEN [objects EXCEPT ![Emptied].functions = NoFunctions] ELSE objects
<1>0. BridgeTypes /\ Newest /\ Progress /\ at \in {"drained", "extracting"} /\ served > 0
  BY DEF BridgeInv, ClearState, Progress
<1>1. /\ objects' = Append(emptied, NewObject)
      /\ bridge' = [target |-> Len(objects'), caches |-> <<>>]
      /\ handle' = IF engine \in {"goja", "sobek"} THEN Len(objects') ELSE handle
      /\ diFuncs' = NoFunctions /\ context' = None /\ sink' = None /\ at' = "idle"
      /\ UNCHANGED <<engine, served, injected>>
  BY DEF ClearState, ResetBridge
<1>2. emptied \in Seq(AnObject) /\ Len(emptied) = Len(objects) /\ Len(objects) \in Nat
  <2> DEFINE old == objects[Emptied]
             new == [old EXCEPT !.functions = NoFunctions]
  <2>1. Len(objects) \in Nat /\ Emptied \in DOMAIN objects
    BY <1>0 DEF BridgeTypes, Newest, Emptied
  <2>2. old \in AnObject
    BY <1>0, <2>1 DEF BridgeTypes
  <2>3. new \in AnObject
    BY <2>2, NoneGiven DEF AnObject
  <2>4. CASE engine \in {"goja", "sobek", "v8go"}
    <3>1. emptied = Updated(objects, Emptied, new)
      BY <2>4 DEF Updated
    <3> HIDE DEF new, old, emptied
    <3> QED
      BY <1>0, <2>1, <2>3, <3>1, SeqUpdate DEF BridgeTypes
  <2>5. CASE engine \notin {"goja", "sobek", "v8go"}
    BY <1>0, <2>1, <2>5 DEF BridgeTypes
  <2> QED
    BY <2>4, <2>5
<1> HIDE DEF emptied
<1>3. objects' \in Seq(AnObject) /\ Len(objects') = Len(objects) + 1 /\ objects'[Len(objects')] = NewObject
  BY <1>1, <1>2, NoneGiven
<1>4. BridgeTypes'
  BY <1>0, <1>1, <1>2, <1>3, NoneGiven DEF BridgeTypes
<1>5. Newest'
  BY <1>0, <1>1, <1>2, <1>3 DEF Newest, BridgeTypes
<1>6. Clean'
  BY <1>1, <1>3, NoneGiven DEF Clean
<1>7. Filled' /\ Caches' /\ Progress'
  BY <1>1 DEF Filled, Caches, Progress, InUse
<1> QED
  BY <1>4, <1>5, <1>6, <1>7 DEF BridgeInv

LEMMA BridgeStep == BridgeInv /\ [BridgeNext]_bridgeVars => BridgeInv'
<1> SUFFICES ASSUME BridgeInv, [BridgeNext]_bridgeVars PROVE BridgeInv'
  OBVIOUS
<1>0. BridgeTypes /\ Newest /\ Clean /\ Filled /\ Caches /\ Progress
  BY DEF BridgeInv
<1>1. CASE NewRuntime
  BY <1>0, <1>1, NoneGiven
     DEF NewRuntime, BridgeInv, BridgeTypes, Newest, Clean, Filled, Caches, Progress, InUse, NewBridge
<1>2. CASE PrepareVM \/ ExtractDocumentProps
  BY <1>2, LeaseStep DEF PrepareVM, ExtractDocumentProps
<1>3. CASE SetRequestContext
  <2>1. BridgeTypes' /\ Newest' /\ Clean' /\ Progress'
    BY <1>0, <1>3 DEF SetRequestContext, BridgeTypes, Newest, Clean, Progress
  <2>2. Filled' /\ Caches'
    BY <1>0, <1>3 DEF SetRequestContext, Filled, Caches, InUse, Reached, Latest
  <2> QED
    BY <2>1, <2>2 DEF BridgeInv
<1>4. CASE StartRender
  <2>0. context = served
    BY <1>0, <1>4 DEF StartRender, Progress
  <2>1. BridgeTypes' /\ Newest' /\ Clean'
    BY <1>0, <1>4, NoneGiven DEF StartRender, BridgeTypes, Newest, Clean
  <2>2. Filled' /\ Caches'
    BY <1>0, <1>4 DEF StartRender, Filled, Caches, InUse, Reached, Latest
  <2>3. Progress'
    BY <1>0, <1>4, <2>0 DEF StartRender, Progress
  <2> QED
    BY <2>1, <2>2, <2>3 DEF BridgeInv
<1>5. CASE GiveUp \/ \E failed \in BOOLEAN : DrainStream(failed)
  <2>1. /\ at' = "drained" /\ at # "idle" /\ sink' \in {None, sink}
        /\ UNCHANGED <<engine, objects, bridge, handle, diFuncs, context, served, injected>>
    BY <1>5 DEF GiveUp, DrainStream, InUse
  <2>2. BridgeTypes' /\ Newest'
    BY <1>0, <2>1, NoneGiven DEF BridgeTypes, Newest
  <2>3. Clean' /\ Filled' /\ Caches' /\ Progress'
    BY <1>0, <2>1 DEF Clean, Filled, Caches, Progress, InUse
  <2> QED
    BY <2>2, <2>3 DEF BridgeInv
<1>6. CASE UNCHANGED bridgeVars
  BY <1>0, <1>6 DEF bridgeVars, BridgeInv, BridgeTypes, Newest, Clean, Filled, Caches, Progress,
                    InUse, Reached, Latest
<1> QED
  BY <1>1, <1>2, <1>3, <1>4, <1>5, <1>6, InjectStep, AskStep, ResetStep DEF BridgeNext

LEMMA BridgeAlways == BridgeSpec => []BridgeInv
BY BridgeInitially, BridgeStep, PTL DEF BridgeSpec

LEMMA RunningAnswer ==
    ASSUME BridgeInv, at = "running", NEW f \in Functions
    PROVE  Answer(f) = IF Reached /\ f \in Entitled THEN served ELSE None
<1>1. InUse /\ injected = Len(Injectors)
  BY DEF BridgeInv, Progress, InUse
<1>2. Latest = Entitled
  BY <1>1, BridgeAssumption DEF Latest, Entitled
<1> QED
  BY <1>1, <1>2, AnswerIsOwn

\* A program finds its own request's functions and results under
\* __DEPENDENCY_INJECTION__, or with quickjsgo none, and a VM in the pool keeps
\* nothing: whatever the engine, the injectors and the renders before
\* (SetDependencyInjection, BridgeMemoSrc, clearState).
THEOREM OwnBridgeOnly == BridgeSpec => []OwnBridge
<1>1. BridgeInv => OwnBridge
  <2> SUFFICES ASSUME BridgeInv PROVE OwnBridge
    OBVIOUS
  <2>1. ASSUME at \in {"idle", "extracting"}
        PROVE  context = None /\ sink = None /\ \A f \in Functions : Answer(f) = None
    BY <2>1 DEF BridgeInv, Clean, Answer
  <2>2. ASSUME at = "running"
        PROVE  /\ context = served /\ sink \in {None, served}
               /\ \A f \in Functions : \/ Answer(f) = IF f \in Entitled THEN served ELSE None
                                       \/ engine = "quickjsgo" /\ served > 1 /\ Answer(f) = None
    BY <2>2, RunningAnswer DEF BridgeInv, Progress, Reached
  <2> QED
    BY <2>1, <2>2 DEF OwnBridge
<1> QED
  BY <1>1, BridgeAlways, PTL

\* With every engine but quickjsgo a program does find them, on every lease of
\* its VM ("SetDependencyInjection installs bridge functions").
THEOREM OthersReachFunctions == BridgeSpec => [](engine # "quickjsgo" => FunctionsReached)
<1>1. BridgeInv => (engine # "quickjsgo" => FunctionsReached)
  <2> SUFFICES ASSUME BridgeInv, engine # "quickjsgo", at = "running", NEW f \in Entitled
               PROVE  Answer(f) = served
    BY DEF FunctionsReached
  <2>1. f \in Functions
    BY BridgeAssumption DEF Entitled
  <2> QED
    BY <2>1, RunningAnswer DEF Reached
<1> QED
  BY <1>1, BridgeAlways, PTL

-----------------------------------------------------------------------------
(* routing: the order of the sort, what the trie holds of the patterns it   *)
(* is made of, and what the search finds in it.  First what is used of      *)
(* numbers.                                                                 *)

\* A set of natural numbers has a least element.
LEMMA LeastNatural == ASSUME NEW S, S \subseteq Nat, S # {}
                      PROVE  \E x \in S : \A y \in S : x <= y
<1>1. PICK x \in S : \A y \in S : ~ (<<y, x>> \in OpToRel(<, Nat))
  BY NatLessThanWellFounded, WFMin, Zenon
<1>2. \A y \in S : ~ (y < x)
  BY <1>1 DEF OpToRel
<1> QED
  BY <1>2

\* A set of natural numbers that has zero and each one's successor has them all.
LEMMA NatInductive == ASSUME NEW A \in SUBSET Nat, 0 \in A, \A n \in A : n + 1 \in A
                      PROVE  A = Nat
<1> SUFFICES ASSUME Nat \ A # {} PROVE FALSE
  OBVIOUS
<1>1. PICK n \in Nat \ A : \A y \in Nat \ A : n <= y
  BY LeastNatural
<1>2. n - 1 \in Nat /\ n - 1 \notin Nat \ A
  BY <1>1
<1> QED
  BY <1>1, <1>2

LEMMA MinIs == ASSUME NEW S, S \subseteq Nat, S # {}
               PROVE  Min(S) \in S /\ \A y \in S : Min(S) <= y
<1>1. \E x \in S : \A y \in S : x <= y
  BY LeastNatural
<1> QED
  BY <1>1 DEF Min

LEMMA MaxIs == ASSUME NEW S, NEW n \in Nat, S \subseteq 0..n, S # {}
               PROVE  Max(S) \in S /\ \A y \in S : y <= Max(S)
<1> DEFINE U == {m \in Nat : \A y \in S : y <= m}
<1>1. PICK m \in U : \A k \in U : m <= k
  <2>1. n \in U
    OBVIOUS
  <2> QED
    BY <2>1, LeastNatural
<1>2. m \in S
  <2> SUFFICES ASSUME m \notin S PROVE FALSE
    OBVIOUS
  <2>1. PICK y \in S : TRUE
    OBVIOUS
  <2>2. m - 1 \in U
    BY <1>1, <2>1
  <2> QED
    BY <1>1, <2>2
<1>3. \E x \in S : \A y \in S : x >= y
  BY <1>1, <1>2
<1> QED
  BY <1>3 DEF Max

-----------------------------------------------------------------------------
(* The order of specificity.                                                *)

\* p comes before q by the first place where they differ in a field.
KindLess(p, q) == \E m \in DOMAIN p \cap DOMAIN q :
                     p[m].kind < q[m].kind /\ \A l \in 1..(m - 1) : p[l].kind = q[l].kind
ValueLess(p, q) == \E m \in DOMAIN p \cap DOMAIN q :
                     p[m].value < q[m].value /\ \A l \in 1..(m - 1) : p[l].value = q[l].value
SameKinds(p, q) == \A l \in DOMAIN p \cap DOMAIN q : p[l].kind = q[l].kind

LEMMA SegmentFields == ASSUME NEW p \in Seq(Segments), NEW k \in 1..Len(p)
                       PROVE  /\ p[k] \in Segments
                              /\ p[k].kind \in 0..3 /\ p[k].value \in Nat \ {0}
<1>1. p[k] \in Segments
  BY ElementOfSeq
<1>2. Segments = [kind : 0..3, value : Nat \ {0}]
  BY DEF Segments, SegStatic, SegOptCatchAll
<1> QED
  BY <1>1, <1>2

LEMMA PatternFields == ASSUME NEW p \in Seq(Segments)
                       PROVE  /\ Len(p) \in Nat /\ DOMAIN p = 1..Len(p)
                              /\ \A k \in 1..Len(p) : p[k] \in Segments
                              /\ \A k \in 1..Len(p) : p[k].kind \in Nat /\ p[k].value \in Nat
<1>1. Len(p) \in Nat /\ DOMAIN p = 1..Len(p)
  OBVIOUS
<1>2. \A k \in 1..Len(p) : p[k] \in Segments
  BY SegmentFields
<1>3. \A k \in 1..Len(p) : p[k].kind \in Nat /\ p[k].value \in Nat
  BY SegmentFields
<1> QED
  BY <1>1, <1>2, <1>3

LEMMA SameKindsIs ==
    ASSUME NEW p \in Seq(Segments), NEW q \in Seq(Segments)
    PROVE  SameKinds(p, q) <=> \A l \in 1..Len(p) : l <= Len(q) => p[l].kind = q[l].kind
<1>1. DOMAIN p = 1..Len(p) /\ DOMAIN q = 1..Len(q) /\ Len(p) \in Nat /\ Len(q) \in Nat
  BY PatternFields
<1>2. \A l \in 1..Len(p) : l <= Len(q) <=> l \in DOMAIN p \cap DOMAIN q
  BY <1>1
<1>3. DOMAIN p \cap DOMAIN q \subseteq 1..Len(p)
  BY <1>1
<1> QED
  BY <1>2, <1>3 DEF SameKinds

LEMMA KindLessBy == ASSUME NEW p \in Seq(Segments), NEW q \in Seq(Segments), NEW m \in Nat,
                           m \in 1..Len(p), m \in 1..Len(q), p[m].kind < q[m].kind,
                           \A l \in 1..(m - 1) : p[l].kind = q[l].kind
                    PROVE  KindLess(p, q)
BY PatternFields DEF KindLess

LEMMA KindLessGives == ASSUME NEW p \in Seq(Segments), NEW q \in Seq(Segments), KindLess(p, q)
                       PROVE  \E m \in Nat : /\ m \in 1..Len(p) /\ m \in 1..Len(q)
                                             /\ p[m].kind < q[m].kind
                                             /\ \A l \in 1..(m - 1) : p[l].kind = q[l].kind
<1>1. PICK m \in DOMAIN p \cap DOMAIN q :
          p[m].kind < q[m].kind /\ \A l \in 1..(m - 1) : p[l].kind = q[l].kind
  BY DEF KindLess
<1>2. m \in 1..Len(p) /\ m \in 1..Len(q)
  BY <1>1, PatternFields
<1>3. m \in Nat
  BY <1>2
<1> QED
  BY <1>1, <1>2, <1>3

LEMMA ValueLessBy == ASSUME NEW p \in Seq(Segments), NEW q \in Seq(Segments), NEW m \in Nat,
                            m \in 1..Len(p), m \in 1..Len(q), p[m].value < q[m].value,
                            \A l \in 1..(m - 1) : p[l].value = q[l].value
                     PROVE  ValueLess(p, q)
BY PatternFields DEF ValueLess

LEMMA ValueLessGives == ASSUME NEW p \in Seq(Segments), NEW q \in Seq(Segments), ValueLess(p, q)
                        PROVE  \E m \in Nat : /\ m \in 1..Len(p) /\ m \in 1..Len(q)
                                              /\ p[m].value < q[m].value
                                              /\ \A l \in 1..(m - 1) : p[l].value = q[l].value
<1>1. PICK m \in DOMAIN p \cap DOMAIN q :
          p[m].value < q[m].value /\ \A l \in 1..(m - 1) : p[l].value = q[l].value
  BY DEF ValueLess
<1>2. m \in 1..Len(p) /\ m \in 1..Len(q)
  BY <1>1, PatternFields
<1>3. m \in Nat
  BY <1>2
<1> QED
  BY <1>1, <1>2, <1>3

LEMMA SpecificBy ==
    ASSUME NEW p \in Seq(Segments), NEW q \in Seq(Segments)
    PROVE  MoreSpecific(p, q) <=> \/ KindLess(p, q)
                                  \/ SameKinds(p, q) /\ Len(p) > Len(q)
                                  \/ SameKinds(p, q) /\ Len(p) = Len(q) /\ ValueLess(p, q)
<1> DEFINE K == Differ(p, q, "kind")
           V == Differ(p, q, "value")
<1>0. /\ K \subseteq Nat /\ V \subseteq Nat
      /\ \A k \in 1..Len(p) : p[k].kind \in Nat /\ p[k].value \in Nat
      /\ \A k \in 1..Len(q) : q[k].kind \in Nat /\ q[k].value \in Nat
      /\ DOMAIN p = 1..Len(p) /\ DOMAIN q = 1..Len(q) /\ Len(p) \in Nat /\ Len(q) \in Nat
  <2>1. DOMAIN p = 1..Len(p) /\ DOMAIN q = 1..Len(q) /\ Len(p) \in Nat /\ Len(q) \in Nat
    BY PatternFields
  <2>2. K \subseteq Nat /\ V \subseteq Nat
    BY <2>1 DEF Differ
  <2>3. \A k \in 1..Len(p) : p[k].kind \in Nat /\ p[k].value \in Nat
    BY SegmentFields
  <2>4. \A k \in 1..Len(q) : q[k].kind \in Nat /\ q[k].value \in Nat
    BY SegmentFields
  <2> QED
    BY <2>1, <2>2, <2>3, <2>4
<1>1. K = {} <=> SameKinds(p, q)
  BY DEF Differ, SameKinds
<1>2. SameKinds(p, q) => ~KindLess(p, q)
  BY <1>0 DEF SameKinds, KindLess
<1>3. CASE K # {}
  <2> DEFINE m == Min(K)
  <2>1. m \in K /\ \A y \in K : m <= y
    BY <1>0, <1>3, MinIs
  <2>2. \A l \in 1..Len(p) \cap 1..Len(q) : l \in K <=> p[l].kind # q[l].kind
    BY <1>0 DEF Differ
  <2>3. K \subseteq 1..Len(p) \cap 1..Len(q)
    BY <1>0 DEF Differ
  <2> HIDE DEF m, K
  <2>4. m \in 1..Len(p) /\ m \in 1..Len(q) /\ p[m].kind # q[m].kind
    BY <2>1, <2>2, <2>3
  <2>5. \A l \in 1..(m - 1) : p[l].kind = q[l].kind
    BY <1>0, <2>1, <2>2, <2>4
  <2>6. p[m].kind < q[m].kind => KindLess(p, q)
    BY <1>0, <2>4, <2>5 DEF KindLess
  <2>7. KindLess(p, q) => p[m].kind < q[m].kind
    <3> SUFFICES ASSUME NEW n \in 1..Len(p) \cap 1..Len(q), p[n].kind < q[n].kind,
                            \A l \in 1..(n - 1) : p[l].kind = q[l].kind
                     PROVE  n = m
      BY <1>0 DEF KindLess
    <3>1. ~(m < n)
      BY <2>4
    <3>2. ~(n < m)
      BY <1>0, <2>4, <2>5
    <3> QED
      BY <2>4, <3>1, <3>2
  <2>8. MoreSpecific(p, q) <=> p[m].kind < q[m].kind
    BY <1>3 DEF MoreSpecific, m, K
  <2> QED
    BY <1>1, <1>3, <2>6, <2>7, <2>8
<1>4. CASE K = {}
  <2>1. MoreSpecific(p, q) <=> \/ Len(p) > Len(q)
                               \/ Len(p) = Len(q) /\ V # {} /\ p[Min(V)].value < q[Min(V)].value
    BY <1>4 DEF MoreSpecific
  <2>2. V # {} /\ p[Min(V)].value < q[Min(V)].value <=> ValueLess(p, q)
    <3>1. CASE V = {}
      BY <1>0, <3>1 DEF Differ, ValueLess
    <3>2. CASE V # {}
      <4> DEFINE m == Min(V)
      <4>1. m \in V /\ \A y \in V : m <= y
        BY <1>0, <3>2, MinIs
      <4>2. \A l \in 1..Len(p) \cap 1..Len(q) : l \in V <=> p[l].value # q[l].value
        BY <1>0 DEF Differ
      <4>3. V \subseteq 1..Len(p) \cap 1..Len(q)
        BY <1>0 DEF Differ
      <4> HIDE DEF m, V
      <4>4. m \in 1..Len(p) /\ m \in 1..Len(q) /\ p[m].value # q[m].value
        BY <4>1, <4>2, <4>3
      <4>5. \A l \in 1..(m - 1) : p[l].value = q[l].value
        BY <1>0, <4>1, <4>2, <4>4
      <4>6. p[m].value < q[m].value => ValueLess(p, q)
        BY <1>0, <4>4, <4>5 DEF ValueLess
      <4>7. ValueLess(p, q) => p[m].value < q[m].value
        <5> SUFFICES ASSUME NEW n \in 1..Len(p) \cap 1..Len(q), p[n].value < q[n].value,
                                \A l \in 1..(n - 1) : p[l].value = q[l].value
                         PROVE  n = m
          BY <1>0 DEF ValueLess
        <5>1. ~(m < n)
          BY <4>4
        <5>2. ~(n < m)
          BY <1>0, <4>4, <4>5
        <5> QED
          BY <4>4, <5>1, <5>2
      <4> QED
        BY <3>2, <4>6, <4>7 DEF m, V
    <3> QED
      BY <3>1, <3>2
  <2> QED
    BY <1>1, <1>2, <1>4, <2>1, <2>2
<1> QED
  BY <1>3, <1>4

LEMMA SpecificTotal ==
    ASSUME NEW p \in Seq(Segments), NEW q \in Seq(Segments),
           ~MoreSpecific(p, q), ~MoreSpecific(q, p)
    PROVE  p = q
<1>0. /\ \A k \in 1..Len(p) : p[k] \in Segments /\ p[k].kind \in Nat /\ p[k].value \in Nat
      /\ \A k \in 1..Len(q) : q[k] \in Segments /\ q[k].kind \in Nat /\ q[k].value \in Nat
      /\ DOMAIN p = 1..Len(p) /\ DOMAIN q = 1..Len(q) /\ Len(p) \in Nat /\ Len(q) \in Nat
  BY PatternFields
<1>1. SameKinds(p, q)
  <2> SUFFICES ASSUME ~SameKinds(p, q) PROVE KindLess(p, q) \/ KindLess(q, p)
    BY SpecificBy
  <2> DEFINE K == {k \in 1..Len(p) \cap 1..Len(q) : p[k].kind # q[k].kind}
  <2>1. K # {} /\ K \subseteq Nat
    BY <1>0 DEF SameKinds
  <2>2. PICK m \in K : \A y \in K : m <= y
    BY <2>1, LeastNatural
  <2>3. \A l \in 1..(m - 1) : p[l].kind = q[l].kind
    BY <1>0, <2>2
  <2>4. p[m].kind < q[m].kind \/ q[m].kind < p[m].kind
    BY <1>0, <2>2
  <2> QED
    BY <1>0, <2>2, <2>3, <2>4 DEF KindLess
<1>2. Len(p) = Len(q)
  <2>1. SameKinds(q, p)
    BY <1>1 DEF SameKinds
  <2>2. ~(Len(p) > Len(q)) /\ ~(Len(q) > Len(p))
    BY <1>1, <2>1, SpecificBy
  <2>3. Len(p) \in Nat /\ Len(q) \in Nat
    BY PatternFields
  <2> QED
    BY <2>2, <2>3
<1>3. \A k \in 1..Len(p) : p[k].value = q[k].value
  <2> SUFFICES ASSUME NEW k \in 1..Len(p), p[k].value # q[k].value
               PROVE  ValueLess(p, q) \/ ValueLess(q, p)
    <3>1. SameKinds(q, p)
      BY <1>1 DEF SameKinds
    <3> QED
      BY <1>1, <1>2, <3>1, SpecificBy
  <2> DEFINE K == {j \in 1..Len(p) : p[j].value # q[j].value}
  <2>2. PICK m \in K : \A y \in K : m <= y
    <3>1. K # {} /\ K \subseteq Nat
      OBVIOUS
    <3> QED
      BY <3>1, LeastNatural
  <2>3. \A l \in 1..(m - 1) : p[l].value = q[l].value
    BY <1>0, <2>2
  <2>4. p[m].value < q[m].value \/ q[m].value < p[m].value
    BY <1>0, <1>2, <2>2
  <2> QED
    BY <1>0, <1>2, <2>2, <2>3, <2>4 DEF ValueLess
<1>4. \A k \in 1..Len(p) : p[k] = q[k]
  <2> SUFFICES ASSUME NEW k \in 1..Len(p) PROVE p[k] = q[k]
    OBVIOUS
  <2>1. p[k].kind = q[k].kind /\ p[k].value = q[k].value
    BY <1>0, <1>1, <1>2, <1>3 DEF SameKinds
  <2>2. p[k] \in Segments /\ q[k] \in Segments
    BY <1>0, <1>2
  <2>3. /\ p[k] = [kind |-> p[k].kind, value |-> p[k].value]
        /\ q[k] = [kind |-> q[k].kind, value |-> q[k].value]
    BY <2>2 DEF Segments
  <2> QED
    BY <2>1, <2>3
<1> QED
  BY <1>2, <1>4

LEMMA KindLessTransitive ==
    ASSUME NEW p \in Seq(Segments), NEW q \in Seq(Segments), NEW r \in Seq(Segments),
           KindLess(p, q) \/ (SameKinds(p, q) /\ Len(p) >= Len(q)),
           KindLess(q, r) \/ (SameKinds(q, r) /\ Len(q) >= Len(r))
    PROVE  \/ KindLess(p, r)
           \/ SameKinds(p, r) /\ Len(p) > Len(r)
           \/ /\ SameKinds(p, r) /\ Len(p) = Len(r)
              /\ SameKinds(p, q) /\ Len(p) = Len(q) /\ SameKinds(q, r) /\ Len(q) = Len(r)
<1>0. /\ \A k \in 1..Len(p) : p[k].kind \in Nat
      /\ \A k \in 1..Len(q) : q[k].kind \in Nat
      /\ \A k \in 1..Len(r) : r[k].kind \in Nat
      /\ Len(p) \in Nat /\ Len(q) \in Nat /\ Len(r) \in Nat
  BY PatternFields
<1>s. /\ SameKinds(p, q) <=> \A l \in 1..Len(p) : l <= Len(q) => p[l].kind = q[l].kind
      /\ SameKinds(q, r) <=> \A l \in 1..Len(q) : l <= Len(r) => q[l].kind = r[l].kind
      /\ SameKinds(p, r) <=> \A l \in 1..Len(p) : l <= Len(r) => p[l].kind = r[l].kind
  BY SameKindsIs
<1>n. Len(p) \in Nat /\ Len(q) \in Nat /\ Len(r) \in Nat
  BY PatternFields
<1>1. CASE KindLess(p, q)
  <2>1. PICK m \in Nat : /\ m \in 1..Len(p) /\ m \in 1..Len(q) /\ p[m].kind < q[m].kind
                         /\ \A l \in 1..(m - 1) : p[l].kind = q[l].kind
    BY <1>1, KindLessGives
  <2>2. CASE KindLess(q, r)
    <3>1. PICK n \in Nat : /\ n \in 1..Len(q) /\ n \in 1..Len(r) /\ q[n].kind < r[n].kind
                           /\ \A l \in 1..(n - 1) : q[l].kind = r[l].kind
      BY <2>2, KindLessGives
    <3>2. CASE m < n
      <4>1. q[m].kind = r[m].kind /\ m \in 1..Len(r)
        BY <1>0, <2>1, <3>1, <3>2
      <4>2. \A l \in 1..(m - 1) : p[l].kind = r[l].kind
        BY <1>0, <2>1, <3>1, <3>2
      <4> QED
        BY <2>1, <4>1, <4>2, KindLessBy
    <3>3. CASE n <= m
      <4>1. n \in 1..Len(p) /\ p[n].kind < r[n].kind
        <5>1. CASE n = m
          <6>1. p[n].kind \in Nat /\ q[n].kind \in Nat /\ r[n].kind \in Nat
            BY <1>0, <2>1, <3>1, <5>1
          <6> QED
            BY <2>1, <3>1, <5>1, <6>1
        <5>2. CASE n < m
          BY <1>0, <2>1, <3>1, <5>2
        <5> QED
          BY <3>3, <5>1, <5>2
      <4>2. \A l \in 1..(n - 1) : p[l].kind = r[l].kind
        BY <1>0, <2>1, <3>1, <3>3
      <4> QED
        BY <3>1, <4>1, <4>2, KindLessBy
    <3> QED
      BY <3>2, <3>3
  <2>3. CASE SameKinds(q, r) /\ Len(q) >= Len(r)
    <3>1. \A l \in 1..Len(r) : q[l].kind = r[l].kind
      BY <1>0, <1>s, <2>3
    <3>2. CASE m <= Len(r)
      <4>1. m \in 1..Len(r) /\ q[m].kind = r[m].kind
        BY <1>0, <2>1, <3>1, <3>2
      <4>2. \A l \in 1..(m - 1) : p[l].kind = r[l].kind
        BY <1>0, <2>1, <3>1, <3>2
      <4> QED
        BY <2>1, <4>1, <4>2, KindLessBy
    <3>3. CASE m > Len(r)
      <4>1. \A l \in 1..Len(r) : p[l].kind = r[l].kind
        BY <1>0, <2>1, <3>1, <3>3
      <4> QED
        BY <1>0, <1>s, <2>1, <3>3, <4>1
    <3> QED
      BY <1>0, <2>1, <3>2, <3>3
  <2> QED
    BY <2>2, <2>3
<1>2. CASE SameKinds(p, q) /\ Len(p) >= Len(q)
  <2>1. \A l \in 1..Len(q) : p[l].kind = q[l].kind
    BY <1>0, <1>s, <1>2
  <2>2. CASE KindLess(q, r)
    <3>1. PICK n \in Nat : /\ n \in 1..Len(q) /\ n \in 1..Len(r) /\ q[n].kind < r[n].kind
                           /\ \A l \in 1..(n - 1) : q[l].kind = r[l].kind
      BY <2>2, KindLessGives
    <3>2. n \in 1..Len(p) /\ p[n].kind = q[n].kind
      BY <1>0, <1>2, <2>1, <3>1
    <3>3. \A l \in 1..(n - 1) : p[l].kind = r[l].kind
      BY <1>0, <2>1, <3>1
    <3> QED
      BY <3>1, <3>2, <3>3, KindLessBy
  <2>3. CASE SameKinds(q, r) /\ Len(q) >= Len(r)
    <3>1. \A l \in 1..Len(r) : q[l].kind = r[l].kind
      BY <1>n, <1>s, <2>3
    <3>2. \A l \in 1..Len(r) : p[l].kind = r[l].kind
      BY <1>0, <2>1, <2>3, <3>1
    <3>3. SameKinds(p, r)
      BY <1>0, <1>s, <3>2
    <3>4. Len(p) > Len(r) \/ (Len(p) = Len(r) /\ Len(p) = Len(q) /\ Len(q) = Len(r))
      BY <1>0, <1>2, <2>3
    <3> QED
      BY <1>2, <2>3, <3>3, <3>4
  <2> QED
    BY <2>2, <2>3
<1> QED
  BY <1>1, <1>2

LEMMA SpecificTransitive ==
    ASSUME NEW p \in Seq(Segments), NEW q \in Seq(Segments), NEW r \in Seq(Segments),
           MoreSpecific(p, q), MoreSpecific(q, r)
    PROVE  MoreSpecific(p, r)
<1>0. /\ \A k \in 1..Len(p) : p[k].value \in Nat
      /\ \A k \in 1..Len(q) : q[k].value \in Nat
      /\ \A k \in 1..Len(r) : r[k].value \in Nat
      /\ Len(p) \in Nat /\ Len(q) \in Nat /\ Len(r) \in Nat
  BY PatternFields
<1>1. KindLess(p, q) \/ (SameKinds(p, q) /\ Len(p) >= Len(q))
  BY <1>0, SpecificBy
<1>2. KindLess(q, r) \/ (SameKinds(q, r) /\ Len(q) >= Len(r))
  BY <1>0, SpecificBy
<1>3. CASE /\ SameKinds(p, r) /\ Len(p) = Len(r)
           /\ SameKinds(p, q) /\ Len(p) = Len(q) /\ SameKinds(q, r) /\ Len(q) = Len(r)
  <2>1. ~KindLess(p, q) /\ ~KindLess(q, r)
    <3>1. /\ \A k \in 1..Len(p) : p[k].kind \in Nat
          /\ \A k \in 1..Len(q) : q[k].kind \in Nat
      BY PatternFields
    <3>2. \A k \in 1..Len(p) : p[k].kind = q[k].kind /\ q[k].kind = r[k].kind
      BY <1>0, <1>3, PatternFields DEF SameKinds
    <3>3. ~KindLess(p, q)
      BY <1>3, <3>1, <3>2, KindLessGives
    <3>4. ~KindLess(q, r)
      <4>1. \A m \in 1..Len(q) : ~(q[m].kind < r[m].kind)
        BY <1>3, <3>1, <3>2
      <4> QED
        BY <4>1, KindLessGives
    <3> QED
      BY <3>3, <3>4
  <2>2. ValueLess(p, q) /\ ValueLess(q, r)
    BY <1>0, <1>3, <2>1, SpecificBy
  <2>3. PICK m \in Nat : /\ m \in 1..Len(p) /\ m \in 1..Len(q) /\ p[m].value < q[m].value
                         /\ \A l \in 1..(m - 1) : p[l].value = q[l].value
    BY <2>2, ValueLessGives
  <2>4. PICK n \in Nat : /\ n \in 1..Len(q) /\ n \in 1..Len(r) /\ q[n].value < r[n].value
                         /\ \A l \in 1..(n - 1) : q[l].value = r[l].value
    BY <2>2, ValueLessGives
  <2>5. CASE m < n
    <3>1. q[m].value = r[m].value /\ m \in 1..Len(r)
      BY <1>0, <2>3, <2>4, <2>5
    <3>2. \A l \in 1..(m - 1) : p[l].value = r[l].value
      BY <1>0, <2>3, <2>4, <2>5
    <3>3. ValueLess(p, r)
      BY <2>3, <3>1, <3>2, ValueLessBy
    <3> QED
      BY <1>3, <3>3, SpecificBy
  <2>6. CASE n <= m
    <3>1. n \in 1..Len(p) /\ p[n].value < r[n].value
      <4>1. CASE n = m
        <5>1. p[n].value \in Nat /\ q[n].value \in Nat /\ r[n].value \in Nat
          BY <1>0, <2>3, <2>4, <4>1
        <5> QED
          BY <2>3, <2>4, <4>1, <5>1
      <4>2. CASE n < m
        BY <1>0, <2>3, <2>4, <4>2
      <4> QED
        BY <2>6, <4>1, <4>2
    <3>2. \A l \in 1..(n - 1) : p[l].value = r[l].value
      BY <1>0, <2>3, <2>4, <2>6
    <3>3. ValueLess(p, r)
      BY <2>4, <3>1, <3>2, ValueLessBy
    <3> QED
      BY <1>3, <3>3, SpecificBy
  <2> QED
    BY <2>5, <2>6
<1> QED
  BY <1>1, <1>2, <1>3, KindLessTransitive, SpecificBy

\* What is parsed of a pattern: its segments up to the first catch-all.
LEMMA ParsedShape ==
    ASSUME NEW p \in Seq(Segments), NEW s, s = ParseSegments(p)
    PROVE  /\ s \in Seq(Segments) /\ Len(s) \in Nat /\ Len(s) <= Len(p)
           /\ \A k \in 1..Len(s) : s[k] = p[k]
           /\ \A k \in 1..(Len(s) - 1) : ~IsCatchAll(s[k])
<1> DEFINE C == {k \in DOMAIN p : IsCatchAll(p[k])}
<1>0. Len(p) \in Nat /\ DOMAIN p = 1..Len(p)
  BY PatternFields
<1>1. CASE C = {}
  <2>1. s = p
    BY <1>1 DEF ParseSegments
  <2>2. \A k \in 1..Len(p) : ~IsCatchAll(p[k])
    BY <1>0, <1>1
  <2> QED
    BY <1>0, <2>1, <2>2
<1>2. CASE C # {}
  <2> DEFINE m == Min(C)
  <2>2. s = SubSeq(p, 1, m)
    BY <1>2 DEF ParseSegments
  <2>a. C \subseteq Nat /\ C \subseteq 1..Len(p)
    BY <1>0
  <2>b. \A k \in 1..Len(p) : IsCatchAll(p[k]) => k \in C
    BY <1>0
  <2> HIDE DEF m, C
  <2>1. m \in C /\ \A y \in C : m <= y
    BY <1>2, <2>a, MinIs DEF m
  <2>3. m \in 1..Len(p)
    BY <2>1, <2>a
  <2>4. \A k \in 1..(m - 1) : ~IsCatchAll(p[k])
    <3> SUFFICES ASSUME NEW k \in 1..(m - 1), IsCatchAll(p[k]) PROVE FALSE
      OBVIOUS
    <3>1. k \in 1..Len(p) /\ k < m
      BY <1>0, <2>3
    <3> QED
      BY <1>0, <2>1, <2>3, <2>b, <3>1
  <2>5. s \in Seq(Segments) /\ Len(s) = m /\ \A k \in 1..m : s[k] = p[k]
    BY <1>0, <2>2, <2>3, SubSeqProperties
  <2> QED
    BY <1>0, <2>3, <2>4, <2>5
<1> QED
  BY <1>1, <1>2

\* Before is a strict order of the routes that compares any two of them.
LEMMA BeforeIs ==
    ASSUME NEW rs, NEW i \in Nat, NEW j \in Nat, rs[i] \in Seq(Segments), rs[j] \in Seq(Segments),
           NEW a, a = ParseSegments(rs[i]), NEW b, b = ParseSegments(rs[j])
    PROVE  Before(rs, i, j) => MoreSpecific(a, b) \/ (a = b /\ i < j)
<1>1. a \in Seq(Segments) /\ b \in Seq(Segments)
  BY ParsedShape
<1> QED
  BY <1>1, SpecificTotal DEF Before

LEMMA NotMoreThanItself == ASSUME NEW p \in Seq(Segments) PROVE ~MoreSpecific(p, p)
<1>0. /\ Len(p) \in Nat /\ \A k \in 1..Len(p) : p[k].kind \in Nat /\ p[k].value \in Nat
  BY PatternFields
<1>1. ~KindLess(p, p)
  <2>1. \A m \in 1..Len(p) : ~(p[m].kind < p[m].kind)
    BY <1>0
  <2> QED
    BY <2>1, KindLessGives
<1>2. ~ValueLess(p, p)
  <2>1. \A m \in 1..Len(p) : ~(p[m].value < p[m].value)
    BY <1>0
  <2> QED
    BY <2>1, ValueLessGives
<1> QED
  BY <1>0, <1>1, <1>2, SpecificBy

LEMMA BeforeTotal ==
    ASSUME NEW rs, NEW i \in Nat, NEW j \in Nat, i # j
    PROVE  Before(rs, i, j) \/ Before(rs, j, i)
BY DEF Before

LEMMA BeforeTransitive ==
    ASSUME NEW rs, NEW i \in Nat, NEW j \in Nat, NEW k \in Nat,
           rs[i] \in Seq(Segments), rs[j] \in Seq(Segments), rs[k] \in Seq(Segments),
           Before(rs, i, j), Before(rs, j, k)
    PROVE  Before(rs, i, k)
<1> DEFINE a == ParseSegments(rs[i])
           b == ParseSegments(rs[j])
           c == ParseSegments(rs[k])
<1>0. a \in Seq(Segments) /\ b \in Seq(Segments) /\ c \in Seq(Segments)
  BY ParsedShape
<1>1. MoreSpecific(a, b) \/ (a = b /\ i < j)
  BY BeforeIs
<1>2. MoreSpecific(b, c) \/ (b = c /\ j < k)
  BY BeforeIs
<1>3. Before(rs, i, k) <=> MoreSpecific(a, c) \/ (~MoreSpecific(c, a) /\ i < k)
  BY DEF Before
<1> HIDE DEF a, b, c
<1>4. CASE a = b /\ i < j /\ b = c /\ j < k
  <2>1. i < k /\ c = a
    BY <1>4
  <2> QED
    BY <1>0, <1>3, <2>1, NotMoreThanItself
<1>5. CASE MoreSpecific(a, b) \/ MoreSpecific(b, c)
  <2>1. MoreSpecific(a, c)
    BY <1>0, <1>1, <1>2, <1>5, SpecificTransitive
  <2> QED
    BY <1>3, <2>1
<1> QED
  BY <1>1, <1>2, <1>4, <1>5

\* The sort has a last route.
LEMMA LastSortedIs ==
    ASSUME NEW rs, NEW n \in Nat, NEW S, S \subseteq 0..n, S # {},
           \A i \in S : rs[i] \in Seq(Segments)
    PROVE  LastSorted(rs, S) \in S
<1> DEFINE HasLast(T) == \E i \in T : \A j \in T \ {i} : Before(rs, j, i)
           A == {m \in Nat : \A T \in SUBSET (S \cap 0..m) : T # {} => HasLast(T)}
<1>1. 0 \in A
  <2> SUFFICES ASSUME NEW T \in SUBSET (S \cap 0..0), T # {} PROVE HasLast(T)
    OBVIOUS
  <2>0. \A k \in 0..0 : k = 0
    OBVIOUS
  <2>1. T = {0}
    BY <2>0
  <2> QED
    BY <2>1
<1>2. \A m \in A : m + 1 \in A
  <2> SUFFICES ASSUME NEW m \in A, NEW T \in SUBSET (S \cap 0..(m + 1)), T # {}
               PROVE  HasLast(T)
    <3>1. \A m \in A : m + 1 \in Nat
      OBVIOUS
    <3> QED
      BY <3>1
  <2>0. m \in Nat /\ T \subseteq Nat /\ \A i \in T : rs[i] \in Seq(Segments)
    OBVIOUS
  <2> DEFINE U == T \ {m + 1}
  <2>1. U \in SUBSET (S \cap 0..m)
    OBVIOUS
  <2>2. CASE U = {}
    BY <2>2
  <2>3. CASE U # {}
    <3>1. PICK i \in U : \A j \in U \ {i} : Before(rs, j, i)
      BY <2>1, <2>3
    <3>2. CASE m + 1 \notin T
      BY <3>1, <3>2
    <3>3. CASE m + 1 \in T /\ Before(rs, m + 1, i)
      <4>1. \A j \in T \ {i} : Before(rs, j, i)
        BY <3>1, <3>3
      <4> QED
        BY <4>1
    <3>4. CASE m + 1 \in T /\ Before(rs, i, m + 1)
      <4>1. \A j \in U : Before(rs, j, m + 1)
        <5> SUFFICES ASSUME NEW j \in U, j # i PROVE Before(rs, j, m + 1)
          BY <3>4
        <5>1. j \in Nat /\ i \in Nat /\ m + 1 \in Nat
          BY <2>0
        <5>2. Before(rs, j, i)
          BY <3>1
        <5>3. rs[j] \in Seq(Segments) /\ rs[i] \in Seq(Segments) /\ rs[m + 1] \in Seq(Segments)
          BY <2>0, <3>4
        <5> QED
          BY <3>4, <5>1, <5>2, <5>3, BeforeTransitive
      <4> QED
        BY <3>4, <4>1
    <3>5. i # m + 1 /\ i \in Nat /\ m + 1 \in Nat
      BY <2>0
    <3> QED
      BY <3>2, <3>3, <3>4, <3>5, BeforeTotal
  <2> QED
    BY <2>2, <2>3
<1>3. A = Nat
  <2> HIDE DEF A
  <2>1. A \in SUBSET Nat
    BY DEF A
  <2> QED
    BY <1>1, <1>2, <2>1, NatInductive
<1>4. HasLast(S)
  <2>1. n \in A /\ S \in SUBSET (S \cap 0..n)
    BY <1>3
  <2> QED
    BY <2>1
<1> QED
  BY <1>4 DEF LastSorted

-----------------------------------------------------------------------------
(* What the trie holds.                                                     *)

\* The table of each set of routes is that of the set without the last, plus the last.
Grown(table, rs, S) ==
    /\ DOMAIN table = SUBSET S
    /\ \A T \in SUBSET S :
          table[T] = IF T = {} THEN EmptyTable
                     ELSE Insert(table[T \ {LastSorted(rs, T)}], rs, LastSorted(rs, T))

LEMMA TableGrows ==
    ASSUME NEW rs, NEW n \in Nat, NEW S, S \subseteq 0..n,
           \A i \in S : rs[i] \in Seq(Segments)
    PROVE  \E table : Grown(table, rs, S) /\ NewRouteTable(rs, S) = table[S]
<1> DEFINE Body(f, T) == IF T = {} THEN EmptyTable
                         ELSE Insert(f[T \ {LastSorted(rs, T)}], rs, LastSorted(rs, T))
           UpTo(m) == {T \in SUBSET S : Cardinality(T) <= m}
           A == {m \in Nat : \E f : f = [T \in UpTo(m) |-> Body(f, T)]}
<1>0. \A T \in SUBSET S : IsFiniteSet(T) /\ Cardinality(T) \in Nat
  <2>1. IsFiniteSet(0..n)
    BY FS_Interval
  <2> QED
    BY <2>1, FS_Subset, FS_CardinalityType
<1>1. \A T \in SUBSET S : T # {} =>
         /\ LastSorted(rs, T) \in T
         /\ Cardinality(T \ {LastSorted(rs, T)}) = Cardinality(T) - 1
  <2> SUFFICES ASSUME NEW T \in SUBSET S, T # {}
               PROVE  /\ LastSorted(rs, T) \in T
                      /\ Cardinality(T \ {LastSorted(rs, T)}) = Cardinality(T) - 1
    OBVIOUS
  <2>1. LastSorted(rs, T) \in T
    BY LastSortedIs
  <2> QED
    BY <1>0, <2>1, FS_RemoveElement
<1>2. 0 \in A
  <2> DEFINE f == [T \in UpTo(0) |-> EmptyTable]
  <2>1. \A T \in UpTo(0) : T = {}
    BY <1>0, FS_EmptySet
  <2>2. f = [T \in UpTo(0) |-> Body(f, T)]
    BY <2>1
  <2> QED
    BY <2>2
<1>3. \A m \in A : m + 1 \in A
  <2> SUFFICES ASSUME NEW m \in A PROVE m + 1 \in A
    OBVIOUS
  <2>0. m \in Nat /\ m + 1 \in Nat
    OBVIOUS
  <2>1. PICK f : f = [T \in UpTo(m) |-> Body(f, T)]
    OBVIOUS
  <2> DEFINE g == [T \in UpTo(m + 1) |-> Body(f, T)]
  <2>2. \A T \in UpTo(m) : T \in UpTo(m + 1) /\ g[T] = f[T]
    <3> SUFFICES ASSUME NEW T \in UpTo(m) PROVE T \in UpTo(m + 1) /\ g[T] = f[T]
      OBVIOUS
    <3>1. T \in SUBSET S /\ Cardinality(T) <= m /\ Cardinality(T) \in Nat
      BY <1>0
    <3>2. T \in UpTo(m + 1)
      BY <2>0, <3>1
    <3>3. f[T] = Body(f, T)
      BY <2>1
    <3> HIDE DEF UpTo, Body
    <3> QED
      BY <3>2, <3>3
  <2>3. \A T \in UpTo(m + 1) : Body(f, T) = Body(g, T)
    <3> SUFFICES ASSUME NEW T \in UpTo(m + 1), T # {} PROVE Body(f, T) = Body(g, T)
      OBVIOUS
    <3> DEFINE rest == T \ {LastSorted(rs, T)}
    <3>1. T \in SUBSET S /\ Cardinality(T) <= m + 1 /\ Cardinality(T) \in Nat
      BY <1>0
    <3>2. rest \in SUBSET S /\ Cardinality(rest) = Cardinality(T) - 1
      BY <1>1, <3>1
    <3>3. rest \in UpTo(m)
      BY <2>0, <3>1, <3>2
    <3>4. g[rest] = f[rest]
      BY <2>2, <3>3
    <3> HIDE DEF g
    <3> QED
      BY <3>4
  <2>4. g = [T \in UpTo(m + 1) |-> Body(g, T)]
    <3> HIDE DEF Body, UpTo
    <3> QED
      BY <2>3
  <2> HIDE DEF g
  <2> QED
    BY <2>0, <2>4
<1>4. Cardinality(S) \in A
  <2>1. A = Nat
    <3>1. A \in SUBSET Nat
      OBVIOUS
    <3> HIDE DEF A
    <3> QED
      BY <1>2, <1>3, <3>1, NatInductive
  <2> QED
    BY <1>0, <2>1
<1>5. PICK f : f = [T \in UpTo(Cardinality(S)) |-> Body(f, T)]
  BY <1>4
<1>6. UpTo(Cardinality(S)) = SUBSET S
  <2>1. IsFiniteSet(S)
    BY <1>0
  <2> QED
    BY <1>0, <2>1, FS_Subset
<1>7. \E table : table = [T \in SUBSET S |-> Body(table, T)]
  <2>1. f = [T \in SUBSET S |-> Body(f, T)]
    BY <1>5, <1>6
  <2> QED
    BY <2>1
<1>8. \E table : table = [T \in SUBSET S |-> Body(table, T)] /\ NewRouteTable(rs, S) = table[S]
  BY <1>7 DEF NewRouteTable, MapThenFoldSet
<1> QED
  BY <1>8 DEF Grown

-----------------------------------------------------------------------------
(* Where a pattern leads: the node its segments before a catch-all reach.   *)

Stem(p) == Fixed(ParseSegments(p))
Ends(p) == Stem(p) = ParseSegments(p)
NodeOf(p) == Edges(Stem(p))

LEMMA StemShape ==
    ASSUME NEW p \in Seq(Segments), NEW s, s = ParseSegments(p), NEW b, b = Stem(p)
    PROVE  /\ b \in Seq(Segments) /\ Len(b) \in Nat /\ Len(b) <= Len(s)
           /\ \A k \in 1..Len(b) : b[k] = p[k] /\ p[k].kind \in {SegStatic, SegDynamic}
           /\ Ends(p) => Len(s) = Len(b)
           /\ ~Ends(p) => /\ Len(s) = Len(b) + 1 /\ Last(s) = p[Len(s)]
                          /\ p[Len(s)].kind \in {SegCatchAll, SegOptCatchAll}
                          /\ p[Len(s)].value \in Nat \ {0}
<1>0. /\ s \in Seq(Segments) /\ Len(s) \in Nat /\ Len(s) <= Len(p)
      /\ \A k \in 1..Len(s) : s[k] = p[k]
      /\ \A k \in 1..(Len(s) - 1) : ~IsCatchAll(s[k])
  BY ParsedShape
<1>1. \A k \in 1..Len(s) : p[k].kind \in 0..3 /\ p[k].value \in Nat \ {0}
  <2>1. Len(p) \in Nat
    BY PatternFields
  <2>2. \A k \in 1..Len(s) : k \in 1..Len(p)
    BY <1>0, <2>1
  <2> QED
    BY <2>2, SegmentFields
<1>2. b = Fixed(s)
  BY DEF Stem
<1>3. CASE s # <<>> /\ IsCatchAll(Last(s))
  <2>0. Len(s) > 0 /\ Last(s) = s[Len(s)]
    BY <1>0, <1>3, EmptySeq DEF Last
  <2>1. b = SubSeq(s, 1, Len(s) - 1)
    BY <1>2, <1>3 DEF Fixed, Front
  <2>2. b \in Seq(Segments) /\ Len(b) = Len(s) - 1 /\ \A k \in 1..(Len(s) - 1) : b[k] = s[k]
    <3> DEFINE e == Len(s) - 1
    <3>1. e \in Nat /\ e <= Len(s) /\ (1 <= e => 1 \in 1..Len(s) /\ e \in 1..Len(s))
      BY <1>0, <2>0
    <3>2. b = SubSeq(s, 1, e)
      BY <2>1
    <3> HIDE DEF e
    <3>3. b \in Seq(Segments) /\ Len(b) = e /\ \A k \in 1..e : b[k] = s[k]
      BY <1>0, <3>1, <3>2, SubSeqProperties
    <3> QED
      BY <3>3 DEF e
  <2>3. ~Ends(p)
    BY <1>0, <2>2 DEF Ends
  <2>4. \A k \in 1..Len(b) : b[k] = p[k] /\ p[k].kind \in {SegStatic, SegDynamic}
    <3> SUFFICES ASSUME NEW k \in 1..Len(b)
                 PROVE  b[k] = p[k] /\ p[k].kind \in {SegStatic, SegDynamic}
      OBVIOUS
    <3>1. k \in 1..(Len(s) - 1) /\ k \in 1..Len(s)
      BY <1>0, <2>2
    <3> QED
      BY <1>0, <1>1, <2>2, <3>1 DEF IsCatchAll, SegStatic, SegDynamic, SegCatchAll
  <2>5. Last(s) = p[Len(s)] /\ p[Len(s)].kind \in {SegCatchAll, SegOptCatchAll}
        /\ p[Len(s)].value \in Nat \ {0}
    <3>1. Len(s) \in 1..Len(s)
      BY <1>0, <2>0
    <3> QED
      BY <1>0, <1>1, <1>3, <2>0, <3>1 DEF IsCatchAll, SegCatchAll, SegOptCatchAll
  <2> QED
    BY <1>0, <2>2, <2>3, <2>4, <2>5
<1>4. CASE s = <<>> \/ ~IsCatchAll(Last(s))
  <2>1. b = s
    BY <1>2, <1>4 DEF Fixed
  <2>2. Ends(p)
    BY <2>1 DEF Ends
  <2>3. \A k \in 1..Len(s) : ~IsCatchAll(s[k])
    <3> SUFFICES ASSUME NEW k \in 1..Len(s) PROVE ~IsCatchAll(s[k])
      OBVIOUS
    <3>1. CASE k = Len(s)
      <4>1. Last(s) = s[k]
        BY <3>1 DEF Last
      <4>2. s # <<>>
        BY <1>0, EmptySeq
      <4> QED
        BY <1>4, <4>1, <4>2
    <3>2. CASE k # Len(s)
      BY <1>0, <3>2
    <3> QED
      BY <3>1, <3>2
  <2>4. \A k \in 1..Len(b) : b[k] = p[k] /\ p[k].kind \in {SegStatic, SegDynamic}
    BY <1>0, <1>1, <2>1, <2>3 DEF IsCatchAll, SegStatic, SegDynamic, SegCatchAll
  <2> QED
    BY <1>0, <2>1, <2>2, <2>4
<1> QED
  BY <1>3, <1>4

LEMMA NodeShape ==
    ASSUME NEW p \in Seq(Segments), NEW n, n = NodeOf(p)
    PROVE  /\ n \in Seq(Nat) /\ Len(n) = Len(Stem(p)) /\ Len(n) \in Nat
           /\ \A k \in 1..Len(n) : \/ p[k].kind = SegDynamic /\ n[k] = Wild
                                   \/ /\ p[k].kind = SegStatic /\ n[k] = p[k].value
                                      /\ n[k] # Wild
<1> DEFINE b == Stem(p)
<1>0. /\ b \in Seq(Segments) /\ Len(b) \in Nat
      /\ \A k \in 1..Len(b) : b[k] = p[k] /\ p[k].kind \in {SegStatic, SegDynamic}
  BY StemShape
<1>1. DOMAIN b = 1..Len(b) /\ \A k \in 1..Len(b) : b[k].value \in Nat \ {0}
  BY <1>0, PatternFields, SegmentFields
<1>2. n = [k \in 1..Len(b) |-> IF b[k].kind = SegStatic THEN b[k].value ELSE Wild]
  BY <1>1 DEF NodeOf, Edges
<1>3. n \in [1..Len(b) -> Nat]
  BY <1>1, <1>2 DEF Wild
<1>4. n \in Seq(Nat) /\ Len(n) = Len(b)
  BY <1>0, <1>3, SeqDef
<1>5. \A k \in 1..Len(b) : \/ p[k].kind = SegDynamic /\ n[k] = Wild
                           \/ /\ p[k].kind = SegStatic /\ n[k] = p[k].value
                              /\ n[k] # Wild
  BY <1>0, <1>1, <1>2 DEF Wild, SegStatic, SegDynamic
<1> QED
  BY <1>0, <1>4, <1>5

\* The node n is on the way of a pattern p.
Through(p, n) == /\ Len(n) <= Len(NodeOf(p))
                 /\ \A k \in 1..Len(n) : n[k] = NodeOf(p)[k]

LEMMA NodesOnWay ==
    ASSUME NEW m \in Seq(Nat)
    PROVE  {SubSeq(m, 1, k) : k \in 0..Len(m)}
             = {n \in Seq(Nat) : Len(n) <= Len(m) /\ \A k \in 1..Len(n) : n[k] = m[k]}
<1> DEFINE R == {n \in Seq(Nat) : Len(n) <= Len(m) /\ \A k \in 1..Len(n) : n[k] = m[k]}
<1>0. Len(m) \in Nat /\ \A k \in 1..Len(m) : m[k] \in Nat
  BY ElementOfSeq, LenProperties
<1>1. ASSUME NEW k \in 0..Len(m)
      PROVE  /\ SubSeq(m, 1, k) \in Seq(Nat) /\ Len(SubSeq(m, 1, k)) = k
             /\ \A j \in 1..k : SubSeq(m, 1, k)[j] = m[j]
  <2>1. k \in Nat /\ \A j \in 1..k : m[j] \in Nat
    BY <1>0
  <2> QED
    BY <1>0, <2>1, SubSeqProperties
<1>2. ASSUME NEW k \in 0..Len(m) PROVE SubSeq(m, 1, k) \in R
  <2> DEFINE q == SubSeq(m, 1, k)
  <2>1. q \in Seq(Nat) /\ Len(q) = k /\ \A j \in 1..k : q[j] = m[j]
    BY <1>1
  <2>2. k <= Len(m)
    BY <1>0
  <2> HIDE DEF q
  <2>3. q \in R
    BY <2>1, <2>2
  <2> QED
    BY <2>3 DEF q
<1>3. ASSUME NEW n \in R PROVE Len(n) \in 0..Len(m) /\ n = SubSeq(m, 1, Len(n))
  <2>1. Len(n) \in Nat /\ Len(n) \in 0..Len(m)
    BY <1>0, LenProperties
  <2> DEFINE q == SubSeq(m, 1, Len(n))
  <2>2. q \in Seq(Nat) /\ Len(q) = Len(n) /\ \A j \in 1..Len(n) : q[j] = m[j]
    BY <1>1, <2>1
  <2> HIDE DEF q
  <2>3. q = n
    <3>1. n \in Seq(Nat) /\ \A j \in 1..Len(n) : n[j] = q[j]
      BY <2>2
    <3> QED
      BY <2>2, <3>1, SeqEqual
  <2> QED
    BY <2>1, <2>3 DEF q
<1> QED
  <2>1. {SubSeq(m, 1, k) : k \in 0..Len(m)} \subseteq R
    BY <1>2
  <2>2. R \subseteq {SubSeq(m, 1, k) : k \in 0..Len(m)}
    BY <1>3
  <2> QED
    BY <2>1, <2>2

\* What Insert makes of each field of a table.
TableFields == {"nodes", "wildName", "catchAll", "catchAllName", "optCatchAll", "optCatchAllName",
                "route"}

\* The names of the wild children on the way of p.
WildNames(p) == [n \in {SubSeq(NodeOf(p), 1, k - 1) :
                          k \in {j \in DOMAIN Stem(p) : Stem(p)[j].kind = SegDynamic}} |->
                   Stem(p)[Len(n) + 1].value]

LEMMA InsertFields ==
    ASSUME NEW t, DOMAIN t = TableFields, NEW rs, NEW i, NEW u, u = Insert(t, rs, i),
           NEW p, p = rs[i], NEW n, n = NodeOf(p), NEW e, e = Last(ParseSegments(p))
    PROVE  /\ DOMAIN u = TableFields
           /\ u.nodes = t.nodes \cup {SubSeq(n, 1, k) : k \in 0..Len(n)}
           /\ u.wildName = Extend(t.wildName, WildNames(p))
           /\ u.route = IF Ends(p) THEN Claim(t.route, n, i) ELSE t.route
           /\ u.catchAll = IF ~Ends(p) /\ e.kind = SegCatchAll
                           THEN Claim(t.catchAll, n, i) ELSE t.catchAll
           /\ u.catchAllName = IF ~Ends(p) /\ e.kind = SegCatchAll
                               THEN Claim(t.catchAllName, n, e.value) ELSE t.catchAllName
           /\ u.optCatchAll = IF ~Ends(p) /\ e.kind # SegCatchAll
                              THEN Claim(t.optCatchAll, n, i) ELSE t.optCatchAll
           /\ u.optCatchAllName = IF ~Ends(p) /\ e.kind # SegCatchAll
                                  THEN Claim(t.optCatchAllName, n, e.value) ELSE t.optCatchAllName
<1> DEFINE g == [t EXCEPT !.nodes = @ \cup {SubSeq(n, 1, k) : k \in 0..Len(n)},
                          !.wildName = Extend(@, WildNames(p))]
<1>1. u = IF Ends(p) THEN [g EXCEPT !.route = Claim(@, n, i)]
          ELSE IF e.kind = SegCatchAll
               THEN [g EXCEPT !.catchAll = Claim(@, n, i), !.catchAllName = Claim(@, n, e.value)]
               ELSE [g EXCEPT !.optCatchAll = Claim(@, n, i),
                              !.optCatchAllName = Claim(@, n, e.value)]
  BY DEF Insert, Ends, NodeOf, Stem, WildNames
<1>2. /\ DOMAIN g = TableFields
      /\ g.nodes = t.nodes \cup {SubSeq(n, 1, k) : k \in 0..Len(n)}
      /\ g.wildName = Extend(t.wildName, WildNames(p))
      /\ g.route = t.route /\ g.catchAll = t.catchAll /\ g.catchAllName = t.catchAllName
      /\ g.optCatchAll = t.optCatchAll /\ g.optCatchAllName = t.optCatchAllName
  <2> DEFINE ns == t.nodes \cup {SubSeq(n, 1, k) : k \in 0..Len(n)}
             ws == Extend(t.wildName, WildNames(p))
  <2>1. g = [[t EXCEPT !.nodes = ns] EXCEPT !.wildName = ws]
    OBVIOUS
  <2> HIDE DEF ns, ws, g
  <2>2. /\ DOMAIN g = TableFields /\ g.nodes = ns /\ g.wildName = ws
        /\ g.route = t.route /\ g.catchAll = t.catchAll /\ g.catchAllName = t.catchAllName
        /\ g.optCatchAll = t.optCatchAll /\ g.optCatchAllName = t.optCatchAllName
    BY <2>1 DEF TableFields
  <2> QED
    BY <2>2 DEF ns, ws
<1> HIDE DEF g
<1>3. CASE Ends(p)
  <2> DEFINE c == Claim(t.route, n, i)
  <2>1. u = [g EXCEPT !.route = c]
    BY <1>1, <1>2, <1>3
  <2> HIDE DEF c
  <2>2. /\ DOMAIN u = TableFields /\ u.nodes = g.nodes /\ u.wildName = g.wildName /\ u.route = c
        /\ u.catchAll = g.catchAll /\ u.catchAllName = g.catchAllName
        /\ u.optCatchAll = g.optCatchAll /\ u.optCatchAllName = g.optCatchAllName
    BY <1>2, <2>1 DEF TableFields
  <2> QED
    BY <1>2, <1>3, <2>2 DEF c
<1>4. CASE ~Ends(p) /\ e.kind = SegCatchAll
  <2> DEFINE c == Claim(t.catchAll, n, i)
             d == Claim(t.catchAllName, n, e.value)
  <2>1. u = [[g EXCEPT !.catchAll = c] EXCEPT !.catchAllName = d]
    BY <1>1, <1>2, <1>4
  <2> HIDE DEF c, d
  <2>2. /\ DOMAIN u = TableFields /\ u.nodes = g.nodes /\ u.wildName = g.wildName
        /\ u.route = g.route /\ u.catchAll = c /\ u.catchAllName = d
        /\ u.optCatchAll = g.optCatchAll /\ u.optCatchAllName = g.optCatchAllName
    BY <1>2, <2>1 DEF TableFields
  <2> QED
    BY <1>2, <1>4, <2>2 DEF c, d
<1>5. CASE ~Ends(p) /\ e.kind # SegCatchAll
  <2> DEFINE c == Claim(t.optCatchAll, n, i)
             d == Claim(t.optCatchAllName, n, e.value)
  <2>1. u = [[g EXCEPT !.optCatchAll = c] EXCEPT !.optCatchAllName = d]
    BY <1>1, <1>2, <1>5
  <2> HIDE DEF c, d
  <2>2. /\ DOMAIN u = TableFields /\ u.nodes = g.nodes /\ u.wildName = g.wildName
        /\ u.route = g.route /\ u.catchAll = g.catchAll /\ u.catchAllName = g.catchAllName
        /\ u.optCatchAll = c /\ u.optCatchAllName = d
    BY <1>2, <2>1 DEF TableFields
  <2> QED
    BY <1>2, <1>5, <2>2 DEF c, d
<1> QED
  BY <1>3, <1>4, <1>5

\* Routes that end at their node, and those with a catch-all of a kind below it.
EndsOf(rs, S) == {i \in S : Ends(rs[i])}
TailsOf(rs, S, kind) == {i \in S : ~Ends(rs[i]) /\ Last(ParseSegments(rs[i])).kind = kind}

\* Each node where some route of R leads has one of them in its slot.
SlotsHold(slots, rs, R) ==
    /\ DOMAIN slots = {NodeOf(rs[i]) : i \in R}
    /\ \A n \in DOMAIN slots : slots[n] \in R /\ NodeOf(rs[slots[n]]) = n

\* The name beside a slot is that of the route in it.
NamesHold(names, slots, rs) ==
    /\ DOMAIN names = DOMAIN slots
    /\ \A n \in DOMAIN slots : names[n] = Last(ParseSegments(rs[slots[n]])).value

NodesHold(t, rs, S) ==
    /\ t.nodes \subseteq Seq(Nat)
    /\ \A n \in Seq(Nat) : n \in t.nodes <=> n = <<>> \/ \E i \in S : Through(rs[i], n)

\* A wild child has the name some route on its way gives it.
WildsHold(t, rs, S) ==
    /\ DOMAIN t.wildName \subseteq Seq(Nat)
    /\ \A n \in Seq(Nat) : (\E i \in S : Through(rs[i], Append(n, Wild))) => n \in DOMAIN t.wildName
    /\ \A n \in DOMAIN t.wildName :
          \E i \in S : Through(rs[i], Append(n, Wild)) /\ t.wildName[n] = rs[i][Len(n) + 1].value

Trie(t, rs, S) ==
    /\ DOMAIN t = TableFields
    /\ NodesHold(t, rs, S)
    /\ WildsHold(t, rs, S)
    /\ SlotsHold(t.route, rs, EndsOf(rs, S))
    /\ SlotsHold(t.catchAll, rs, TailsOf(rs, S, SegCatchAll))
    /\ SlotsHold(t.optCatchAll, rs, TailsOf(rs, S, SegOptCatchAll))
    /\ NamesHold(t.catchAllName, t.catchAll, rs)
    /\ NamesHold(t.optCatchAllName, t.optCatchAll, rs)

LEMMA ClaimIs ==
    ASSUME NEW slots, NEW n, NEW v
    PROVE  /\ DOMAIN Claim(slots, n, v) = DOMAIN slots \cup {n}
           /\ \A m \in DOMAIN slots : Claim(slots, n, v)[m] = slots[m]
           /\ n \notin DOMAIN slots => Claim(slots, n, v)[n] = v
BY DEF Claim, Extend

LEMMA ClaimHolds ==
    ASSUME NEW slots, NEW rs, NEW R, SlotsHold(slots, rs, R), NEW i
    PROVE  SlotsHold(Claim(slots, NodeOf(rs[i]), i), rs, R \cup {i})
<1> DEFINE n == NodeOf(rs[i])
           c == Claim(slots, n, i)
<1>1. /\ DOMAIN c = DOMAIN slots \cup {n}
      /\ \A m \in DOMAIN slots : c[m] = slots[m]
      /\ n \notin DOMAIN slots => c[n] = i
  BY ClaimIs
<1> HIDE DEF c
<1> QED
  BY <1>1 DEF SlotsHold, c

LEMMA NameHolds ==
    ASSUME NEW names, NEW slots, NEW rs, NamesHold(names, slots, rs), NEW i,
           NEW v, v = Last(ParseSegments(rs[i])).value, NEW n
    PROVE  NamesHold(Claim(names, n, v), Claim(slots, n, i), rs)
<1> DEFINE c == Claim(slots, n, i)
           d == Claim(names, n, v)
<1>1. /\ DOMAIN c = DOMAIN slots \cup {n}
      /\ \A m \in DOMAIN slots : c[m] = slots[m]
      /\ n \notin DOMAIN slots => c[n] = i
  BY ClaimIs
<1>2. /\ DOMAIN d = DOMAIN names \cup {n}
      /\ \A m \in DOMAIN names : d[m] = names[m]
      /\ n \notin DOMAIN names => d[n] = v
  BY DEF Claim, Extend
<1> HIDE DEF c, d
<1> QED
  BY <1>1, <1>2 DEF NamesHold, c, d

\* A wild child on the way of p has the name p gives the segment there.
LEMMA WildNamesAre ==
    ASSUME NEW p \in Seq(Segments)
    PROVE  /\ DOMAIN WildNames(p) \subseteq Seq(Nat)
           /\ \A n \in Seq(Nat) : n \in DOMAIN WildNames(p) <=> Through(p, Append(n, Wild))
           /\ \A n \in DOMAIN WildNames(p) : WildNames(p)[n] = p[Len(n) + 1].value
<1> DEFINE m == NodeOf(p)
           b == Stem(p)
           Wilds == {j \in DOMAIN b : b[j].kind = SegDynamic}
           D == {SubSeq(m, 1, k - 1) : k \in Wilds}
<1>0. /\ m \in Seq(Nat) /\ Len(m) = Len(b) /\ Len(m) \in Nat
      /\ \A k \in 1..Len(m) : \/ p[k].kind = SegDynamic /\ m[k] = Wild
                              \/ p[k].kind = SegStatic /\ m[k] # Wild
  BY NodeShape
<1>1. b \in Seq(Segments) /\ DOMAIN b = 1..Len(m) /\ \A k \in 1..Len(m) : b[k] = p[k]
  BY <1>0, StemShape, PatternFields
<1>2. DOMAIN WildNames(p) = D /\ \A n \in D : WildNames(p)[n] = b[Len(n) + 1].value
  BY DEF WildNames
<1>3. Wilds = {k \in 1..Len(m) : m[k] = Wild}
  <2>1. \A k \in 1..Len(m) : b[k].kind = SegDynamic <=> m[k] = Wild
    <3> SUFFICES ASSUME NEW k \in 1..Len(m) PROVE b[k].kind = SegDynamic <=> m[k] = Wild
      OBVIOUS
    <3>1. b[k] = p[k] /\ SegDynamic # SegStatic
      BY <1>1 DEF SegStatic, SegDynamic
    <3> HIDE DEF m, b
    <3> QED
      BY <1>0, <3>1
  <2> HIDE DEF m, b
  <2> QED
    BY <1>1, <2>1
<1>4. \A k \in 1..Len(m) : /\ SubSeq(m, 1, k - 1) \in Seq(Nat) /\ Len(SubSeq(m, 1, k - 1)) = k - 1
                           /\ \A j \in 1..(k - 1) : SubSeq(m, 1, k - 1)[j] = m[j]
  <2> SUFFICES ASSUME NEW k \in 1..Len(m)
               PROVE  /\ SubSeq(m, 1, k - 1) \in Seq(Nat) /\ Len(SubSeq(m, 1, k - 1)) = k - 1
                      /\ \A j \in 1..(k - 1) : SubSeq(m, 1, k - 1)[j] = m[j]
    OBVIOUS
  <2>1. k - 1 \in Nat /\ \A j \in 1..(k - 1) : m[j] \in Nat
    BY <1>0, ElementOfSeq
  <2> QED
    BY <2>1, SubSeqProperties
<1> HIDE DEF Wilds, m, b
<1>5. ASSUME NEW n \in D
      PROVE  n \in Seq(Nat) /\ Len(n) + 1 \in 1..Len(m) /\ Through(p, Append(n, Wild))
  <2>1. PICK k \in 1..Len(m) : m[k] = Wild /\ n = SubSeq(m, 1, k - 1)
    BY <1>3
  <2>2. n \in Seq(Nat) /\ Len(n) = k - 1 /\ \A j \in 1..(k - 1) : n[j] = m[j]
    BY <1>4, <2>1
  <2>3. /\ Len(Append(n, Wild)) = k /\ Append(n, Wild)[k] = Wild
        /\ \A j \in 1..(k - 1) : Append(n, Wild)[j] = m[j]
    BY <2>2, AppendProperties DEF Wild
  <2>4. \A j \in 1..k : Append(n, Wild)[j] = m[j]
    BY <1>0, <2>1, <2>3
  <2> QED
    BY <1>0, <2>1, <2>2, <2>3, <2>4 DEF Through, m
<1>6. ASSUME NEW n \in Seq(Nat), Through(p, Append(n, Wild)) PROVE n \in D
  <2>1. /\ Len(n) \in Nat /\ Len(Append(n, Wild)) = Len(n) + 1 /\ Append(n, Wild)[Len(n) + 1] = Wild
        /\ \A j \in 1..Len(n) : Append(n, Wild)[j] = n[j]
    BY AppendProperties, LenProperties DEF Wild
  <2>2. /\ Len(n) + 1 \in 1..Len(m) /\ m[Len(n) + 1] = Wild
        /\ \A j \in 1..Len(n) : n[j] = m[j]
    <3>1. /\ Len(Append(n, Wild)) <= Len(m)
          /\ \A j \in 1..Len(Append(n, Wild)) : Append(n, Wild)[j] = m[j]
      BY <1>6 DEF Through, m
    <3>2. Len(n) + 1 \in 1..Len(m) /\ \A j \in 1..Len(n) : j \in 1..(Len(n) + 1)
      BY <1>0, <2>1, <3>1
    <3> QED
      BY <2>1, <3>1, <3>2
  <2> DEFINE q == SubSeq(m, 1, (Len(n) + 1) - 1)
  <2>3. q \in Seq(Nat) /\ Len(q) = Len(n) /\ \A j \in 1..Len(n) : q[j] = m[j]
    BY <1>4, <2>1, <2>2
  <2>4. q = n
    <3> HIDE DEF q
    <3> QED
      BY <2>2, <2>3, SeqEqual
  <2> QED
    BY <1>3, <2>2, <2>4
<1>7. \A n \in D : WildNames(p)[n] = p[Len(n) + 1].value
  BY <1>1, <1>2, <1>5
<1> QED
  BY <1>2, <1>5, <1>6, <1>7

LEMMA InsertHolds ==
    ASSUME NEW t, NEW rs, NEW S, Trie(t, rs, S), NEW i, rs[i] \in Seq(Segments)
    PROVE  Trie(Insert(t, rs, i), rs, S \cup {i})
<1> DEFINE p == rs[i]
           n == NodeOf(p)
           e == Last(ParseSegments(p))
           u == Insert(t, rs, i)
           U == S \cup {i}
<1>1. /\ DOMAIN u = TableFields
      /\ u.nodes = t.nodes \cup {SubSeq(n, 1, k) : k \in 0..Len(n)}
      /\ u.wildName = Extend(t.wildName, WildNames(p))
      /\ u.route = IF Ends(p) THEN Claim(t.route, n, i) ELSE t.route
      /\ u.catchAll = IF ~Ends(p) /\ e.kind = SegCatchAll
                      THEN Claim(t.catchAll, n, i) ELSE t.catchAll
      /\ u.catchAllName = IF ~Ends(p) /\ e.kind = SegCatchAll
                          THEN Claim(t.catchAllName, n, e.value) ELSE t.catchAllName
      /\ u.optCatchAll = IF ~Ends(p) /\ e.kind # SegCatchAll
                         THEN Claim(t.optCatchAll, n, i) ELSE t.optCatchAll
      /\ u.optCatchAllName = IF ~Ends(p) /\ e.kind # SegCatchAll
                             THEN Claim(t.optCatchAllName, n, e.value) ELSE t.optCatchAllName
  BY InsertFields DEF Trie
<1> HIDE DEF u
<1>2. ~Ends(p) => e.kind \in {SegCatchAll, SegOptCatchAll}
  BY StemShape
<1>3. NodesHold(u, rs, U)
  <2>1. n \in Seq(Nat)
    BY NodeShape
  <2>2. \A m \in Seq(Nat) : m \in {SubSeq(n, 1, k) : k \in 0..Len(n)} <=> Through(p, m)
    BY <2>1, NodesOnWay DEF Through
  <2>3. {SubSeq(n, 1, k) : k \in 0..Len(n)} \subseteq Seq(Nat)
    BY <2>1, NodesOnWay
  <2> HIDE DEF n
  <2> QED
    BY <1>1, <2>2, <2>3 DEF Trie, NodesHold
<1>4. WildsHold(u, rs, U)
  <2> DEFINE w == WildNames(p)
  <2>1. /\ DOMAIN w \subseteq Seq(Nat)
        /\ \A m \in Seq(Nat) : m \in DOMAIN w <=> Through(p, Append(m, Wild))
        /\ \A m \in DOMAIN w : w[m] = p[Len(m) + 1].value
    BY WildNamesAre
  <2>2. /\ DOMAIN u.wildName = DOMAIN t.wildName \cup DOMAIN w
        /\ \A m \in DOMAIN t.wildName : u.wildName[m] = t.wildName[m]
        /\ \A m \in DOMAIN w : m \notin DOMAIN t.wildName => u.wildName[m] = w[m]
    BY <1>1 DEF Extend
  <2>3. WildsHold(t, rs, S)
    BY DEF Trie
  <2> HIDE DEF w
  <2>4. DOMAIN u.wildName \subseteq Seq(Nat)
    BY <2>1, <2>2, <2>3 DEF WildsHold
  <2>5. \A m \in Seq(Nat) : (\E j \in U : Through(rs[j], Append(m, Wild))) => m \in DOMAIN u.wildName
    BY <2>1, <2>2, <2>3 DEF WildsHold
  <2>6. ASSUME NEW m \in DOMAIN u.wildName
        PROVE  \E j \in U : Through(rs[j], Append(m, Wild)) /\ u.wildName[m] = rs[j][Len(m) + 1].value
    <3>1. CASE m \in DOMAIN t.wildName
      BY <2>2, <2>3, <3>1 DEF WildsHold
    <3>2. CASE m \notin DOMAIN t.wildName
      BY <2>1, <2>2, <2>6, <3>2
    <3> QED
      BY <3>1, <3>2
  <2> QED
    BY <2>4, <2>5, <2>6 DEF WildsHold
<1>5. SlotsHold(u.route, rs, EndsOf(rs, U))
  <2>1. EndsOf(rs, U) = IF Ends(p) THEN EndsOf(rs, S) \cup {i} ELSE EndsOf(rs, S)
    BY DEF EndsOf
  <2>2. SlotsHold(t.route, rs, EndsOf(rs, S))
    BY DEF Trie
  <2>3. SlotsHold(Claim(t.route, n, i), rs, EndsOf(rs, S) \cup {i})
    BY <2>2, ClaimHolds
  <2> QED
    BY <1>1, <2>1, <2>2, <2>3
<1>6. /\ SlotsHold(u.catchAll, rs, TailsOf(rs, U, SegCatchAll))
      /\ NamesHold(u.catchAllName, u.catchAll, rs)
  <2>1. TailsOf(rs, U, SegCatchAll) = IF ~Ends(p) /\ e.kind = SegCatchAll
                                      THEN TailsOf(rs, S, SegCatchAll) \cup {i}
                                      ELSE TailsOf(rs, S, SegCatchAll)
    BY DEF TailsOf
  <2>2. SlotsHold(Claim(t.catchAll, n, i), rs, TailsOf(rs, S, SegCatchAll) \cup {i})
    BY ClaimHolds DEF Trie
  <2>3. NamesHold(Claim(t.catchAllName, n, e.value), Claim(t.catchAll, n, i), rs)
    BY NameHolds DEF Trie
  <2> QED
    BY <1>1, <2>1, <2>2, <2>3 DEF Trie
<1>7. /\ SlotsHold(u.optCatchAll, rs, TailsOf(rs, U, SegOptCatchAll))
      /\ NamesHold(u.optCatchAllName, u.optCatchAll, rs)
  <2>1. TailsOf(rs, U, SegOptCatchAll) = IF ~Ends(p) /\ e.kind # SegCatchAll
                                         THEN TailsOf(rs, S, SegOptCatchAll) \cup {i}
                                         ELSE TailsOf(rs, S, SegOptCatchAll)
    BY <1>2 DEF TailsOf, SegCatchAll, SegOptCatchAll
  <2>2. SlotsHold(Claim(t.optCatchAll, n, i), rs, TailsOf(rs, S, SegOptCatchAll) \cup {i})
    BY ClaimHolds DEF Trie
  <2>3. NamesHold(Claim(t.optCatchAllName, n, e.value), Claim(t.optCatchAll, n, i), rs)
    BY NameHolds DEF Trie
  <2> QED
    BY <1>1, <2>1, <2>2, <2>3 DEF Trie
<1> QED
  BY <1>1, <1>3, <1>4, <1>5, <1>6, <1>7 DEF Trie, u

LEMMA EmptyHolds == ASSUME NEW rs PROVE Trie(EmptyTable, rs, {})
<1>1. /\ DOMAIN EmptyTable = TableFields /\ EmptyTable.nodes = {<<>>}
      /\ EmptyTable.wildName = <<>> /\ EmptyTable.route = <<>>
      /\ EmptyTable.catchAll = <<>> /\ EmptyTable.catchAllName = <<>>
      /\ EmptyTable.optCatchAll = <<>> /\ EmptyTable.optCatchAllName = <<>>
  BY DEF EmptyTable, TableFields
<1>2. DOMAIN <<>> = {} /\ <<>> \in Seq(Nat)
  OBVIOUS
<1>3. EndsOf(rs, {}) = {} /\ \A kind : TailsOf(rs, {}, kind) = {}
  BY DEF EndsOf, TailsOf
<1>4. SlotsHold(<<>>, rs, {}) /\ NamesHold(<<>>, <<>>, rs)
  BY <1>2 DEF SlotsHold, NamesHold
<1>5. NodesHold(EmptyTable, rs, {})
  BY <1>1, <1>2 DEF NodesHold
<1>6. WildsHold(EmptyTable, rs, {})
  BY <1>1, <1>2 DEF WildsHold
<1> QED
  BY <1>1, <1>3, <1>4, <1>5, <1>6 DEF Trie

\* Whatever routes S are inserted, in the order of the sort, the table is the trie of
\* their patterns: it has the nodes on their ways and no others, every pattern's node
\* holds a route that ends or has its catch-all there, with that route's own name
\* beside it, and a wild child has the name some route gives it (Insert, one claim a slot).
THEOREM TableHolds ==
    ASSUME NEW rs, NEW n \in Nat, NEW S, S \subseteq 0..n,
           \A i \in S : rs[i] \in Seq(Segments)
    PROVE  Trie(NewRouteTable(rs, S), rs, S)
<1>1. PICK table : Grown(table, rs, S) /\ NewRouteTable(rs, S) = table[S]
  BY TableGrows
<1> DEFINE A == {m \in Nat : \A T \in SUBSET S : Cardinality(T) = m => Trie(table[T], rs, T)}
<1>0. \A T \in SUBSET S : IsFiniteSet(T) /\ Cardinality(T) \in Nat
  <2>1. IsFiniteSet(0..n)
    BY FS_Interval
  <2> QED
    BY <2>1, FS_Subset, FS_CardinalityType
<1>2. 0 \in A
  <2> SUFFICES ASSUME NEW T \in SUBSET S, Cardinality(T) = 0 PROVE Trie(table[T], rs, T)
    OBVIOUS
  <2>1. T = {}
    BY <1>0, FS_EmptySet
  <2>2. table[T] = EmptyTable
    BY <1>1, <2>1 DEF Grown
  <2> QED
    BY <2>1, <2>2, EmptyHolds
<1>3. \A m \in A : m + 1 \in A
  <2> SUFFICES ASSUME NEW m \in A, NEW T \in SUBSET S, Cardinality(T) = m + 1
               PROVE  Trie(table[T], rs, T)
    <3>1. \A m \in A : m + 1 \in Nat
      OBVIOUS
    <3> QED
      BY <3>1
  <2> DEFINE last == LastSorted(rs, T)
             U == T \ {last}
  <2>0. m \in Nat
    OBVIOUS
  <2>1. T # {}
    <3>1. Cardinality({}) = 0 /\ m + 1 # 0
      BY <2>0, FS_EmptySet
    <3> QED
      BY <3>1
  <2>2. last \in T
    BY <2>1, LastSortedIs
  <2>3. Cardinality(U) = m
    <3>1. Cardinality(U) = Cardinality(T) - 1
      BY <1>0, <2>2, FS_RemoveElement
    <3> QED
      BY <2>0, <3>1
  <2>4. Trie(table[U], rs, U)
    BY <2>3
  <2>5. table[T] = Insert(table[U], rs, last)
    BY <1>1, <2>1 DEF Grown
  <2> HIDE DEF last
  <2>6. Trie(Insert(table[U], rs, last), rs, U \cup {last})
    BY <2>2, <2>4, InsertHolds
  <2>7. U \cup {last} = T
    BY <2>2
  <2> QED
    BY <2>5, <2>6, <2>7
<1>4. A = Nat
  <2>1. A \in SUBSET Nat
    OBVIOUS
  <2> HIDE DEF A
  <2> QED
    BY <1>2, <1>3, <2>1, NatInductive
<1>5. Cardinality(S) \in A
  BY <1>0, <1>4
<1> QED
  BY <1>1, <1>5

-----------------------------------------------------------------------------
(* What the search finds.                                                   *)

\* What is found from node n on, given what is found from its children on.
Search(f, t, path, n) ==
    LET text      == path[Len(n) + 1]
        static    == Append(n, text)
        wild      == Append(n, Wild)
        viaStatic == IF static \in t.nodes THEN f[static] ELSE NoMatch
        viaWild   == IF wild \in t.nodes THEN Bind(f[wild], t.wildName[n], text) ELSE NoMatch
    IN  IF Len(path) <= Len(n) THEN AtEnd(t, n)
        ELSE IF viaStatic.found THEN viaStatic
        ELSE IF viaWild.found THEN viaWild
        ELSE CatchAll(t, n, SubSeq(path, Len(n) + 1, Len(path)))

LEMMA RestOf ==
    ASSUME NEW path \in Seq(Nat), NEW d \in Nat, NEW rest, rest = SubSeq(path, d + 1, Len(path))
    PROVE  /\ rest = <<>> <=> Len(path) <= d
           /\ Len(path) > d => Head(rest) = path[d + 1]
<1>0. Len(path) \in Nat
  BY LenProperties
<1>1. CASE Len(path) <= d
  BY <1>0, <1>1, SubSeqEmpty
<1>2. CASE Len(path) > d
  <2>1. d + 1 \in 1..Len(path) /\ Len(path) \in (d + 1)..Len(path)
    BY <1>0, <1>2
  <2>2. Head(rest) = path[d + 1]
    BY <2>1, HeadTailOfSubSeq
  <2>3. Len(rest) # 0
    <3>1. \A i \in (d + 1)..Len(path) : path[i] \in Nat
      <4>1. \A i \in (d + 1)..Len(path) : i \in 1..Len(path)
        BY <1>0
      <4> QED
        BY <4>1, ElementOfSeq
    <3>2. Len(rest) = Len(path) - (d + 1) + 1
      BY <1>0, <1>2, <2>1, <3>1, SubSeqProperties
    <3> QED
      BY <1>0, <1>2, <3>2
  <2>4. rest # <<>>
    BY <2>3, EmptySeq
  <2> QED
    BY <1>0, <1>2, <2>2, <2>4
<1> QED
  BY <1>0, <1>1, <1>2

LEMMA SearchUnfolds ==
    ASSUME NEW t, t.nodes \subseteq Seq(Nat), NEW path \in Seq(Nat)
    PROVE  \A n \in t.nodes : MatchNode(t, path)[n] = Search(MatchNode(t, path), t, path, n)
<1> DEFINE UpTo(m) == {n \in t.nodes : Len(path) <= Len(n) + m}
           A == {m \in Nat : \E f : f = [n \in UpTo(m) |-> Search(f, t, path, n)]}
<1>0. /\ Len(path) \in Nat /\ \A n \in t.nodes : n \in Seq(Nat) /\ Len(n) \in Nat
      /\ \A k \in 1..Len(path) : path[k] \in Nat
  BY LenProperties, ElementOfSeq
<1>1. ASSUME NEW n \in t.nodes, NEW x \in Nat
      PROVE  Len(Append(n, x)) = Len(n) + 1
  BY <1>0, AppendProperties
<1>2. 0 \in A
  <2> DEFINE f == [n \in UpTo(0) |-> AtEnd(t, n)]
  <2>1. \A n \in UpTo(0) : Len(path) <= Len(n)
    BY <1>0
  <2>2. f = [n \in UpTo(0) |-> Search(f, t, path, n)]
    BY <2>1 DEF Search
  <2> QED
    BY <2>2
<1>3. \A m \in A : m + 1 \in A
  <2> SUFFICES ASSUME NEW m \in A PROVE m + 1 \in A
    OBVIOUS
  <2>0. m \in Nat /\ m + 1 \in Nat
    OBVIOUS
  <2>1. PICK f : f = [n \in UpTo(m) |-> Search(f, t, path, n)]
    OBVIOUS
  <2> DEFINE g == [n \in UpTo(m + 1) |-> Search(f, t, path, n)]
  <2>2. \A n \in UpTo(m) : n \in UpTo(m + 1) /\ g[n] = f[n]
    <3>1. \A n \in UpTo(m) : n \in UpTo(m + 1)
      BY <1>0, <2>0
    <3>2. \A n \in UpTo(m) : f[n] = Search(f, t, path, n)
      BY <2>1
    <3> HIDE DEF UpTo
    <3> QED
      BY <3>1, <3>2
  <2>3. \A n \in UpTo(m + 1) : Search(f, t, path, n) = Search(g, t, path, n)
    <3> SUFFICES ASSUME NEW n \in UpTo(m + 1), ~(Len(path) <= Len(n))
                 PROVE  Search(f, t, path, n) = Search(g, t, path, n)
      BY DEF Search
    <3>1. n \in t.nodes /\ Len(n) \in Nat /\ Len(path) <= Len(n) + (m + 1)
      BY <1>0
    <3>2. path[Len(n) + 1] \in Nat /\ Wild \in Nat
      BY <1>0, <3>1 DEF Wild
    <3> DEFINE static == Append(n, path[Len(n) + 1])
               wild == Append(n, Wild)
    <3>3. Len(static) = Len(n) + 1 /\ Len(wild) = Len(n) + 1
      BY <1>1, <3>1, <3>2
    <3>4. Len(path) <= (Len(n) + 1) + m
      BY <1>0, <2>0, <3>1
    <3>5. /\ static \in t.nodes => static \in UpTo(m)
          /\ wild \in t.nodes => wild \in UpTo(m)
      BY <3>3, <3>4
    <3>6. /\ static \in t.nodes => g[static] = f[static]
          /\ wild \in t.nodes => g[wild] = f[wild]
      BY <2>2, <3>5
    <3> HIDE DEF g, UpTo
    <3> QED
      BY <3>6 DEF Search
  <2>4. g = [n \in UpTo(m + 1) |-> Search(g, t, path, n)]
    <3> HIDE DEF UpTo
    <3> QED
      BY <2>3
  <2> HIDE DEF g
  <2> QED
    BY <2>0, <2>4
<1>4. A = Nat
  <2>1. A \in SUBSET Nat
    OBVIOUS
  <2> HIDE DEF A
  <2> QED
    BY <1>2, <1>3, <2>1, NatInductive
<1>5. UpTo(Len(path)) = t.nodes
  BY <1>0
<1>6. \E f : f = [n \in t.nodes |-> Search(f, t, path, n)]
  <2>1. Len(path) \in A
    BY <1>0, <1>4
  <2> QED
    BY <1>5, <2>1
<1> DEFINE Step(f, n) ==
      LET rest      == SubSeq(path, Len(n) + 1, Len(path))
          static    == Append(n, Head(rest))
          wild      == Append(n, Wild)
          viaStatic == IF static \in t.nodes THEN f[static] ELSE NoMatch
          viaWild   == IF wild \in t.nodes THEN Bind(f[wild], t.wildName[n], Head(rest)) ELSE NoMatch
      IN  IF rest = <<>> THEN AtEnd(t, n)
          ELSE IF viaStatic.found THEN viaStatic
          ELSE IF viaWild.found THEN viaWild
          ELSE CatchAll(t, n, rest)
<1>7. \A f : \A n \in t.nodes : Step(f, n) = Search(f, t, path, n)
  <2> SUFFICES ASSUME NEW f, NEW n \in t.nodes PROVE Step(f, n) = Search(f, t, path, n)
    OBVIOUS
  <2> DEFINE rest == SubSeq(path, Len(n) + 1, Len(path))
  <2>1. /\ rest = <<>> <=> Len(path) <= Len(n)
        /\ Len(path) > Len(n) => Head(rest) = path[Len(n) + 1]
    BY <1>0, RestOf
  <2>2. CASE Len(path) <= Len(n)
    BY <2>1, <2>2 DEF Search
  <2>3. CASE ~(Len(path) <= Len(n))
    <3>1. rest # <<>> /\ Head(rest) = path[Len(n) + 1]
      BY <1>0, <2>1, <2>3
    <3> QED
      BY <2>3, <3>1 DEF Search
  <2> QED
    BY <2>2, <2>3
<1>8. \E f : f = [n \in t.nodes |-> Step(f, n)]
  <2>1. PICK f : f = [n \in t.nodes |-> Search(f, t, path, n)]
    BY <1>6
  <2>2. [n \in t.nodes |-> Search(f, t, path, n)] = [n \in t.nodes |-> Step(f, n)]
    <3> HIDE DEF Step
    <3> QED
      BY <1>7
  <2>3. f = [n \in t.nodes |-> Step(f, n)]
    BY <2>1, <2>2
  <2> QED
    BY <2>3
<1>9. MatchNode(t, path) = [n \in t.nodes |-> Step(MatchNode(t, path), n)]
  BY <1>8 DEF MatchNode
<1>10. \A n \in t.nodes : MatchNode(t, path)[n] = Step(MatchNode(t, path), n)
  <2> HIDE DEF Step
  <2> QED
    BY <1>9
<1> HIDE DEF Step
<1> QED
  BY <1>7, <1>10

-----------------------------------------------------------------------------
(* What fits a path, and what decides between two that fit it.              *)

\* The kinds of segment along a pattern: those of its node, then its catch-all.
LEMMA KindIs ==
    ASSUME NEW p \in Seq(Segments), NEW n, n = NodeOf(p), NEW k \in Nat \ {0}
    PROVE  /\ k <= Len(n) => KindAt(p, k) = IF n[k] = Wild THEN SegDynamic ELSE SegStatic
           /\ k = Len(n) + 1 => KindAt(p, k) = IF Ends(p) THEN SegStatic
                                               ELSE Last(ParseSegments(p)).kind
           /\ k > Len(n) + 1 => KindAt(p, k) = SegStatic
<1> DEFINE s == ParseSegments(p)
<1>1. /\ s \in Seq(Segments) /\ Len(s) \in Nat
      /\ \A j \in 1..Len(s) : s[j] = p[j]
  BY ParsedShape
<1>2. DOMAIN s = 1..Len(s)
  BY <1>1, PatternFields
<1>3. KindAt(p, k) = IF k \in 1..Len(s) THEN p[k].kind ELSE SegStatic
  BY <1>2 DEF KindAt
<1>4. /\ Len(n) = Len(Stem(p)) /\ Len(n) \in Nat
      /\ \A j \in 1..Len(n) : \/ p[j].kind = SegDynamic /\ n[j] = Wild
                              \/ p[j].kind = SegStatic /\ n[j] # Wild
  BY NodeShape
<1>5. /\ Len(Stem(p)) <= Len(s)
      /\ Ends(p) => Len(s) = Len(Stem(p))
      /\ ~Ends(p) => Len(s) = Len(Stem(p)) + 1 /\ Last(s) = p[Len(s)]
  BY StemShape
<1> HIDE DEF s
<1>6. CASE k <= Len(n)
  BY <1>1, <1>3, <1>4, <1>5, <1>6
<1>7. CASE k = Len(n) + 1
  <2>1. KindAt(p, k) = IF Ends(p) THEN SegStatic ELSE Last(s).kind
    BY <1>1, <1>3, <1>4, <1>5, <1>7
  <2> QED
    BY <1>4, <1>7, <2>1 DEF s
<1>8. CASE k > Len(n) + 1
  BY <1>1, <1>3, <1>4, <1>5, <1>8
<1> QED
  BY <1>4, <1>6, <1>7, <1>8

LEMMA KindType == ASSUME NEW p \in Seq(Segments), NEW k \in Nat \ {0}
                  PROVE  KindAt(p, k) \in 0..3
<1>1. ParseSegments(p) \in Seq(Segments) /\ Len(ParseSegments(p)) <= Len(p)
  BY ParsedShape
<1>2. DOMAIN ParseSegments(p) = 1..Len(ParseSegments(p)) /\ Len(ParseSegments(p)) \in Nat
      /\ Len(p) \in Nat
  BY <1>1, PatternFields
<1>3. CASE k \in DOMAIN ParseSegments(p)
  <2>1. k \in 1..Len(p)
    BY <1>1, <1>2, <1>3
  <2> QED
    BY <1>3, <2>1, SegmentFields DEF KindAt
<1>4. CASE k \notin DOMAIN ParseSegments(p)
  BY <1>4 DEF KindAt, SegStatic
<1> QED
  BY <1>3, <1>4

\* A path fits a pattern along its node, and by how it ends.
LEMMA FitsIs ==
    ASSUME NEW p \in Seq(Segments), NEW n, n = NodeOf(p), NEW path \in Seq(Nat \ {0})
    PROVE  Fits(p, path) <=>
             /\ Len(n) <= Len(path)
             /\ \A k \in 1..Len(n) : n[k] = Wild \/ n[k] = path[k]
             /\ Ends(p) => Len(path) = Len(n)
             /\ ~Ends(p) /\ Last(ParseSegments(p)).kind = SegCatchAll => Len(path) > Len(n)
<1> DEFINE b == Stem(p)
           s == ParseSegments(p)
<1>1. /\ b \in Seq(Segments) /\ Len(b) \in Nat
      /\ \A k \in 1..Len(b) : b[k] = p[k]
      /\ Ends(p) => Len(s) = Len(b)
      /\ ~Ends(p) => Len(s) = Len(b) + 1
  BY StemShape
<1>2. DOMAIN b = 1..Len(b) /\ Len(path) \in Nat
  BY <1>1, PatternFields, LenProperties
<1>3. /\ Len(n) = Len(b)
      /\ \A k \in 1..Len(n) : \/ p[k].kind = SegDynamic /\ n[k] = Wild
                              \/ /\ p[k].kind = SegStatic /\ n[k] = p[k].value
                                 /\ n[k] # Wild
  BY NodeShape
<1>4. Fits(p, path) <=> /\ Len(b) <= Len(path)
                        /\ \A k \in DOMAIN b : b[k].kind = SegStatic => b[k].value = path[k]
                        /\ Ends(p) => Len(path) = Len(s)
                        /\ ~Ends(p) /\ Last(s).kind = SegCatchAll => Len(path) >= Len(s)
  BY DEF Fits, Ends, Stem
<1> HIDE DEF b, s
<1>5. (\A k \in DOMAIN b : b[k].kind = SegStatic => b[k].value = path[k])
        <=> \A k \in 1..Len(n) : n[k] = Wild \/ n[k] = path[k]
  <2>1. \A k \in 1..Len(n) : (b[k].kind = SegStatic => b[k].value = path[k])
                               <=> n[k] = Wild \/ n[k] = path[k]
    <3>1. \A k \in 1..Len(n) : b[k] = p[k]
      BY <1>1, <1>3
    <3> QED
      BY <1>3, <3>1 DEF SegStatic, SegDynamic
  <2>2. DOMAIN b = 1..Len(n)
    BY <1>2, <1>3
  <2> QED
    BY <2>1, <2>2
<1>6. /\ Ends(p) => (Len(path) = Len(s) <=> Len(path) = Len(n))
      /\ ~Ends(p) => (Len(path) >= Len(s) <=> Len(path) > Len(n))
  BY <1>1, <1>2, <1>3
<1>7. Len(b) <= Len(path) <=> Len(n) <= Len(path)
  BY <1>3
<1> QED
  BY <1>4, <1>5, <1>6, <1>7 DEF s

\* Where two patterns first differ decides.
LEMMA NotBeaten ==
    ASSUME NEW p \in Seq(Segments), NEW q \in Seq(Segments), NEW path \in Seq(Nat \ {0}),
           NEW c \in 1..(Len(path) + 1), KindAt(p, c) < KindAt(q, c),
           \A k \in 1..(c - 1) : KindAt(p, k) = KindAt(q, k)
    PROVE  ~Beats(q, p, path)
<1> DEFINE D == {k \in 1..Len(path) + 1 : KindAt(q, k) # KindAt(p, k)}
<1>0. Len(path) \in Nat
  BY LenProperties
<1>1. D \subseteq Nat
  BY <1>0
<1>2. KindAt(p, c) \in Nat /\ KindAt(q, c) \in Nat
  <2>1. c \in Nat \ {0}
    BY <1>0
  <2>2. KindAt(p, c) \in 0..3 /\ KindAt(q, c) \in 0..3
    BY <2>1, KindType
  <2> QED
    BY <2>2
<1>3. c \in D /\ \A k \in D : c <= k
  BY <1>0, <1>2
<1> HIDE DEF D
<1>4. Min(D) \in D /\ \A k \in D : Min(D) <= k
  BY <1>1, <1>3, MinIs
<1>5. Min(D) = c
  <2>1. Min(D) <= c /\ c <= Min(D) /\ Min(D) \in Nat /\ c \in Nat
    BY <1>1, <1>3, <1>4
  <2> QED
    BY <2>1
<1>6. ~(KindAt(q, Min(D)) < KindAt(p, Min(D)))
  BY <1>2, <1>5
<1> QED
  BY <1>6 DEF Beats, D

LEMMA SameNotBeaten ==
    ASSUME NEW p, NEW q, NEW path,
           \A k \in 1..(Len(path) + 1) : KindAt(p, k) = KindAt(q, k)
    PROVE  ~Beats(q, p, path)
BY DEF Beats

-----------------------------------------------------------------------------
(* The branches below a node, and what each means for the patterns in it.   *)

\* The node n is one the search for path comes to.
OnPath(n, path) == Len(n) <= Len(path) /\ \A k \in 1..Len(n) : n[k] = Wild \/ n[k] = path[k]

\* The search goes down from a node: what holds of a node when it holds of the
\* children it tries holds of every node it comes to.
LEMMA SearchInductive ==
    ASSUME NEW t, t.nodes \subseteq Seq(Nat), NEW path \in Seq(Nat \ {0}), NEW Q,
           \A n \in t.nodes :
              /\ OnPath(n, path)
              /\ Len(n) < Len(path) =>
                   \A x \in {path[Len(n) + 1], Wild} : Append(n, x) \in t.nodes => Append(n, x) \in Q
              => n \in Q
    PROVE  \A n \in t.nodes : OnPath(n, path) => n \in Q
<1> DEFINE A == {m \in Nat : \A n \in t.nodes : OnPath(n, path) /\ Len(path) <= Len(n) + m => n \in Q}
<1>0. /\ Len(path) \in Nat /\ \A n \in t.nodes : n \in Seq(Nat) /\ Len(n) \in Nat
      /\ \A k \in 1..Len(path) : path[k] \in Nat
  BY LenProperties, ElementOfSeq
<1>1. 0 \in A
  <2>1. \A n \in t.nodes : Len(path) <= Len(n) + 0 => ~(Len(n) < Len(path))
    BY <1>0
  <2> QED
    BY <2>1
<1>2. \A m \in A : m + 1 \in A
  <2> SUFFICES ASSUME NEW m \in A, NEW n \in t.nodes, OnPath(n, path), Len(path) <= Len(n) + (m + 1),
                      Len(n) < Len(path), NEW x \in {path[Len(n) + 1], Wild}, Append(n, x) \in t.nodes
               PROVE  Append(n, x) \in Q
    <3>1. \A m \in A : m \in Nat /\ m + 1 \in Nat
      OBVIOUS
    <3> QED
      BY <3>1
  <2>0. m \in Nat
    OBVIOUS
  <2>1. x \in Nat /\ n \in Seq(Nat) /\ Len(n) \in Nat
    BY <1>0 DEF Wild
  <2>2. /\ Len(Append(n, x)) = Len(n) + 1 /\ Append(n, x)[Len(n) + 1] = x
        /\ \A k \in 1..Len(n) : Append(n, x)[k] = n[k]
    BY <2>1, AppendProperties
  <2>3. OnPath(Append(n, x), path)
    <3>1. \A k \in 1..(Len(n) + 1) : k \in 1..Len(n) \/ k = Len(n) + 1
      BY <2>1
    <3> QED
      BY <1>0, <2>1, <2>2, <3>1 DEF OnPath
  <2>4. Len(path) <= Len(Append(n, x)) + m
    BY <1>0, <2>0, <2>1, <2>2
  <2> QED
    BY <2>3, <2>4
<1>3. A = Nat
  <2>1. A \in SUBSET Nat
    OBVIOUS
  <2> HIDE DEF A
  <2> QED
    BY <1>1, <1>2, <2>1, NatInductive
<1>4. Len(path) \in A
  BY <1>0, <1>3
<1> QED
  BY <1>0, <1>4

\* A pattern through a child is through the node, and has the child's kind there.
LEMMA ChildKind ==
    ASSUME NEW p \in Seq(Segments), NEW n \in Seq(Nat), NEW x \in Nat, Through(p, Append(n, x))
    PROVE  /\ Through(p, n)
           /\ KindAt(p, Len(n) + 1) = IF x = Wild THEN SegDynamic ELSE SegStatic
<1> DEFINE m == NodeOf(p)
<1>1. Len(m) \in Nat /\ Len(n) \in Nat
  BY NodeShape, LenProperties
<1>2. /\ Len(Append(n, x)) = Len(n) + 1 /\ Append(n, x)[Len(n) + 1] = x
      /\ \A k \in 1..Len(n) : Append(n, x)[k] = n[k]
  BY AppendProperties
<1>3. /\ Len(n) + 1 <= Len(m)
      /\ \A k \in 1..(Len(n) + 1) : Append(n, x)[k] = m[k]
  BY <1>2 DEF Through
<1>4. Len(n) + 1 \in 1..(Len(n) + 1) /\ Len(n) + 1 \in Nat \ {0}
      /\ \A k \in 1..Len(n) : k \in 1..(Len(n) + 1)
  BY <1>1
<1>5. m[Len(n) + 1] = x /\ \A k \in 1..Len(n) : n[k] = m[k]
  BY <1>2, <1>3, <1>4
<1>6. Len(n) <= Len(m)
  BY <1>1, <1>3
<1>7. KindAt(p, Len(n) + 1) = IF m[Len(n) + 1] = Wild THEN SegDynamic ELSE SegStatic
  BY <1>3, <1>4, KindIs
<1> QED
  BY <1>5, <1>6, <1>7 DEF Through

\* Two patterns through a node have the same kinds on the way to it.
LEMMA SameWay ==
    ASSUME NEW p \in Seq(Segments), NEW q \in Seq(Segments), NEW n \in Seq(Nat),
           Through(p, n), Through(q, n)
    PROVE  \A k \in 1..Len(n) : KindAt(p, k) = KindAt(q, k)
<1> SUFFICES ASSUME NEW k \in 1..Len(n) PROVE KindAt(p, k) = KindAt(q, k)
  OBVIOUS
<1>1. Len(n) \in Nat /\ k \in Nat \ {0} /\ Len(NodeOf(p)) \in Nat /\ Len(NodeOf(q)) \in Nat
  BY NodeShape, LenProperties
<1>2. /\ k <= Len(NodeOf(p)) /\ NodeOf(p)[k] = n[k]
      /\ k <= Len(NodeOf(q)) /\ NodeOf(q)[k] = n[k]
  BY <1>1 DEF Through
<1> QED
  BY <1>1, <1>2, KindIs

\* A pattern through a node that fits a longer path goes on in one of the branches.
LEMMA Branches ==
    ASSUME NEW p \in Seq(Segments), NEW n \in Seq(Nat), Through(p, n), NEW path \in Seq(Nat \ {0}),
           Fits(p, path), Len(n) < Len(path)
    PROVE  \/ Through(p, Append(n, path[Len(n) + 1]))
           \/ Through(p, Append(n, Wild))
           \/ NodeOf(p) = n /\ ~Ends(p)
<1> DEFINE m == NodeOf(p)
<1>1. Len(m) \in Nat /\ Len(n) \in Nat /\ m \in Seq(Nat) /\ Len(path) \in Nat
  BY NodeShape, LenProperties
<1>2. /\ \A k \in 1..Len(m) : m[k] = Wild \/ m[k] = path[k]
      /\ Ends(p) => Len(path) = Len(m)
  BY FitsIs
<1>3. Len(n) <= Len(m) /\ \A k \in 1..Len(n) : n[k] = m[k]
  BY DEF Through
<1>4. CASE Len(m) = Len(n)
  <2>1. m = n
    BY <1>1, <1>3, <1>4, SeqEqual
  <2> QED
    BY <1>1, <1>2, <1>4, <2>1
<1>5. CASE Len(m) > Len(n)
  <2> DEFINE x == m[Len(n) + 1]
  <2>1. Len(n) + 1 \in 1..Len(m) /\ Len(n) + 1 <= Len(m)
    BY <1>1, <1>5
  <2>2. x \in Nat /\ (x = Wild \/ x = path[Len(n) + 1])
    BY <1>1, <1>2, <2>1, ElementOfSeq
  <2> HIDE DEF x, m
  <2>3. /\ Len(Append(n, x)) = Len(n) + 1 /\ Append(n, x)[Len(n) + 1] = x
        /\ \A k \in 1..Len(n) : Append(n, x)[k] = n[k]
    BY <2>2, AppendProperties
  <2>4. \A k \in 1..(Len(n) + 1) : Append(n, x)[k] = m[k]
    <3>1. \A k \in 1..(Len(n) + 1) : k \in 1..Len(n) \/ k = Len(n) + 1
      BY <1>1
    <3> QED
      BY <1>3, <2>3, <3>1 DEF x
  <2>5. Through(p, Append(n, x))
    BY <2>1, <2>3, <2>4 DEF Through, m
  <2> QED
    BY <2>2, <2>5
<1> QED
  BY <1>1, <1>3, <1>4, <1>5

\* A pattern whose node it is goes through it, and has its catch-all there.
LEMMA AtItsNode ==
    ASSUME NEW p \in Seq(Segments), NEW n, n = NodeOf(p)
    PROVE  /\ Through(p, n)
           /\ Ends(p) => KindAt(p, Len(n) + 1) = SegStatic
           /\ ~Ends(p) => /\ KindAt(p, Len(n) + 1) = Last(ParseSegments(p)).kind
                          /\ KindAt(p, Len(n) + 1) \in {SegCatchAll, SegOptCatchAll}
           /\ \A k \in Nat : k > Len(n) + 1 => KindAt(p, k) = SegStatic
<1>1. Len(n) \in Nat
  BY NodeShape
<1>2. Through(p, n)
  BY <1>1 DEF Through
<1>3. ~Ends(p) => Last(ParseSegments(p)).kind \in {SegCatchAll, SegOptCatchAll}
  BY StemShape
<1>4. Len(n) + 1 \in Nat \ {0}
  BY <1>1
<1>5. KindAt(p, Len(n) + 1) = IF Ends(p) THEN SegStatic ELSE Last(ParseSegments(p)).kind
  BY <1>4, KindIs
<1>6. \A k \in Nat : k > Len(n) + 1 => KindAt(p, k) = SegStatic
  <2>1. \A k \in Nat : k > Len(n) + 1 => k \in Nat \ {0}
    BY <1>1
  <2> QED
    BY <2>1, KindIs
<1> QED
  BY <1>2, <1>3, <1>5, <1>6

-----------------------------------------------------------------------------
(* The search is right.                                                     *)

\* Of the routes S through n that fit path, i is one and none beats it.
Best(i, rs, S, n, path) ==
    /\ i \in S /\ Through(rs[i], n) /\ Fits(rs[i], path)
    /\ \A j \in S : Through(rs[j], n) /\ Fits(rs[j], path) => ~Beats(rs[j], rs[i], path)

\* What the search says of the routes through n is right.
Right(m, rs, S, n, path) ==
    /\ m.found \in BOOLEAN
    /\ m.found => m = Found(m.route, m.params) /\ Best(m.route, rs, S, n, path)
    /\ ~m.found => m = NoMatch /\ \A j \in S : ~(Through(rs[j], n) /\ Fits(rs[j], path))

LEMMA FoundIs == ASSUME NEW i, NEW ps
                 PROVE  /\ Found(i, ps).found = TRUE /\ Found(i, ps).route = i
                        /\ Found(i, ps).params = ps /\ NoMatch.found = FALSE
BY DEF Found, NoMatch

LEMMA FoundFields == ASSUME NEW i, NEW ps, NEW m, m = Found(i, ps)
                     PROVE  m.found /\ m.route = i /\ m.params = ps
BY DEF Found

LEMMA RightFound ==
    ASSUME NEW i, NEW ps, NEW m, m = Found(i, ps), NEW rs, NEW S, NEW n, NEW path,
           Best(i, rs, S, n, path)
    PROVE  Right(m, rs, S, n, path)
<1>1. m.found = TRUE /\ m.route = i /\ m.params = ps
  BY FoundIs
<1>2. m = Found(m.route, m.params) /\ Best(m.route, rs, S, n, path)
  BY <1>1
<1> QED
  BY <1>1, <1>2 DEF Right

LEMMA RightNone ==
    ASSUME NEW m, m = NoMatch, NEW rs, NEW S, NEW n, NEW path,
           \A j \in S : ~(Through(rs[j], n) /\ Fits(rs[j], path))
    PROVE  Right(m, rs, S, n, path)
<1>1. m.found = FALSE
  BY FoundIs
<1> QED
  BY <1>1 DEF Right

LEMMA FoundWith == ASSUME NEW i, NEW ps, NEW qs, NEW m, m = Found(i, ps)
                   PROVE  [m EXCEPT !.params = qs] = Found(i, qs)
<1>1. \A b : [[found |-> b, route |-> i, params |-> ps] EXCEPT !.params = qs]
                = [found |-> b, route |-> i, params |-> qs]
  OBVIOUS
<1>2. [[found |-> TRUE, route |-> i, params |-> ps] EXCEPT !.params = qs]
        = [found |-> TRUE, route |-> i, params |-> qs]
  BY <1>1, Zenon
<1> QED
  BY <1>2, Zenon DEF Found

\* A route that is best in a branch is best of all when its kind there is less.
LEMMA BestOfBranch ==
    ASSUME NEW rs, NEW S, \A j \in S : rs[j] \in Seq(Segments),
           NEW n \in Seq(Nat), NEW path \in Seq(Nat \ {0}), Len(n) <= Len(path),
           NEW i \in S, Through(rs[i], n), Fits(rs[i], path),
           \A j \in S : Through(rs[j], n) /\ Fits(rs[j], path) =>
              \/ ~Beats(rs[j], rs[i], path)
              \/ KindAt(rs[i], Len(n) + 1) < KindAt(rs[j], Len(n) + 1)
    PROVE  Best(i, rs, S, n, path)
<1> SUFFICES ASSUME NEW j \in S, Through(rs[j], n), Fits(rs[j], path),
                    KindAt(rs[i], Len(n) + 1) < KindAt(rs[j], Len(n) + 1)
             PROVE  ~Beats(rs[j], rs[i], path)
  BY DEF Best
<1>1. Len(n) \in Nat /\ Len(path) \in Nat
  BY LenProperties
<1>2. Len(n) + 1 \in 1..(Len(path) + 1) /\ (Len(n) + 1) - 1 = Len(n)
  BY <1>1
<1>3. \A k \in 1..((Len(n) + 1) - 1) : KindAt(rs[i], k) = KindAt(rs[j], k)
  BY <1>2, SameWay
<1> QED
  BY <1>2, <1>3, NotBeaten

\* A slot of a node: the routes in it are alike, and the one it holds fits if one does.
LEMMA InSlot ==
    ASSUME NEW p \in Seq(Segments), NEW q \in Seq(Segments), NEW path \in Seq(Nat \ {0}),
           NodeOf(p) = NodeOf(q),
           \/ Ends(p) /\ Ends(q)
           \/ ~Ends(p) /\ ~Ends(q) /\ Last(ParseSegments(p)).kind = Last(ParseSegments(q)).kind
    PROVE  /\ Fits(p, path) <=> Fits(q, path)
           /\ ~Beats(q, p, path)
<1>1. Fits(p, path) <=> Fits(q, path)
  BY FitsIs
<1>2. \A k \in 1..(Len(path) + 1) : KindAt(p, k) = KindAt(q, k)
  <2> SUFFICES ASSUME NEW k \in 1..(Len(path) + 1) PROVE KindAt(p, k) = KindAt(q, k)
    OBVIOUS
  <2>1. k \in Nat \ {0} /\ Len(NodeOf(p)) \in Nat
    BY NodeShape, LenProperties
  <2>2. k <= Len(NodeOf(p)) \/ k = Len(NodeOf(p)) + 1 \/ k > Len(NodeOf(p)) + 1
    BY <2>1
  <2> QED
    BY <2>1, <2>2, KindIs
<1> QED
  BY <1>1, <1>2, SameNotBeaten

\* What a slot holds of the routes it is for.
LEMMA SlotGives ==
    ASSUME NEW slots, NEW rs, NEW R, SlotsHold(slots, rs, R), NEW n
    PROVE  /\ n \in DOMAIN slots => slots[n] \in R /\ NodeOf(rs[slots[n]]) = n
           /\ n \notin DOMAIN slots => \A j \in R : NodeOf(rs[j]) # n
BY DEF SlotsHold

\* The routes through n are those of its two branches and its own.
LEMMA RightAtEnd ==
    ASSUME NEW t, NEW rs, NEW S, Trie(t, rs, S), \A j \in S : rs[j] \in Seq(Segments),
           NEW n \in Seq(Nat), NEW path \in Seq(Nat \ {0}), OnPath(n, path), Len(n) = Len(path)
    PROVE  Right(AtEnd(t, n), rs, S, n, path)
<1>0. Len(n) \in Nat /\ Len(path) \in Nat /\ Len(n) <= Len(path)
  BY LenProperties
<1>1. ASSUME NEW j \in S, Through(rs[j], n), Fits(rs[j], path)
      PROVE  /\ NodeOf(rs[j]) = n
             /\ j \in EndsOf(rs, S) \/ j \in TailsOf(rs, S, SegOptCatchAll)
  <2> DEFINE m == NodeOf(rs[j])
  <2>1. m \in Seq(Nat) /\ Len(m) \in Nat
    BY NodeShape
  <2>2. Len(n) <= Len(m) /\ \A k \in 1..Len(n) : n[k] = m[k]
    BY <1>1 DEF Through
  <2>3. /\ Len(m) <= Len(path)
        /\ ~Ends(rs[j]) /\ Last(ParseSegments(rs[j])).kind = SegCatchAll => Len(path) > Len(m)
    BY <1>1, FitsIs
  <2>4. Len(m) = Len(n)
    BY <1>0, <2>1, <2>2, <2>3
  <2>5. m = n
    BY <2>1, <2>2, <2>4, SeqEqual
  <2>6. ~Ends(rs[j]) => Last(ParseSegments(rs[j])).kind = SegOptCatchAll
    <3>1. ~Ends(rs[j]) => Last(ParseSegments(rs[j])).kind \in {SegCatchAll, SegOptCatchAll}
      BY StemShape
    <3> QED
      BY <1>0, <2>3, <2>4, <3>1
  <2> QED
    BY <2>5, <2>6 DEF EndsOf, TailsOf
<1>2. ASSUME NEW i \in S, NodeOf(rs[i]) = n, Ends(rs[i]) \/ Last(ParseSegments(rs[i])).kind = SegOptCatchAll
      PROVE  Through(rs[i], n) /\ Fits(rs[i], path)
  <2>1. \A k \in 1..Len(n) : n[k] = Wild \/ n[k] = path[k]
    BY DEF OnPath
  <2>2. SegOptCatchAll # SegCatchAll
    BY DEF SegOptCatchAll, SegCatchAll
  <2>3. Fits(rs[i], path)
    BY <1>0, <1>2, <2>1, <2>2, FitsIs
  <2>4. rs[i] \in Seq(Segments)
    OBVIOUS
  <2> QED
    BY <1>2, <2>3, <2>4, AtItsNode
<1>3. CASE n \in DOMAIN t.route
  <2> DEFINE i == t.route[n]
  <2>1. i \in EndsOf(rs, S) /\ NodeOf(rs[i]) = n
    BY <1>3, SlotGives DEF Trie
  <2>2. i \in S /\ Ends(rs[i])
    BY <2>1 DEF EndsOf
  <2> HIDE DEF i
  <2>3. Through(rs[i], n) /\ Fits(rs[i], path)
    BY <1>2, <2>1, <2>2
  <2>4. ASSUME NEW j \in S, Through(rs[j], n), Fits(rs[j], path)
        PROVE  ~Beats(rs[j], rs[i], path) \/ KindAt(rs[i], Len(n) + 1) < KindAt(rs[j], Len(n) + 1)
    <3>1. NodeOf(rs[j]) = n
      BY <1>1, <2>4
    <3>2. CASE Ends(rs[j])
      BY <2>1, <2>2, <3>1, <3>2, InSlot
    <3>3. CASE ~Ends(rs[j])
      <4>1. KindAt(rs[i], Len(n) + 1) = SegStatic
        BY <2>1, <2>2, AtItsNode
      <4>2. KindAt(rs[j], Len(n) + 1) \in {SegCatchAll, SegOptCatchAll}
        BY <3>1, <3>3, AtItsNode
      <4> QED
        BY <4>1, <4>2 DEF SegStatic, SegCatchAll, SegOptCatchAll
    <3> QED
      BY <3>2, <3>3
  <2>5. Best(i, rs, S, n, path)
    BY <1>0, <2>2, <2>3, <2>4, BestOfBranch
  <2>6. AtEnd(t, n) = Found(i, <<>>)
    BY <1>3 DEF AtEnd, i
  <2> QED
    BY <2>5, <2>6, RightFound
<1>4. CASE n \notin DOMAIN t.route /\ n \in DOMAIN t.optCatchAll
  <2> DEFINE i == t.optCatchAll[n]
  <2>1. i \in TailsOf(rs, S, SegOptCatchAll) /\ NodeOf(rs[i]) = n
    BY <1>4, SlotGives DEF Trie
  <2>2. i \in S /\ ~Ends(rs[i]) /\ Last(ParseSegments(rs[i])).kind = SegOptCatchAll
    BY <2>1 DEF TailsOf
  <2> HIDE DEF i
  <2>3. Through(rs[i], n) /\ Fits(rs[i], path)
    BY <1>2, <2>1, <2>2
  <2>4. ASSUME NEW j \in S, Through(rs[j], n), Fits(rs[j], path)
        PROVE  ~Beats(rs[j], rs[i], path)
    <3>1. NodeOf(rs[j]) = n
      BY <1>1, <2>4
    <3>2. j \notin EndsOf(rs, S)
      BY <1>4, <3>1, SlotGives DEF Trie
    <3>3. ~Ends(rs[j]) /\ Last(ParseSegments(rs[j])).kind = SegOptCatchAll
      BY <1>1, <2>4, <3>2 DEF TailsOf
    <3> QED
      BY <2>1, <2>2, <3>1, <3>3, InSlot
  <2>5. Best(i, rs, S, n, path)
    BY <2>2, <2>3, <2>4 DEF Best
  <2>6. AtEnd(t, n) = Found(i, <<>>)
    BY <1>4 DEF AtEnd, i
  <2> QED
    BY <2>5, <2>6, RightFound
<1>5. CASE n \notin DOMAIN t.route /\ n \notin DOMAIN t.optCatchAll
  <2>1. \A j \in EndsOf(rs, S) : NodeOf(rs[j]) # n
    BY <1>5, SlotGives DEF Trie
  <2>2. \A j \in TailsOf(rs, S, SegOptCatchAll) : NodeOf(rs[j]) # n
    BY <1>5, SlotGives DEF Trie
  <2>3. \A j \in S : ~(Through(rs[j], n) /\ Fits(rs[j], path))
    BY <1>1, <2>1, <2>2
  <2>4. AtEnd(t, n) = NoMatch
    BY <1>5 DEF AtEnd
  <2> QED
    BY <2>3, <2>4, RightNone
<1> QED
  BY <1>3, <1>4, <1>5

\* A node whose branches have nothing for the rest answers by its own catch-alls.
LEMMA RightBelow ==
    ASSUME NEW t, NEW rs, NEW S, Trie(t, rs, S), \A j \in S : rs[j] \in Seq(Segments),
           NEW n \in Seq(Nat), NEW path \in Seq(Nat \ {0}), OnPath(n, path), Len(n) < Len(path),
           \A j \in S : Through(rs[j], n) /\ Fits(rs[j], path) => NodeOf(rs[j]) = n /\ ~Ends(rs[j]),
           NEW rest
    PROVE  Right(CatchAll(t, n, rest), rs, S, n, path)
<1>0. Len(n) \in Nat /\ Len(path) \in Nat /\ Len(n) <= Len(path)
  BY LenProperties
<1>1. ASSUME NEW j \in S, Through(rs[j], n), Fits(rs[j], path)
      PROVE  j \in TailsOf(rs, S, SegCatchAll) \/ j \in TailsOf(rs, S, SegOptCatchAll)
  <2>1. ~Ends(rs[j]) /\ rs[j] \in Seq(Segments)
    BY <1>1
  <2>2. Last(ParseSegments(rs[j])).kind \in {SegCatchAll, SegOptCatchAll}
    BY <2>1, StemShape
  <2> QED
    BY <2>1, <2>2 DEF TailsOf
<1>2. ASSUME NEW i \in S, NodeOf(rs[i]) = n, ~Ends(rs[i])
      PROVE  Through(rs[i], n) /\ Fits(rs[i], path)
  <2>1. \A k \in 1..Len(n) : n[k] = Wild \/ n[k] = path[k]
    BY DEF OnPath
  <2>2. Fits(rs[i], path)
    BY <1>0, <1>2, <2>1, FitsIs
  <2>3. rs[i] \in Seq(Segments)
    OBVIOUS
  <2> QED
    BY <1>2, <2>2, <2>3, AtItsNode
<1>3. CASE n \in DOMAIN t.catchAll
  <2> DEFINE i == t.catchAll[n]
             ps == [name \in {t.catchAllName[n]} |-> rest]
  <2>1. i \in TailsOf(rs, S, SegCatchAll) /\ NodeOf(rs[i]) = n
    BY <1>3, SlotGives DEF Trie
  <2>2. i \in S /\ ~Ends(rs[i]) /\ Last(ParseSegments(rs[i])).kind = SegCatchAll
    BY <2>1 DEF TailsOf
  <2>6. CatchAll(t, n, rest) = Found(i, ps)
    BY <1>3 DEF CatchAll
  <2> HIDE DEF i, ps
  <2>3. Through(rs[i], n) /\ Fits(rs[i], path)
    BY <1>2, <2>1, <2>2
  <2>4. ASSUME NEW j \in S, Through(rs[j], n), Fits(rs[j], path)
        PROVE  ~Beats(rs[j], rs[i], path) \/ KindAt(rs[i], Len(n) + 1) < KindAt(rs[j], Len(n) + 1)
    <3>1. NodeOf(rs[j]) = n /\ ~Ends(rs[j]) /\ rs[j] \in Seq(Segments) /\ rs[i] \in Seq(Segments)
      BY <2>2, <2>4
    <3>2. CASE Last(ParseSegments(rs[j])).kind = SegCatchAll
      BY <2>1, <2>2, <3>1, <3>2, InSlot
    <3>3. CASE Last(ParseSegments(rs[j])).kind = SegOptCatchAll
      <4>1. KindAt(rs[i], Len(n) + 1) = SegCatchAll
        BY <2>1, <2>2, <3>1, AtItsNode
      <4>2. KindAt(rs[j], Len(n) + 1) = SegOptCatchAll
        BY <3>1, <3>3, AtItsNode
      <4> QED
        BY <4>1, <4>2 DEF SegCatchAll, SegOptCatchAll
    <3>4. Last(ParseSegments(rs[j])).kind \in {SegCatchAll, SegOptCatchAll}
      BY <3>1, StemShape
    <3> QED
      BY <3>2, <3>3, <3>4
  <2>5. Best(i, rs, S, n, path)
    BY <1>0, <2>2, <2>3, <2>4, BestOfBranch
  <2> QED
    BY <2>5, <2>6, RightFound
<1>4. CASE n \notin DOMAIN t.catchAll /\ n \in DOMAIN t.optCatchAll
  <2> DEFINE i == t.optCatchAll[n]
             ps == [name \in {t.optCatchAllName[n]} |-> rest]
  <2>1. i \in TailsOf(rs, S, SegOptCatchAll) /\ NodeOf(rs[i]) = n
    BY <1>4, SlotGives DEF Trie
  <2>2. i \in S /\ ~Ends(rs[i]) /\ Last(ParseSegments(rs[i])).kind = SegOptCatchAll
    BY <2>1 DEF TailsOf
  <2>6. CatchAll(t, n, rest) = Found(i, ps)
    BY <1>4 DEF CatchAll
  <2> HIDE DEF i, ps
  <2>3. Through(rs[i], n) /\ Fits(rs[i], path)
    BY <1>2, <2>1, <2>2
  <2>4. ASSUME NEW j \in S, Through(rs[j], n), Fits(rs[j], path)
        PROVE  ~Beats(rs[j], rs[i], path)
    <3>1. NodeOf(rs[j]) = n /\ ~Ends(rs[j]) /\ rs[j] \in Seq(Segments) /\ rs[i] \in Seq(Segments)
      BY <2>2, <2>4
    <3>2. j \notin TailsOf(rs, S, SegCatchAll)
      BY <1>4, <3>1, SlotGives DEF Trie
    <3>3. Last(ParseSegments(rs[j])).kind = SegOptCatchAll
      BY <1>1, <2>4, <3>2 DEF TailsOf
    <3> QED
      BY <2>1, <2>2, <3>1, <3>3, InSlot
  <2>5. Best(i, rs, S, n, path)
    BY <2>2, <2>3, <2>4 DEF Best
  <2> QED
    BY <2>5, <2>6, RightFound
<1>5. CASE n \notin DOMAIN t.catchAll /\ n \notin DOMAIN t.optCatchAll
  <2>1. \A j \in TailsOf(rs, S, SegCatchAll) : NodeOf(rs[j]) # n
    BY <1>5, SlotGives DEF Trie
  <2>2. \A j \in TailsOf(rs, S, SegOptCatchAll) : NodeOf(rs[j]) # n
    BY <1>5, SlotGives DEF Trie
  <2>3. \A j \in S : ~(Through(rs[j], n) /\ Fits(rs[j], path))
    BY <1>1, <2>1, <2>2
  <2>4. CatchAll(t, n, rest) = NoMatch
    BY <1>5 DEF CatchAll
  <2> QED
    BY <2>3, <2>4, RightNone
<1> QED
  BY <1>3, <1>4, <1>5

\* What is found in a branch of a node is right for the node, when the branches
\* tried before it have nothing for the path.
LEMMA RightInBranch ==
    ASSUME NEW rs, NEW S, \A j \in S : rs[j] \in Seq(Segments),
           NEW n \in Seq(Nat), NEW x \in Nat, NEW path \in Seq(Nat \ {0}), Len(n) < Len(path),
           NEW i, Best(i, rs, S, Append(n, x), path),
           \/ x # Wild
           \/ x = Wild /\ \A j \in S : ~(Through(rs[j], Append(n, path[Len(n) + 1]))
                                         /\ Fits(rs[j], path)),
           x = Wild \/ x = path[Len(n) + 1]
    PROVE  Best(i, rs, S, n, path)
<1>0. Len(n) \in Nat /\ Len(path) \in Nat /\ Len(n) <= Len(path) /\ Wild \in Nat
  BY LenProperties DEF Wild
<1>1. i \in S /\ Through(rs[i], Append(n, x)) /\ Fits(rs[i], path)
  BY DEF Best
<1>2. Through(rs[i], n) /\ KindAt(rs[i], Len(n) + 1) = IF x = Wild THEN SegDynamic ELSE SegStatic
  BY <1>1, ChildKind
<1>3. ASSUME NEW j \in S, Through(rs[j], n), Fits(rs[j], path)
      PROVE  ~Beats(rs[j], rs[i], path) \/ KindAt(rs[i], Len(n) + 1) < KindAt(rs[j], Len(n) + 1)
  <2>1. CASE Through(rs[j], Append(n, x))
    BY <1>3, <2>1 DEF Best
  <2>2. CASE Through(rs[j], Append(n, Wild)) /\ x # Wild
    <3>1. KindAt(rs[j], Len(n) + 1) = SegDynamic
      BY <1>0, <2>2, ChildKind
    <3> QED
      BY <1>2, <2>2, <3>1 DEF SegDynamic, SegStatic
  <2>3. CASE NodeOf(rs[j]) = n /\ ~Ends(rs[j])
    <3>1. KindAt(rs[j], Len(n) + 1) \in {SegCatchAll, SegOptCatchAll}
      BY <2>3, AtItsNode
    <3> QED
      BY <1>2, <3>1 DEF SegDynamic, SegStatic, SegCatchAll, SegOptCatchAll
  <2>4. \/ Through(rs[j], Append(n, path[Len(n) + 1]))
        \/ Through(rs[j], Append(n, Wild))
        \/ NodeOf(rs[j]) = n /\ ~Ends(rs[j])
    BY <1>3, Branches
  <2> QED
    BY <1>3, <2>1, <2>2, <2>3, <2>4
<1> QED
  BY <1>0, <1>1, <1>2, <1>3, BestOfBranch

LEMMA SearchRight ==
    ASSUME NEW t, NEW rs, NEW S, Trie(t, rs, S), \A j \in S : rs[j] \in Seq(Segments),
           NEW path \in Seq(Nat \ {0})
    PROVE  \A n \in t.nodes : OnPath(n, path) => Right(MatchNode(t, path)[n], rs, S, n, path)
<1> DEFINE f == MatchNode(t, path)
           Q == {n \in t.nodes : Right(f[n], rs, S, n, path)}
<1>0. /\ t.nodes \subseteq Seq(Nat) /\ Len(path) \in Nat /\ path \in Seq(Nat)
      /\ \A n \in Seq(Nat) : n \in t.nodes <=> n = <<>> \/ \E i \in S : Through(rs[i], n)
  <2>1. path \in Seq(Nat)
    OBVIOUS
  <2> QED
    BY <2>1, LenProperties DEF Trie, NodesHold
<1>1. \A n \in t.nodes : f[n] = Search(f, t, path, n)
  BY <1>0, SearchUnfolds
<1> HIDE DEF f
<1>2. ASSUME NEW n \in t.nodes, OnPath(n, path),
             Len(n) < Len(path) =>
               \A x \in {path[Len(n) + 1], Wild} : Append(n, x) \in t.nodes => Append(n, x) \in Q
      PROVE  n \in Q
  <2>0. n \in Seq(Nat) /\ Len(n) \in Nat /\ Len(n) <= Len(path)
    BY <1>0, <1>2, LenProperties DEF OnPath
  <2>1. CASE Len(path) <= Len(n)
    <3>1. f[n] = AtEnd(t, n)
      BY <1>1, <2>1 DEF Search
    <3>2. Len(n) = Len(path)
      BY <1>0, <2>0, <2>1
    <3> QED
      BY <1>2, <2>0, <3>1, <3>2, RightAtEnd
  <2>2. CASE ~(Len(path) <= Len(n))
    <3> DEFINE text == path[Len(n) + 1]
               static == Append(n, text)
               wild == Append(n, Wild)
               viaStatic == IF static \in t.nodes THEN f[static] ELSE NoMatch
               viaWild == IF wild \in t.nodes THEN Bind(f[wild], t.wildName[n], text) ELSE NoMatch
    <3>1. f[n] = IF viaStatic.found THEN viaStatic
                 ELSE IF viaWild.found THEN viaWild
                 ELSE CatchAll(t, n, SubSeq(path, Len(n) + 1, Len(path)))
      BY <1>1, <2>2 DEF Search
    <3>2. Len(n) < Len(path)
      BY <1>0, <2>0, <2>2
    <3>3. text \in Nat \ {0} /\ text # Wild /\ text \in Nat /\ Wild \in Nat
      <4>1. Len(n) + 1 \in 1..Len(path)
        BY <1>0, <2>0, <3>2
      <4> QED
        BY <4>1, ElementOfSeq DEF Wild
    <3>4. static \in Seq(Nat) /\ wild \in Seq(Nat)
      BY <2>0, <3>3, AppendProperties
    <3>5. Right(viaStatic, rs, S, static, path)
      <4>1. CASE static \in t.nodes
        BY <1>2, <3>2, <4>1
      <4>2. CASE static \notin t.nodes
        <5>1. \A j \in S : ~Through(rs[j], static)
          BY <1>0, <3>4, <4>2
        <5> QED
          BY <4>2, <5>1, RightNone
      <4> QED
        BY <4>1, <4>2
    <3>6. CASE viaStatic.found
      <4>1. Best(viaStatic.route, rs, S, static, path)
            /\ viaStatic = Found(viaStatic.route, viaStatic.params)
        BY <3>5, <3>6 DEF Right
      <4> HIDE DEF viaStatic
      <4>2. Best(viaStatic.route, rs, S, n, path)
        BY <2>0, <3>2, <3>3, <4>1, RightInBranch
      <4>3. f[n] = viaStatic
        BY <3>1, <3>6
      <4> QED
        BY <4>1, <4>2, <4>3, RightFound
    <3>7. CASE ~viaStatic.found
      <4>0. \A j \in S : ~(Through(rs[j], static) /\ Fits(rs[j], path))
        BY <3>5, <3>7 DEF Right
      <4>1. Right(viaWild, rs, S, wild, path)
        <5>1. CASE wild \in t.nodes
          <6> DEFINE m == f[wild]
                     b == Bind(m, t.wildName[n], text)
          <6>1. Right(m, rs, S, wild, path)
            BY <1>2, <3>2, <5>1
          <6>2. viaWild = b
            BY <5>1
          <6> HIDE DEF m, viaWild
          <6>3. CASE m.found
            <7>1. m = Found(m.route, m.params) /\ Best(m.route, rs, S, wild, path)
              BY <6>1, <6>3 DEF Right
            <7> DEFINE name == t.wildName[n]
                       one == [x \in {name} |-> <<text>>]
                       ps == Extend(m.params, one)
            <7>2. b = [m EXCEPT !.params = ps]
              <8> HIDE DEF text, m, name
              <8>2. Bind(m, name, text) = [m EXCEPT !.params = ps]
                BY <6>3 DEF Bind
              <8> QED
                BY <8>2 DEF name
            <7> HIDE DEF ps, b
            <7>3. b = Found(m.route, ps)
              BY <7>1, <7>2, FoundWith
            <7> QED
              BY <6>2, <7>1, <7>3, RightFound
          <6>4. CASE ~m.found
            <7>1. m = NoMatch /\ \A j \in S : ~(Through(rs[j], wild) /\ Fits(rs[j], path))
              BY <6>1, <6>4 DEF Right
            <7>2. b = NoMatch
              BY <6>4, <7>1 DEF Bind
            <7> HIDE DEF b
            <7> QED
              BY <6>2, <7>1, <7>2, RightNone
          <6>5. m.found \in BOOLEAN
            BY <6>1 DEF Right
          <6> QED
            BY <6>3, <6>4, <6>5
        <5>2. CASE wild \notin t.nodes
          <6>1. \A j \in S : ~Through(rs[j], wild)
            BY <1>0, <3>4, <5>2
          <6> QED
            BY <5>2, <6>1, RightNone
        <5> QED
          BY <5>1, <5>2
      <4>2. CASE viaWild.found
        <5>1. Best(viaWild.route, rs, S, wild, path)
              /\ viaWild = Found(viaWild.route, viaWild.params)
          BY <4>1, <4>2 DEF Right
        <5>3. f[n] = viaWild
          BY <3>1, <3>7, <4>2
        <5> HIDE DEF viaWild
        <5>2. Best(viaWild.route, rs, S, n, path)
          BY <2>0, <3>2, <3>3, <4>0, <5>1, RightInBranch
        <5> QED
          BY <5>1, <5>2, <5>3, RightFound
      <4>3. CASE ~viaWild.found
        <5>1. \A j \in S : ~(Through(rs[j], wild) /\ Fits(rs[j], path))
          BY <4>1, <4>3 DEF Right
        <5>2. \A j \in S : Through(rs[j], n) /\ Fits(rs[j], path) => NodeOf(rs[j]) = n /\ ~Ends(rs[j])
          BY <2>0, <3>2, <4>0, <5>1, Branches
        <5>3. f[n] = CatchAll(t, n, SubSeq(path, Len(n) + 1, Len(path)))
          BY <3>1, <3>7, <4>3
        <5>4. Right(CatchAll(t, n, SubSeq(path, Len(n) + 1, Len(path))), rs, S, n, path)
          BY <1>2, <2>0, <3>2, <5>2, RightBelow
        <5> QED
          BY <5>3, <5>4
      <4> QED
        BY <4>2, <4>3
    <3> QED
      BY <3>6, <3>7
  <2> QED
    BY <2>1, <2>2
<1>3. \A n \in t.nodes : OnPath(n, path) => n \in Q
  <2> HIDE DEF Q
  <2> QED
    BY <1>0, <1>2, SearchInductive
<1> QED
  BY <1>3 DEF f

-----------------------------------------------------------------------------
(* The parameters the search gives.                                         *)

Single(name, value) == [x \in {name} |-> value]

\* The parameters a pattern gives for what is left of a path from a depth on.
ParamsFrom(p, path, d) ==
    {k \in DOMAIN ParseSegments(p) : ParseSegments(p)[k].kind # SegStatic /\ k <= Len(path) /\ k > d}
ParamAt(p, path, k) ==
    IF IsCatchAll(ParseSegments(p)[k]) THEN SubSeq(path, k, Len(path)) ELSE <<path[k]>>
Called(p, J, name) == {j \in J : ParseSegments(p)[j].value = name}
ParamsAfter(p, path, d) ==
    [name \in {ParseSegments(p)[k].value : k \in ParamsFrom(p, path, d)} |->
       ParamAt(p, path, Max(Called(p, ParamsFrom(p, path, d), name)))]

LEMMA AllParams == ASSUME NEW p \in Seq(Segments), NEW path
                   PROVE  ParamsOf(p, path) = ParamsAfter(p, path, 0)
<1> DEFINE s == ParseSegments(p)
           P == {k \in DOMAIN s : s[k].kind # SegStatic /\ k <= Len(path)}
<1>1. s \in Seq(Segments)
  BY ParsedShape
<1>2. DOMAIN s = 1..Len(s) /\ Len(s) \in Nat
  BY <1>1, PatternFields
<1>3. P = ParamsFrom(p, path, 0)
  BY <1>2 DEF ParamsFrom
<1>4. ParamsOf(p, path) = [name \in {s[k].value : k \in P} |->
                             ParamAt(p, path, Max({j \in P : s[j].value = name}))]
  BY DEF ParamsOf, ParamAt
<1> HIDE DEF P, s
<1> QED
  BY <1>3, <1>4 DEF ParamsAfter, Called, s

\* Past its end, or where its segment is a text, a pattern gives no parameter.
LEMMA ParamsSkip ==
    ASSUME NEW p \in Seq(Segments), NEW path \in Seq(Nat), NEW d \in Nat
    PROVE  /\ KindAt(p, d + 1) = SegStatic => ParamsAfter(p, path, d) = ParamsAfter(p, path, d + 1)
           /\ Len(path) <= d => ParamsAfter(p, path, d) = <<>>
<1> DEFINE s == ParseSegments(p)
<1>1. s \in Seq(Segments) /\ \A k \in 1..Len(s) : s[k] = p[k]
  BY ParsedShape
<1>2. DOMAIN s = 1..Len(s) /\ Len(s) \in Nat /\ Len(path) \in Nat
  BY <1>1, PatternFields, LenProperties
<1> HIDE DEF s
<1>3. ParamsFrom(p, path, d) = {k \in 1..Len(s) : s[k].kind # SegStatic /\ k <= Len(path) /\ k > d}
  BY <1>2 DEF ParamsFrom, s
<1>4. ParamsFrom(p, path, d + 1)
        = {k \in 1..Len(s) : s[k].kind # SegStatic /\ k <= Len(path) /\ k > d + 1}
  BY <1>2 DEF ParamsFrom, s
<1>5. ASSUME KindAt(p, d + 1) = SegStatic
      PROVE  ParamsAfter(p, path, d) = ParamsAfter(p, path, d + 1)
  <2>1. d + 1 \in 1..Len(s) => s[d + 1].kind = SegStatic
    BY <1>1, <1>2, <1>5 DEF KindAt, s
  <2>2. \A k \in 1..Len(s) : k > d /\ s[k].kind # SegStatic => k > d + 1
    <3> SUFFICES ASSUME NEW k \in 1..Len(s), k > d, s[k].kind # SegStatic PROVE k > d + 1
      OBVIOUS
    <3>1. k # d + 1
      BY <2>1
    <3> QED
      BY <1>2, <3>1
  <2>3. \A k \in 1..Len(s) : k > d + 1 => k > d
    BY <1>2
  <2>4. ParamsFrom(p, path, d) = ParamsFrom(p, path, d + 1)
    BY <1>3, <1>4, <2>2, <2>3
  <2> QED
    BY <2>4 DEF ParamsAfter
<1>6. ASSUME Len(path) <= d PROVE ParamsAfter(p, path, d) = <<>>
  <2>1. ParamsFrom(p, path, d) = {}
    BY <1>2, <1>3, <1>6
  <2> QED
    BY <2>1 DEF ParamsAfter
<1> QED
  BY <1>5, <1>6

\* A catch-all gives all that is left.
LEMMA ParamsRest ==
    ASSUME NEW p \in Seq(Segments), NEW n, n = NodeOf(p), ~Ends(p),
           NEW path \in Seq(Nat), Len(n) < Len(path)
    PROVE  ParamsAfter(p, path, Len(n))
             = Single(Last(ParseSegments(p)).value, SubSeq(path, Len(n) + 1, Len(path)))
<1> DEFINE s == ParseSegments(p)
           k == Len(n) + 1
           J == ParamsFrom(p, path, Len(n))
<1>1. s \in Seq(Segments) /\ \A j \in 1..Len(s) : s[j] = p[j]
  BY ParsedShape
<1>2. DOMAIN s = 1..Len(s) /\ Len(s) \in Nat /\ Len(path) \in Nat /\ Len(n) \in Nat
  BY <1>1, PatternFields, NodeShape, LenProperties
<1>3. /\ Len(s) = k /\ Last(s) = p[Len(s)]
      /\ p[Len(s)].kind \in {SegCatchAll, SegOptCatchAll}
  BY StemShape, NodeShape
<1> HIDE DEF s
<1>4. s[k] = Last(s) /\ IsCatchAll(s[k]) /\ s[k].kind # SegStatic
  BY <1>1, <1>2, <1>3 DEF IsCatchAll, SegCatchAll, SegOptCatchAll, SegStatic
<1>5. J = {k}
  <2>1. J = {j \in 1..Len(s) : s[j].kind # SegStatic /\ j <= Len(path) /\ j > Len(n)}
    BY <1>2 DEF ParamsFrom, s
  <2>2. \A j \in 1..Len(s) : j > Len(n) => j = k
    BY <1>2, <1>3
  <2>3. k \in 1..Len(s) /\ k <= Len(path) /\ k > Len(n)
    BY <1>2, <1>3
  <2> HIDE DEF k, J
  <2> QED
    BY <1>4, <2>1, <2>2, <2>3
<1>6. k \in Nat
  BY <1>2
<1> HIDE DEF J, k
<1>7. Max({k}) = k
  <2>1. {k} \subseteq 0..k /\ {k} # {}
    BY <1>6
  <2>2. Max({k}) \in {k}
    BY <1>6, <2>1, MaxIs
  <2> QED
    BY <2>2
<1>8. {s[j].value : j \in J} = {Last(s).value}
  BY <1>4, <1>5
<1>9. Called(p, J, Last(s).value) = {k}
  BY <1>4, <1>5 DEF Called, s
<1>10. ParamAt(p, path, k) = SubSeq(path, k, Len(path))
  BY <1>4 DEF ParamAt, s
<1>11. ParamsAfter(p, path, Len(n)) = [name \in {Last(s).value} |-> SubSeq(path, k, Len(path))]
  <2>1. ParamsAfter(p, path, Len(n)) = [name \in {s[j].value : j \in J} |->
                                          ParamAt(p, path, Max(Called(p, J, name)))]
    BY DEF ParamsAfter, J, s
  <2>2. \A name \in {Last(s).value} : ParamAt(p, path, Max(Called(p, J, name))) = SubSeq(path, k, Len(path))
    BY <1>7, <1>9, <1>10
  <2> QED
    BY <1>8, <2>1, <2>2
<1> QED
  BY <1>11 DEF k, s, Single

\* A dynamic segment gives its text, unless a later one of its name does.
LEMMA ParamsWild ==
    ASSUME NEW p \in Seq(Segments), NEW path \in Seq(Nat), NEW d \in Nat, d < Len(path),
           KindAt(p, d + 1) = SegDynamic, NEW v, v = p[d + 1].value
    PROVE  ParamsAfter(p, path, d)
             = Extend(ParamsAfter(p, path, d + 1), Single(v, <<path[d + 1]>>))
<1> DEFINE one == [x \in {v} |-> <<path[d + 1]>>]
           s == ParseSegments(p)
           J == ParamsFrom(p, path, d)
           K == ParamsFrom(p, path, d + 1)
           f == ParamsAfter(p, path, d)
           g == ParamsAfter(p, path, d + 1)
<1>1. s \in Seq(Segments) /\ \A j \in 1..Len(s) : s[j] = p[j]
  BY ParsedShape
<1>2. DOMAIN s = 1..Len(s) /\ Len(s) \in Nat /\ Len(path) \in Nat
  BY <1>1, PatternFields, LenProperties
<1>3. d + 1 \in 1..Len(s) /\ s[d + 1].kind = SegDynamic /\ s[d + 1].value = v
  <2>1. d + 1 \in DOMAIN s /\ p[d + 1].kind = SegDynamic
    BY DEF KindAt, SegDynamic, SegStatic
  <2> QED
    BY <1>1, <1>2, <2>1
<1>4. /\ J = {k \in 1..Len(s) : s[k].kind # SegStatic /\ k <= Len(path) /\ k > d}
      /\ K = {k \in 1..Len(s) : s[k].kind # SegStatic /\ k <= Len(path) /\ k > d + 1}
  BY <1>2 DEF ParamsFrom
<1>5. /\ f = [name \in {s[j].value : j \in J} |-> ParamAt(p, path, Max(Called(p, J, name)))]
      /\ g = [name \in {s[j].value : j \in K} |-> ParamAt(p, path, Max(Called(p, K, name)))]
  BY DEF ParamsAfter
<1>6. \A name : /\ Called(p, J, name) = {j \in J : s[j].value = name}
                /\ Called(p, K, name) = {j \in K : s[j].value = name}
  BY DEF Called
<1>7. ParamAt(p, path, d + 1) = <<path[d + 1]>>
  BY <1>3 DEF ParamAt, IsCatchAll, SegDynamic, SegCatchAll
<1> HIDE DEF s, J, K, f, g
<1>8. J = K \cup {d + 1} /\ K \subseteq 0..Len(s) /\ d + 1 \in 0..Len(s) /\ \A k \in K : k > d + 1
  <2>1. \A k \in 1..Len(s) : k > d <=> k > d + 1 \/ k = d + 1
    BY <1>2
  <2>2. d + 1 <= Len(path) /\ SegDynamic # SegStatic /\ ~(d + 1 > d + 1) /\ d + 1 > d
    BY <1>2 DEF SegDynamic, SegStatic
  <2>3. 1..Len(s) \subseteq 0..Len(s)
    BY <1>2
  <2> QED
    BY <1>3, <1>4, <2>1, <2>2, <2>3
<1>9. ASSUME NEW name, name \in {s[j].value : j \in K}
      PROVE  Max(Called(p, J, name)) = Max(Called(p, K, name))
  <2> DEFINE A == Called(p, K, name)
             B == Called(p, J, name)
  <2>a. A = {j \in K : s[j].value = name} /\ B = {j \in J : s[j].value = name}
    BY <1>6
  <2>1. /\ A \subseteq 0..Len(s) /\ A # {} /\ A \subseteq B
        /\ B \subseteq 0..Len(s) /\ \A k \in B : k \in A \/ k = d + 1
        /\ \A k \in A : k > d + 1
    <3> HIDE DEF A, B
    <3>1. A # {}
      BY <1>9, <2>a
    <3>2. A \subseteq K /\ A \subseteq B /\ B \subseteq J /\ \A k \in B : k \in A \/ k = d + 1
      BY <1>8, <2>a
    <3> QED
      BY <1>8, <3>1, <3>2
  <2> HIDE DEF A, B
  <2>2. Max(A) \in A /\ \A k \in A : k <= Max(A)
    BY <1>2, <2>1, MaxIs
  <2>3. Max(B) \in B /\ \A k \in B : k <= Max(B)
    BY <1>2, <2>1, MaxIs
  <2>4. Max(A) \in Nat /\ Max(B) \in Nat /\ Max(A) <= Max(B) /\ Max(B) <= Max(A)
    <3>1. Max(A) \in 0..Len(s) /\ Max(B) \in 0..Len(s)
      BY <2>1, <2>2, <2>3
    <3>2. Max(A) <= Max(B)
      BY <2>1, <2>2, <2>3
    <3>3. Max(B) \in A => Max(B) <= Max(A)
      BY <2>2
    <3>4. Max(B) = d + 1 => Max(B) <= Max(A)
      BY <1>2, <2>1, <2>2, <3>1
    <3> QED
      BY <1>2, <2>1, <2>3, <3>1, <3>2, <3>3, <3>4
  <2>5. Max(A) = Max(B)
    BY <2>4
  <2> QED
    BY <2>5 DEF A, B
<1>10. ASSUME v \notin {s[j].value : j \in K}
       PROVE  Max(Called(p, J, v)) = d + 1
  <2>1. Called(p, J, v) = {d + 1}
    <3>1. Called(p, J, v) = {j \in J : s[j].value = v}
      BY <1>6
    <3>2. \A j \in K : s[j].value # v
      BY <1>10
    <3>3. \A j \in J : s[j].value = v <=> j = d + 1
      BY <1>3, <1>8, <3>2
    <3>4. d + 1 \in J
      BY <1>8
    <3> QED
      BY <3>1, <3>3, <3>4
  <2>2. Max({d + 1}) \in {d + 1}
    BY <1>2, <1>8, MaxIs
  <2> QED
    BY <2>1, <2>2
<1>11. {s[j].value : j \in J} = {s[j].value : j \in K} \cup {v}
  BY <1>3, <1>8
<1>12. \A name \in {s[j].value : j \in K} : f[name] = g[name]
  BY <1>5, <1>9, <1>11
<1>13. v \notin {s[j].value : j \in K} => f[v] = one[v]
  BY <1>5, <1>7, <1>10, <1>11
<1>14. /\ DOMAIN f = DOMAIN g \cup DOMAIN one /\ DOMAIN g = {s[j].value : j \in K} /\ DOMAIN one = {v}
       /\ f = [name \in DOMAIN f |-> f[name]]
  BY <1>5, <1>11
<1>15. f = Extend(g, one)
  <2>1. \A name \in DOMAIN f : f[name] = IF name \in DOMAIN g THEN g[name] ELSE one[name]
    BY <1>12, <1>13, <1>14
  <2> QED
    BY <1>14, <2>1 DEF Extend
<1> QED
  BY <1>15 DEF f, g, Single

LEMMA EdgesOnWay ==
    ASSUME NEW p \in Seq(Segments), NEW n \in Seq(Nat), Through(p, n)
    PROVE  Edges(SubSeq(ParseSegments(p), 1, Len(n))) = [j \in 1..Len(n) |-> n[j]]
<1> DEFINE s == ParseSegments(p)
           d == Len(n)
           b == SubSeq(s, 1, d)
<1>1. s \in Seq(Segments) /\ Len(s) \in Nat /\ \A j \in 1..Len(s) : s[j] = p[j]
  BY ParsedShape
<1>2. /\ d \in Nat /\ Len(NodeOf(p)) \in Nat /\ Len(NodeOf(p)) = Len(Stem(p))
      /\ \A j \in 1..Len(NodeOf(p)) : \/ p[j].kind = SegDynamic /\ NodeOf(p)[j] = Wild
                                      \/ p[j].kind = SegStatic /\ NodeOf(p)[j] = p[j].value
  BY NodeShape, LenProperties
<1>3. Len(Stem(p)) <= Len(s) /\ Len(Stem(p)) \in Nat
  BY StemShape
<1>4. d <= Len(s) /\ d <= Len(NodeOf(p)) /\ \A j \in 1..d : n[j] = NodeOf(p)[j]
  BY <1>1, <1>2, <1>3 DEF Through
<1> HIDE DEF s, d
<1>5. b \in Seq(Segments) /\ Len(b) = d /\ \A j \in 1..d : b[j] = s[j]
  <2>1. 1 \in Nat /\ d \in Nat /\ \A j \in 1..d : s[j] \in Segments
    <3>1. \A j \in 1..d : j \in 1..Len(s)
      BY <1>1, <1>2, <1>4
    <3> QED
      BY <1>1, <1>2, <3>1, ElementOfSeq
  <2>2. 1 <= d => 1 \in 1..Len(s) /\ d \in 1..Len(s)
    BY <1>1, <1>2, <1>4
  <2> QED
    BY <1>1, <1>2, <2>1, <2>2, SubSeqProperties
<1>6. DOMAIN b = 1..d
  BY <1>2, <1>5, PatternFields
<1>7. \A j \in 1..d : b[j] = p[j] /\ (IF p[j].kind = SegStatic THEN p[j].value ELSE Wild) = n[j]
  <2> SUFFICES ASSUME NEW j \in 1..d
               PROVE  b[j] = p[j] /\ (IF p[j].kind = SegStatic THEN p[j].value ELSE Wild) = n[j]
    OBVIOUS
  <2>1. j \in 1..Len(s) /\ j \in 1..Len(NodeOf(p))
    BY <1>1, <1>2, <1>4
  <2>2. b[j] = p[j]
    BY <1>1, <1>5, <2>1
  <2>3. n[j] = NodeOf(p)[j]
    BY <1>4
  <2>4. \/ p[j].kind = SegDynamic /\ NodeOf(p)[j] = Wild
        \/ p[j].kind = SegStatic /\ NodeOf(p)[j] = p[j].value
    BY <1>2, <2>1
  <2>5. (IF p[j].kind = SegStatic THEN p[j].value ELSE Wild) = NodeOf(p)[j]
    BY <2>4 DEF SegStatic, SegDynamic
  <2> HIDE DEF b
  <2> QED
    BY <2>2, <2>3, <2>5
<1> HIDE DEF b
<1>8. Edges(b) = [j \in 1..d |-> n[j]]
  BY <1>6, <1>7 DEF Edges
<1> QED
  BY <1>8 DEF b, s, d

\* Patterns that agree on the names call a wild child they share the same.
LEMMA NamesMeet ==
    ASSUME NEW P, NamesAgree(P), NEW p \in P, NEW q \in P,
           p \in Seq(Segments), q \in Seq(Segments),
           NEW n \in Seq(Nat), Through(p, Append(n, Wild)), Through(q, Append(n, Wild))
    PROVE  p[Len(n) + 1].value = q[Len(n) + 1].value
<1> DEFINE a == ParseSegments(p)
           b == ParseSegments(q)
           k == Len(n) + 1
<1>0. Wild \in Nat /\ Len(n) \in Nat /\ k - 1 = Len(n) /\ k \in Nat \ {0}
  BY LenProperties DEF Wild
<1>1. Through(p, n) /\ KindAt(p, k) = SegDynamic
  BY <1>0, ChildKind
<1>2. Through(q, n) /\ KindAt(q, k) = SegDynamic
  BY <1>0, ChildKind
<1>3. k \in DOMAIN a /\ p[k].kind = SegDynamic
  BY <1>1 DEF KindAt, SegStatic, SegDynamic
<1>4. k \in DOMAIN b /\ q[k].kind = SegDynamic
  BY <1>2 DEF KindAt, SegStatic, SegDynamic
<1>5. a[k] = p[k] /\ b[k] = q[k]
  <2>1. a \in Seq(Segments) /\ b \in Seq(Segments)
        /\ (\A j \in 1..Len(a) : a[j] = p[j]) /\ (\A j \in 1..Len(b) : b[j] = q[j])
    BY ParsedShape
  <2>2. DOMAIN a = 1..Len(a) /\ DOMAIN b = 1..Len(b)
    BY <2>1, PatternFields
  <2> QED
    BY <1>3, <1>4, <2>1, <2>2
<1>6. Edges(SubSeq(a, 1, k - 1)) = Edges(SubSeq(b, 1, k - 1))
  <2>1. /\ Edges(SubSeq(a, 1, Len(n))) = [j \in 1..Len(n) |-> n[j]]
        /\ Edges(SubSeq(b, 1, Len(n))) = [j \in 1..Len(n) |-> n[j]]
    BY <1>1, <1>2, EdgesOnWay
  <2> QED
    BY <1>0, <2>1
<1>7. \A j \in DOMAIN a \cap DOMAIN b :
         /\ Edges(SubSeq(a, 1, j - 1)) = Edges(SubSeq(b, 1, j - 1))
         /\ a[j].kind = b[j].kind
         /\ a[j].kind # SegStatic
         => a[j].value = b[j].value
  BY Zenon DEF NamesAgree
<1> HIDE DEF a, b, k
<1>8. a[k].value = b[k].value
  BY <1>3, <1>4, <1>5, <1>6, <1>7 DEF SegStatic, SegDynamic
<1> QED
  BY <1>5, <1>8 DEF k

LEMMA SearchParams ==
    ASSUME NEW t, NEW rs, NEW S, Trie(t, rs, S), \A j \in S : rs[j] \in Seq(Segments),
           NEW P, NamesAgree(P), \A j \in S : rs[j] \in P, NEW path \in Seq(Nat \ {0})
    PROVE  \A n \in t.nodes : OnPath(n, path) /\ MatchNode(t, path)[n].found =>
              MatchNode(t, path)[n].params
                = ParamsAfter(rs[MatchNode(t, path)[n].route], path, Len(n))
<1> DEFINE f == MatchNode(t, path)
           Own(n) == f[n].found => f[n].params = ParamsAfter(rs[f[n].route], path, Len(n))
           Q == {n \in t.nodes : Own(n)}
<1>0. /\ t.nodes \subseteq Seq(Nat) /\ Len(path) \in Nat /\ path \in Seq(Nat)
      /\ \A n \in Seq(Nat) : n \in t.nodes <=> n = <<>> \/ \E i \in S : Through(rs[i], n)
  <2>1. path \in Seq(Nat)
    OBVIOUS
  <2> QED
    BY <2>1, LenProperties DEF Trie, NodesHold
<1>1. \A n \in t.nodes : f[n] = Search(f, t, path, n)
  BY <1>0, SearchUnfolds
<1>r. \A n \in t.nodes : OnPath(n, path) => Right(f[n], rs, S, n, path)
  BY SearchRight
<1> HIDE DEF f
<1>2. ASSUME NEW n \in t.nodes, OnPath(n, path),
             Len(n) < Len(path) =>
               \A x \in {path[Len(n) + 1], Wild} : Append(n, x) \in t.nodes => Append(n, x) \in Q
      PROVE  n \in Q
  <2> SUFFICES ASSUME f[n].found PROVE f[n].params = ParamsAfter(rs[f[n].route], path, Len(n))
    OBVIOUS
  <2> DEFINE p == rs[f[n].route]
  <2>0. n \in Seq(Nat) /\ Len(n) \in Nat /\ Len(n) <= Len(path)
    BY <1>0, <1>2, LenProperties DEF OnPath
  <2>a. p \in Seq(Segments) /\ p \in P /\ f[n].route \in S /\ Through(p, n)
    BY <1>2, <1>r DEF Right, Best
  <2>1. CASE Len(path) <= Len(n)
    <3>1. f[n] = AtEnd(t, n)
      BY <1>1, <2>1 DEF Search
    <3>2. f[n].params = <<>>
      <4>1. f[n] # NoMatch
        BY FoundIs
      <4>2. f[n] = Found(t.route[n], <<>>) \/ f[n] = Found(t.optCatchAll[n], <<>>)
        BY <3>1, <4>1 DEF AtEnd
      <4> QED
        BY <4>2, FoundFields
    <3> QED
      BY <1>0, <2>0, <2>1, <2>a, <3>2, ParamsSkip
  <2>2. CASE ~(Len(path) <= Len(n))
    <3> DEFINE text == path[Len(n) + 1]
               static == Append(n, text)
               wild == Append(n, Wild)
               viaStatic == IF static \in t.nodes THEN f[static] ELSE NoMatch
               viaWild == IF wild \in t.nodes THEN Bind(f[wild], t.wildName[n], text) ELSE NoMatch
               rest == SubSeq(path, Len(n) + 1, Len(path))
    <3>1. f[n] = IF viaStatic.found THEN viaStatic
                 ELSE IF viaWild.found THEN viaWild
                 ELSE CatchAll(t, n, rest)
      BY <1>1, <2>2 DEF Search
    <3>2. Len(n) < Len(path) /\ Len(n) + 1 \in 1..Len(path)
      BY <1>0, <2>0, <2>2
    <3>3. text \in Nat \ {0} /\ text # Wild /\ text \in Nat /\ Wild \in Nat
      BY <3>2, ElementOfSeq DEF Wild
    <3>4. /\ Len(static) = Len(n) + 1 /\ Len(wild) = Len(n) + 1
          /\ static \in Seq(Nat) /\ wild \in Seq(Nat)
          /\ OnPath(static, path) /\ OnPath(wild, path)
      <4>1. ASSUME NEW x \in {text, Wild}
            PROVE  Len(Append(n, x)) = Len(n) + 1 /\ Append(n, x) \in Seq(Nat) /\ OnPath(Append(n, x), path)
        <5>1. /\ Append(n, x) \in Seq(Nat)
              /\ Len(Append(n, x)) = Len(n) + 1 /\ Append(n, x)[Len(n) + 1] = x
              /\ \A k \in 1..Len(n) : Append(n, x)[k] = n[k]
          BY <2>0, <3>3, AppendProperties
        <5>2. \A k \in 1..(Len(n) + 1) : k \in 1..Len(n) \/ k = Len(n) + 1
          BY <2>0
        <5>3. Len(n) + 1 <= Len(path)
          BY <1>0, <2>0, <3>2
        <5> QED
          BY <1>2, <5>1, <5>2, <5>3 DEF OnPath
      <4> QED
        BY <4>1
    <3>5. CASE viaStatic.found
      <4>1. static \in t.nodes /\ f[n] = f[static] /\ f[static].found
        BY <3>1, <3>5, FoundIs
      <4>2. static \in Q
        BY <1>2, <3>2, <4>1
      <4>3. f[n].params = ParamsAfter(p, path, Len(n) + 1)
        BY <3>4, <4>1, <4>2
      <4>4. Through(p, static)
        BY <1>r, <3>4, <4>1 DEF Right, Best
      <4>5. KindAt(p, Len(n) + 1) = SegStatic
        BY <2>0, <2>a, <3>3, <4>4, ChildKind
      <4> QED
        BY <1>0, <2>0, <2>a, <4>3, <4>5, ParamsSkip
    <3>6. CASE ~viaStatic.found /\ viaWild.found
      <4> DEFINE m == f[wild]
                 name == t.wildName[n]
                 one == [x \in {name} |-> <<text>>]
                 ps == Extend(m.params, one)
      <4>1. wild \in t.nodes /\ f[n] = Bind(m, name, text)
        BY <3>1, <3>6, FoundIs
      <4>2. m.found
        <5>1. ~m.found => Bind(m, name, text) = m
          BY DEF Bind
        <5> QED
          BY <4>1, <5>1
      <4>3. Right(m, rs, S, wild, path)
        BY <1>r, <3>4, <4>1
      <4>4. m = Found(m.route, m.params) /\ Best(m.route, rs, S, wild, path)
        BY <4>2, <4>3 DEF Right
      <4>5. f[n] = [m EXCEPT !.params = ps]
        <5> HIDE DEF text, m, name
        <5> QED
          BY <4>1, <4>2 DEF Bind
      <4>6. f[n] = Found(m.route, ps)
        <5> HIDE DEF ps
        <5> QED
          BY <4>4, <4>5, FoundWith
      <4>7. f[n].route = m.route /\ f[n].params = ps
        <5> HIDE DEF ps, m
        <5> QED
          BY <4>6, FoundFields
      <4>8. wild \in Q
        BY <1>2, <3>2, <4>1
      <4>9. m.params = ParamsAfter(p, path, Len(n) + 1)
        <5>1. m.params = ParamsAfter(rs[m.route], path, Len(wild))
          BY <4>2, <4>8
        <5> QED
          BY <3>4, <4>7, <5>1
      <4>10. Through(p, wild)
        BY <4>4, <4>7 DEF Best
      <4>11. KindAt(p, Len(n) + 1) = SegDynamic
        BY <2>0, <2>a, <3>3, <4>10, ChildKind
      <4>12. name = p[Len(n) + 1].value
        <5>1. n \in DOMAIN t.wildName
          BY <2>0, <2>a, <4>10 DEF Trie, WildsHold
        <5>2. PICK i \in S : Through(rs[i], wild) /\ name = rs[i][Len(n) + 1].value
          BY <5>1 DEF Trie, WildsHold
        <5> QED
          BY <2>0, <2>a, <4>10, <5>2, NamesMeet
      <4>13. ParamsAfter(p, path, Len(n)) = Extend(ParamsAfter(p, path, Len(n) + 1), one)
        <5>1. one = Single(name, <<text>>)
          BY DEF Single
        <5>2. ParamsAfter(p, path, Len(n)) = Extend(ParamsAfter(p, path, Len(n) + 1), Single(name, <<text>>))
          <6> HIDE DEF name, p
          <6> QED
            BY <1>0, <2>0, <2>a, <3>2, <4>11, <4>12, ParamsWild
        <5> HIDE DEF one
        <5> QED
          BY <5>1, <5>2
      <4> QED
        BY <4>7, <4>9, <4>13
    <3>7. CASE ~viaStatic.found /\ ~viaWild.found
      <4>1. f[n] = CatchAll(t, n, rest)
        BY <3>1, <3>7
      <4>2. CASE n \in DOMAIN t.catchAll
        <5> DEFINE i == t.catchAll[n]
                   ps == [name \in {t.catchAllName[n]} |-> rest]
        <5>1. f[n] = Found(i, ps)
          BY <4>1, <4>2 DEF CatchAll
        <5>2. i \in TailsOf(rs, S, SegCatchAll) /\ NodeOf(rs[i]) = n
          BY <4>2, SlotGives DEF Trie
        <5>3. t.catchAllName[n] = Last(ParseSegments(rs[i])).value
          BY <4>2 DEF Trie, NamesHold
        <5>4. f[n].route = i /\ f[n].params = ps
          <6> HIDE DEF i, ps
          <6> QED
            BY <5>1, FoundFields
        <5>5. ~Ends(rs[i]) /\ rs[i] \in Seq(Segments)
          BY <5>2 DEF TailsOf
        <5>6. ParamsAfter(rs[i], path, Len(n)) = Single(Last(ParseSegments(rs[i])).value, rest)
          <6>1. Len(n) < Len(path) /\ n = NodeOf(rs[i]) /\ path \in Seq(Nat)
            BY <1>0, <3>2, <5>2
          <6> HIDE DEF i
          <6> QED
            BY <5>5, <6>1, ParamsRest
        <5> QED
          BY <5>3, <5>4, <5>6 DEF Single
      <4>3. CASE n \notin DOMAIN t.catchAll /\ n \in DOMAIN t.optCatchAll
        <5> DEFINE i == t.optCatchAll[n]
                   ps == [name \in {t.optCatchAllName[n]} |-> rest]
        <5>1. f[n] = Found(i, ps)
          BY <4>1, <4>3 DEF CatchAll
        <5>2. i \in TailsOf(rs, S, SegOptCatchAll) /\ NodeOf(rs[i]) = n
          BY <4>3, SlotGives DEF Trie
        <5>3. t.optCatchAllName[n] = Last(ParseSegments(rs[i])).value
          BY <4>3 DEF Trie, NamesHold
        <5>4. f[n].route = i /\ f[n].params = ps
          <6> HIDE DEF i, ps
          <6> QED
            BY <5>1, FoundFields
        <5>5. ~Ends(rs[i]) /\ rs[i] \in Seq(Segments)
          BY <5>2 DEF TailsOf
        <5>6. ParamsAfter(rs[i], path, Len(n)) = Single(Last(ParseSegments(rs[i])).value, rest)
          <6>1. Len(n) < Len(path) /\ n = NodeOf(rs[i]) /\ path \in Seq(Nat)
            BY <1>0, <3>2, <5>2
          <6> HIDE DEF i
          <6> QED
            BY <5>5, <6>1, ParamsRest
        <5> QED
          BY <5>3, <5>4, <5>6 DEF Single
      <4>4. n \in DOMAIN t.catchAll \/ n \in DOMAIN t.optCatchAll
        BY <4>1, FoundIs DEF CatchAll
      <4> QED
        BY <4>2, <4>3, <4>4
    <3> QED
      BY <3>5, <3>6, <3>7
  <2> QED
    BY <2>1, <2>2
<1>3. \A n \in t.nodes : OnPath(n, path) => n \in Q
  <2> HIDE DEF Q
  <2> QED
    BY <1>0, <1>2, SearchInductive
<1> QED
  BY <1>3 DEF f

-----------------------------------------------------------------------------
(* What a request is told follows from the web framework that was built     *)
(* once and from one table of the router's.                                 *)

Fields == {"at", "method", "path", "api", "answer"}

\* A request keeps what std's match gave it, and the table Resolve took.
RequestInv ==
    req.at # "idle" =>
       /\ DOMAIN req = Fields /\ req.at \in {"resolving", "matching", "answered"}
       /\ req.api = ApiMatch(fw, req.method, req.path)
       /\ req.at = "matching" => req.answer \in current
       /\ req.at = "answered" =>
            \/ req.answer = req.api
            \/ \E r \in current : req.answer = ResolveIn(r, r, req.path)

RoutingInv == router \in current /\ RequestInv

\* Whom std's match answers, in the terms of the sets it searches.
LEMMA ApiKinds ==
    ASSUME NEW f, NEW m, NEW path
    PROVE  /\ ApiMatch(f, m, path).kind \in {"api", "405", "nothing"}
           /\ ApiMatch(f, m, path).kind = "api"
                <=> OfMethod(f, StaticRoutes(f, path) \cup TableRoutes(f, path), m) # {}
           /\ ApiMatch(f, m, path).kind = "405" => ApiMatch(f, m, path).allow = AllowedMethods(f, path)
<1> DEFINE S == StaticRoutes(f, path)
           T == TableRoutes(f, path)
<1>0. \A i, params : Handler(i, params).kind = "api"
  BY DEF Handler
<1>1. OfMethod(f, S \cup T, m) = OfMethod(f, S, m) \cup OfMethod(f, T, m)
  BY DEF OfMethod
<1>2. CASE OfMethod(f, S, m) # {}
  <2>1. ApiMatch(f, m, path) = Handler(Min(OfMethod(f, S, m)), <<>>)
    BY <1>2 DEF ApiMatch
  <2> QED
    BY <1>0, <1>1, <1>2, <2>1
<1>3. CASE OfMethod(f, S, m) = {} /\ OfMethod(f, T, m) # {}
  <2>1. ApiMatch(f, m, path) = Handler(Min(OfMethod(f, T, m)), TableMatch(f.table, path).params)
    BY <1>3 DEF ApiMatch
  <2> QED
    BY <1>0, <1>1, <1>3, <2>1
<1>4. CASE OfMethod(f, S, m) = {} /\ OfMethod(f, T, m) = {}
  <2>1. \/ ApiMatch(f, m, path) = NotAllowed(AllowedMethods(f, path))
        \/ ApiMatch(f, m, path) = Nothing
    BY <1>4 DEF ApiMatch
  <2> QED
    BY <1>1, <1>4, <2>1 DEF NotAllowed, Nothing
<1> QED
  BY <1>2, <1>3, <1>4

\* The methods a 405 lists are those some route of the URL has.
LEMMA ListedMethods ==
    ASSUME NEW f, NEW m, NEW path
    PROVE  m \in AllowedMethods(f, path)
             <=> OfMethod(f, StaticRoutes(f, path) \cup TableRoutes(f, path), m) # {}
BY DEF AllowedMethods, OfMethod

LEMMA RequestFields ==
    ASSUME NEW a, NEW m, NEW p, NEW i, NEW s
    PROVE  LET q == [at |-> a, method |-> m, path |-> p, api |-> i, answer |-> s]
           IN  /\ DOMAIN q = Fields
               /\ q.at = a /\ q.method = m /\ q.path = p /\ q.api = i /\ q.answer = s
BY DEF Fields

LEMMA RequestUpdate ==
    ASSUME NEW q, DOMAIN q = Fields, NEW a, NEW s
    PROVE  LET e == [q EXCEPT !.at = a, !.answer = s]
           IN  /\ DOMAIN e = Fields
               /\ e.at = a /\ e.answer = s
               /\ e.method = q.method /\ e.path = q.path /\ e.api = q.api
BY DEF Fields

LEMMA RoutingInitially == ASSUME NEW apps, RoutingInit(apps) PROVE RoutingInv
BY DEF RoutingInit, RoutingInv, RequestInv, NoRequest

LEMMA RoutingStep == RoutingInv /\ [RoutingNext]_routingVars => RoutingInv'
<1> SUFFICES ASSUME RoutingInv, [RoutingNext]_routingVars PROVE RoutingInv'
  OBVIOUS
<1>0. router \in current /\ RequestInv
  BY DEF RoutingInv
<1>1. ASSUME NEW method \in Methods, NEW path \in Paths, Serve(method, path) PROVE RoutingInv'
  <2> DEFINE m == ApiMatch(fw, method, path)
  <2>1. PICK here \in {"resolving", "answered"} :
          req' = [at |-> here, method |-> method, path |-> path, api |-> m, answer |-> m]
    BY <1>1 DEF Serve
  <2>2. fw' = fw /\ router' = router /\ current' = {router}
    BY <1>1 DEF Serve
  <2> HIDE DEF m
  <2>3. /\ DOMAIN req' = Fields /\ req'.at = here /\ req'.method = method /\ req'.path = path
        /\ req'.api = m /\ req'.answer = m
    BY <2>1, RequestFields
  <2> QED
    BY <2>2, <2>3 DEF RoutingInv, RequestInv, m
<1>2. CASE Snapshot
  <2>1. /\ req.at = "resolving" /\ req' = [req EXCEPT !.at = "matching", !.answer = router]
        /\ UNCHANGED <<fw, router, scans, current>>
    BY <1>2 DEF Snapshot
  <2>2. DOMAIN req = Fields /\ req.api = ApiMatch(fw, req.method, req.path)
    BY <1>0, <2>1 DEF RequestInv
  <2>3. /\ DOMAIN req' = Fields /\ req'.at = "matching" /\ req'.answer = router
        /\ req'.method = req.method /\ req'.path = req.path /\ req'.api = req.api
    BY <2>1, <2>2, RequestUpdate
  <2> QED
    BY <1>0, <2>1, <2>2, <2>3 DEF RoutingInv, RequestInv
<1>3. CASE Resolve
  <2> DEFINE page == ResolveIn(req.answer, req.answer, req.path)
             said == IF page = NoPage /\ req.api.kind = "api" THEN req.api ELSE page
  <2>1. /\ req.at = "matching" /\ req' = [req EXCEPT !.at = "answered", !.answer = said]
        /\ UNCHANGED <<fw, router, scans, current>>
    BY <1>3 DEF Resolve
  <2>2. /\ DOMAIN req = Fields /\ req.api = ApiMatch(fw, req.method, req.path)
        /\ req.answer \in current
    BY <1>0, <2>1 DEF RequestInv
  <2>3. said = req.api \/ said = ResolveIn(req.answer, req.answer, req.path)
    OBVIOUS
  <2> HIDE DEF said
  <2>4. /\ DOMAIN req' = Fields /\ req'.at = "answered" /\ req'.answer = said
        /\ req'.method = req.method /\ req'.path = req.path /\ req'.api = req.api
    BY <2>1, <2>2, RequestUpdate
  <2> QED
    BY <1>0, <2>1, <2>2, <2>3, <2>4 DEF RoutingInv, RequestInv
<1>4. CASE Done
  BY <1>0, <1>4 DEF Done, NoRequest, RoutingInv, RequestInv
<1>5. ASSUME NEW tree \in Edited, ScanRoutes(tree) PROVE RoutingInv'
  BY <1>0, <1>5 DEF ScanRoutes, RoutingInv, RequestInv
<1>6. CASE UNCHANGED routingVars
  BY <1>0, <1>6 DEF routingVars, RoutingInv, RequestInv
<1> QED
  BY <1>1, <1>2, <1>3, <1>4, <1>5, <1>6 DEF RoutingNext

-----------------------------------------------------------------------------
(* A behaviour of Stack shows one layer; the others rest, and so every      *)
(* layer keeps its own specification.                                       *)

\* A behaviour of Stack is, of each layer that remembers something, a behaviour of
\* that layer alone: what is proved of the limiter, the sessions and the bridge
\* holds of them in Stack.
THEOREM LayersKeepTheirs == Spec => LimitSpec /\ SessionSpec /\ FlashSpec /\ BridgeSpec
<1>1. Init => LimitInit /\ SessionInit /\ FlashInit /\ BridgeInit
  BY DEF Init
<1>2. [Next]_vars => /\ [LimitNext]_limitVars /\ [SessionNext]_sessionVars
                     /\ [FlashNext]_flashVars /\ [BridgeNext]_bridgeVars
  <2> SUFFICES ASSUME [Next]_vars
               PROVE  /\ [LimitNext]_limitVars /\ [SessionNext]_sessionVars
                      /\ [FlashNext]_flashVars /\ [BridgeNext]_bridgeVars
    OBVIOUS
  <2>1. CASE UNCHANGED vars
    BY <2>1 DEF vars
  <2>2. CASE Next
    BY <2>2 DEF Next
  <2> QED
    BY <2>1, <2>2
<1> QED
  BY <1>1, <1>2, PTL DEF Spec, LimitSpec, SessionSpec, FlashSpec, BridgeSpec

LEMMA RoutingAlways == Spec => []RoutingInv
<1>1. Init => RoutingInv
  BY RoutingInitially DEF Init
<1>2. [Next]_vars => [RoutingNext]_routingVars
  <2>1. CASE UNCHANGED vars
    BY <2>1 DEF vars
  <2>2. CASE Next
    BY <2>2 DEF Next
  <2> QED
    BY <2>1, <2>2
<1> QED
  BY <1>1, <1>2, RoutingStep, PTL DEF Spec

\* std's match lists in the Allow header of a 405 exactly the methods it would answer
\* for the same URL, whatever the routes and whatever the search finds of them.
THEOREM AllowHeaderIsExact == Spec => []AllowIsExact
<1>1. RoutingInv => AllowIsExact
  <2> SUFFICES ASSUME RoutingInv, req.at # "idle", req.api.kind = "405", NEW m \in Methods
               PROVE  m \in req.api.allow <=> ApiMatch(fw, m, req.path).kind = "api"
    BY DEF AllowIsExact
  <2>1. req.api = ApiMatch(fw, req.method, req.path)
    BY DEF RoutingInv, RequestInv
  <2>2. ApiMatch(fw, req.method, req.path).kind = "405"
    BY <2>1
  <2>3. ApiMatch(fw, req.method, req.path).allow = AllowedMethods(fw, req.path)
    BY <2>2, ApiKinds
  <2>4. m \in AllowedMethods(fw, req.path)
          <=> OfMethod(fw, StaticRoutes(fw, req.path) \cup TableRoutes(fw, req.path), m) # {}
    BY ListedMethods
  <2>5. ApiMatch(fw, m, req.path).kind = "api"
          <=> OfMethod(fw, StaticRoutes(fw, req.path) \cup TableRoutes(fw, req.path), m) # {}
    BY ApiKinds
  <2> QED
    BY <2>1, <2>3, <2>4, <2>5
<1> QED
  BY <1>1, RoutingAlways, PTL

\* Resolve answers with a page, or with none, as one scan of the page tree has it
\* that was the router's during the request, however many scans replace its tables.
THEOREM PageOfOneScan == Spec => []OneScan
<1>1. RoutingInv => OneScan
  <2> SUFFICES ASSUME RoutingInv, req.at = "answered", req.answer.kind \in {"page", "nopage"}
               PROVE  \E r \in current : req.answer = ResolveIn(r, r, req.path)
    BY DEF OneScan
  <2>1. req.api = ApiMatch(fw, req.method, req.path)
    BY DEF RoutingInv, RequestInv
  <2>2. ApiMatch(fw, req.method, req.path).kind \in {"api", "405", "nothing"}
    BY ApiKinds
  <2> QED
    BY <2>1, <2>2 DEF RoutingInv, RequestInv
<1> QED
  BY <1>1, RoutingAlways, PTL

-----------------------------------------------------------------------------
(* What the table of a set of routes answers.                               *)

\* Whatever routes S are in the table, Match finds one that fits the path and that no
\* other that fits beats, with the parameters its own pattern names if the patterns
\* agree on the names, and finds nothing only if none fits: going back from a text or
\* a wild child loses no route and leaves nothing behind.
THEOREM TableRight ==
    ASSUME NEW rs, NEW l \in Nat, NEW S, S \subseteq 0..l, \A i \in S : rs[i] \in Seq(Segments),
           NEW path \in Seq(Nat \ {0}), NEW m, m = TableMatch(NewRouteTable(rs, S), path)
    PROVE  /\ m.found \in BOOLEAN
           /\ m.found => /\ m.route \in S /\ Fits(rs[m.route], path)
                         /\ \A j \in S : Fits(rs[j], path) => ~Beats(rs[j], rs[m.route], path)
           /\ ~m.found => \A j \in S : ~Fits(rs[j], path)
           /\ \A P : NamesAgree(P) /\ (\A j \in S : rs[j] \in P) /\ m.found =>
                 m.params = ParamsOf(rs[m.route], path)
<1> DEFINE t == NewRouteTable(rs, S)
<1>1. Trie(t, rs, S)
  BY TableHolds
<1>2. m = MatchNode(t, path)[<<>>]
  BY DEF TableMatch
<1> HIDE DEF t
<1>3. <<>> \in Seq(Nat) /\ Len(<<>>) = 0 /\ Len(path) \in Nat
  BY LenProperties
<1>4. <<>> \in t.nodes
  BY <1>1, <1>3 DEF Trie, NodesHold
<1>5. OnPath(<<>>, path)
  BY <1>3 DEF OnPath
<1>6. \A j \in S : Through(rs[j], <<>>)
  <2> SUFFICES ASSUME NEW j \in S PROVE Through(rs[j], <<>>)
    OBVIOUS
  <2>1. rs[j] \in Seq(Segments)
    OBVIOUS
  <2>2. Len(NodeOf(rs[j])) \in Nat
    BY <2>1, NodeShape
  <2> QED
    BY <1>3, <2>2 DEF Through
<1>7. Right(m, rs, S, <<>>, path)
  BY <1>1, <1>2, <1>4, <1>5, SearchRight
<1>8. ASSUME NEW P, NamesAgree(P), \A j \in S : rs[j] \in P, m.found
      PROVE  m.params = ParamsOf(rs[m.route], path)
  <2>1. m.params = ParamsAfter(rs[m.route], path, 0)
    <3>1. \A n \in t.nodes : OnPath(n, path) /\ MatchNode(t, path)[n].found =>
             MatchNode(t, path)[n].params
               = ParamsAfter(rs[MatchNode(t, path)[n].route], path, Len(n))
      BY <1>1, <1>8, SearchParams
    <3> QED
      BY <1>2, <1>3, <1>4, <1>5, <1>8, <3>1
  <2>2. rs[m.route] \in Seq(Segments)
    BY <1>7, <1>8 DEF Right, Best
  <2> QED
    BY <2>1, <2>2, AllParams
<1> QED
  BY <1>6, <1>7, <1>8 DEF Right, Best

-----------------------------------------------------------------------------
(* Static routes.                                                           *)

\* A static pattern fits the path of its texts only, gives no parameter, and
\* nothing beats it.
LEMMA StaticIs ==
    ASSUME NEW p \in Seq(Segments), IsStatic(p), NEW path \in Seq(Nat \ {0})
    PROVE  /\ Fits(p, path) <=> Texts(p) = path
           /\ ParamsOf(p, path) = <<>>
           /\ \A q \in Seq(Segments) : ~Beats(q, p, path)
<1>0. /\ Len(p) \in Nat /\ DOMAIN p = 1..Len(p) /\ Len(path) \in Nat /\ DOMAIN path = 1..Len(path)
      /\ \A k \in 1..Len(p) : p[k].kind = SegStatic /\ p[k].value \in Nat \ {0}
  <2>1. Len(p) \in Nat /\ DOMAIN p = 1..Len(p)
    BY PatternFields
  <2>2. Len(path) \in Nat /\ DOMAIN path = 1..Len(path)
    BY LenProperties
  <2> QED
    BY <2>1, <2>2, SegmentFields DEF IsStatic
<1>1. ParseSegments(p) = p
  BY <1>0 DEF ParseSegments, IsCatchAll, SegStatic, SegCatchAll
<1>2. Ends(p) /\ Len(NodeOf(p)) = Len(p) /\ \A k \in 1..Len(p) : NodeOf(p)[k] = p[k].value
  <2>1. Ends(p)
    <3> SUFFICES ASSUME ~Ends(p) PROVE FALSE
      OBVIOUS
    <3>1. Len(p) = Len(Stem(p)) + 1 /\ p[Len(p)].kind \in {SegCatchAll, SegOptCatchAll}
      BY <1>1, StemShape
    <3>2. Len(Stem(p)) \in Nat
      BY StemShape
    <3>3. Len(p) \in 1..Len(p)
      BY <1>0, <3>1, <3>2
    <3> QED
      BY <1>0, <3>1, <3>3 DEF SegStatic, SegCatchAll, SegOptCatchAll
  <2>2. Len(NodeOf(p)) = Len(p)
    BY <1>1, <2>1, StemShape, NodeShape
  <2>3. \A k \in 1..Len(p) : NodeOf(p)[k] = p[k].value
    BY <1>0, <2>2, NodeShape DEF SegStatic, SegDynamic
  <2> QED
    BY <2>1, <2>2, <2>3
<1>3. Fits(p, path) <=> Len(path) = Len(p) /\ \A k \in 1..Len(p) : path[k] = p[k].value
  <2>1. Fits(p, path) <=> /\ Len(p) <= Len(path)
                          /\ \A k \in 1..Len(p) : NodeOf(p)[k] = Wild \/ NodeOf(p)[k] = path[k]
                          /\ Len(path) = Len(p)
    BY <1>2, FitsIs
  <2>2. \A k \in 1..Len(p) : NodeOf(p)[k] = Wild \/ NodeOf(p)[k] = path[k] <=> path[k] = p[k].value
    BY <1>0, <1>2 DEF Wild
  <2>3. Len(path) = Len(p) => Len(p) <= Len(path)
    BY <1>0
  <2> QED
    BY <2>1, <2>2, <2>3
<1>4. Texts(p) = path <=> Len(path) = Len(p) /\ \A k \in 1..Len(p) : path[k] = p[k].value
  <2>1. Texts(p) = [k \in 1..Len(p) |-> p[k].value]
    BY <1>0 DEF Texts
  <2>2. path = [k \in 1..Len(path) |-> path[k]]
    BY <1>0
  <2>3. Len(path) = Len(p) /\ (\A k \in 1..Len(p) : path[k] = p[k].value) => Texts(p) = path
    BY <2>1, <2>2
  <2>4. ASSUME Texts(p) = path
        PROVE  Len(path) = Len(p) /\ \A k \in 1..Len(p) : path[k] = p[k].value
    <3>1. 1..Len(path) = 1..Len(p)
      BY <1>0, <2>1, <2>4
    <3>2. Len(path) = Len(p)
      <4>1. Len(p) \in 1..Len(p) \/ Len(p) = 0
        BY <1>0
      <4>2. Len(path) \in 1..Len(path) \/ Len(path) = 0
        BY <1>0
      <4>3. Len(p) \in Nat /\ Len(path) \in Nat
        BY <1>0
      <4> QED
        BY <3>1, <4>1, <4>2, <4>3
    <3> QED
      BY <2>1, <2>4, <3>2
  <2> QED
    BY <2>3, <2>4
<1>5. ParamsOf(p, path) = <<>>
  <2>1. ParamsFrom(p, path, 0) = {}
    BY <1>0, <1>1 DEF ParamsFrom
  <2>2. ParamsAfter(p, path, 0) = <<>>
    BY <2>1 DEF ParamsAfter
  <2> QED
    BY <2>2, AllParams
<1>6. ASSUME NEW q \in Seq(Segments) PROVE ~Beats(q, p, path)
  <2> DEFINE D == {k \in 1..Len(path) + 1 : KindAt(q, k) # KindAt(p, k)}
  <2> SUFFICES ASSUME D # {} PROVE ~(KindAt(q, Min(D)) < KindAt(p, Min(D)))
    BY DEF Beats
  <2>1. D \subseteq Nat
    BY <1>0
  <2>2. Min(D) \in D
    BY <2>1, MinIs
  <2>3. Min(D) \in Nat \ {0}
    BY <1>0, <2>2
  <2> HIDE DEF D
  <2>4. KindAt(p, Min(D)) = SegStatic
    BY <1>0, <1>1 DEF KindAt
  <2>5. KindAt(q, Min(D)) \in 0..3
    BY <2>3, KindType
  <2> QED
    BY <2>4, <2>5 DEF SegStatic
<1> QED
  BY <1>3, <1>4, <1>5, <1>6

-----------------------------------------------------------------------------
(* std's match.                                                             *)

Registered == [method : Methods, pattern : Seq(Segments)]

\* Of the routes of one pattern, the first enters the table.
LEMMA TableOfFirsts ==
    ASSUME NEW l \in Seq(Registered), NEW path \in Seq(Nat \ {0}),
           NEW m, m = TableMatch(BuildFramework(l).table, path)
    PROVE  /\ m.found => /\ m.route \in DOMAIN l /\ ~IsStatic(l[m.route].pattern)
                         /\ Fits(l[m.route].pattern, path)
                         /\ \A i \in DOMAIN l : ~IsStatic(l[i].pattern) /\ Fits(l[i].pattern, path) =>
                               ~Beats(l[i].pattern, l[m.route].pattern, path)
                         /\ NamesAgree(Range(PatternsOf(l))) =>
                               m.params = ParamsOf(l[m.route].pattern, path)
           /\ ~m.found => \A i \in DOMAIN l : ~IsStatic(l[i].pattern) => ~Fits(l[i].pattern, path)
<1> DEFINE rs == PatternsOf(l)
           dynamic == {i \in DOMAIN l : ~IsStatic(l[i].pattern)}
           S == {i \in dynamic : \A j \in dynamic : l[j].pattern = l[i].pattern => i <= j}
<1>0. Len(l) \in Nat /\ DOMAIN l = 1..Len(l) /\ \A i \in 1..Len(l) : l[i] \in Registered
  BY ElementOfSeq, LenProperties
<1>1. /\ S \subseteq DOMAIN l /\ \A i \in S : ~IsStatic(l[i].pattern)
      /\ DOMAIN rs = DOMAIN l
      /\ \A i \in DOMAIN l : rs[i] = l[i].pattern /\ rs[i] \in Seq(Segments)
  BY <1>0 DEF PatternsOf, Registered
<1>2. S \subseteq 0..Len(l) /\ \A i \in S : rs[i] \in Seq(Segments)
  <2>1. DOMAIN l \subseteq 0..Len(l)
    BY <1>0
  <2> QED
    BY <1>1, <2>1
<1>3. m = TableMatch(NewRouteTable(rs, S), path)
  BY DEF BuildFramework
<1>4. \A i \in DOMAIN l : ~IsStatic(l[i].pattern) => \E j \in S : l[j].pattern = l[i].pattern
  <2> SUFFICES ASSUME NEW i \in DOMAIN l, ~IsStatic(l[i].pattern)
               PROVE  \E j \in S : l[j].pattern = l[i].pattern
    OBVIOUS
  <2> DEFINE E == {j \in dynamic : l[j].pattern = l[i].pattern}
  <2>1. E \subseteq Nat /\ i \in E
    BY <1>0
  <2> HIDE DEF E
  <2>2. PICK j \in E : \A k \in E : j <= k
    BY <2>1, LeastNatural
  <2>3. j \in S
    BY <2>2 DEF E
  <2> QED
    BY <2>2, <2>3 DEF E
<1> HIDE DEF S, rs
<1>5. /\ m.found \in BOOLEAN
      /\ m.found => /\ m.route \in S /\ Fits(rs[m.route], path)
                    /\ \A j \in S : Fits(rs[j], path) => ~Beats(rs[j], rs[m.route], path)
      /\ ~m.found => \A j \in S : ~Fits(rs[j], path)
      /\ \A P : NamesAgree(P) /\ (\A j \in S : rs[j] \in P) /\ m.found =>
            m.params = ParamsOf(rs[m.route], path)
  BY <1>0, <1>2, <1>3, TableRight
<1>6. \A j \in S : rs[j] \in Range(rs)
  BY <1>1 DEF Range
<1>7. ASSUME m.found
      PROVE  /\ m.route \in DOMAIN l /\ ~IsStatic(l[m.route].pattern)
             /\ Fits(l[m.route].pattern, path)
             /\ \A i \in DOMAIN l : ~IsStatic(l[i].pattern) /\ Fits(l[i].pattern, path) =>
                   ~Beats(l[i].pattern, l[m.route].pattern, path)
             /\ NamesAgree(Range(PatternsOf(l))) => m.params = ParamsOf(l[m.route].pattern, path)
  <2>1. m.route \in S /\ m.route \in DOMAIN l /\ rs[m.route] = l[m.route].pattern
    BY <1>1, <1>5, <1>7
  <2>2. Fits(rs[m.route], path) /\ \A j \in S : Fits(rs[j], path) => ~Beats(rs[j], rs[m.route], path)
    BY <1>5, <1>7
  <2>3. NamesAgree(Range(rs)) => m.params = ParamsOf(rs[m.route], path)
    BY <1>5, <1>6, <1>7
  <2>4. \A i \in DOMAIN l : ~IsStatic(l[i].pattern) /\ Fits(l[i].pattern, path) =>
           ~Beats(l[i].pattern, l[m.route].pattern, path)
    <3> SUFFICES ASSUME NEW i \in DOMAIN l, ~IsStatic(l[i].pattern), Fits(l[i].pattern, path)
                 PROVE  ~Beats(l[i].pattern, l[m.route].pattern, path)
      OBVIOUS
    <3>1. PICK j \in S : l[j].pattern = l[i].pattern
      BY <1>4
    <3>2. j \in DOMAIN l /\ rs[j] = l[i].pattern
      BY <1>1, <3>1
    <3> QED
      BY <2>1, <2>2, <3>2
  <2> QED
    BY <1>1, <2>1, <2>2, <2>3, <2>4 DEF rs
<1>8. ASSUME ~m.found
      PROVE  \A i \in DOMAIN l : ~IsStatic(l[i].pattern) => ~Fits(l[i].pattern, path)
  <2> SUFFICES ASSUME NEW i \in DOMAIN l, ~IsStatic(l[i].pattern) PROVE ~Fits(l[i].pattern, path)
    OBVIOUS
  <2>1. PICK j \in S : l[j].pattern = l[i].pattern
    BY <1>4
  <2>2. j \in DOMAIN l /\ rs[j] = l[i].pattern
    BY <1>1, <2>1
  <2> QED
    BY <1>5, <1>8, <2>2
<1> QED
  BY <1>7, <1>8

\* std's match runs the most specific route of the method, with its own parameters.
LEMMA FrameworkRight ==
    ASSUME NEW l \in Seq(Registered), NEW path \in Seq(Nat \ {0}), NEW method,
           NEW f, f = BuildFramework(l), NEW a, a = ApiMatch(f, method, path)
    PROVE  /\ RightRoute(f, a, method, path)
           /\ a.kind = "api" /\ NamesAgree(Range(PatternsOf(f.routes))) =>
                a.params = ParamsOf(f.routes[a.route].pattern, path)
<1> DEFINE m == TableMatch(f.table, path)
           pattern(i) == l[i].pattern
           fitting == {i \in DOMAIN l : Fits(pattern(i), path)}
           St == StaticRoutes(f, path)
           Tb == TableRoutes(f, path)
<1>0. /\ f.routes = l /\ Len(l) \in Nat /\ DOMAIN l = 1..Len(l)
      /\ \A i \in DOMAIN l : pattern(i) \in Seq(Segments)
  <2>1. Len(l) \in Nat /\ DOMAIN l = 1..Len(l) /\ \A i \in 1..Len(l) : l[i] \in Registered
    BY ElementOfSeq, LenProperties
  <2> QED
    BY <2>1 DEF Registered, BuildFramework
<1>1. /\ m.found => /\ m.route \in DOMAIN l /\ ~IsStatic(pattern(m.route))
                    /\ Fits(pattern(m.route), path)
                    /\ \A i \in DOMAIN l : ~IsStatic(pattern(i)) /\ Fits(pattern(i), path) =>
                          ~Beats(pattern(i), pattern(m.route), path)
                    /\ NamesAgree(Range(PatternsOf(l))) =>
                          m.params = ParamsOf(pattern(m.route), path)
      /\ ~m.found => \A i \in DOMAIN l : ~IsStatic(pattern(i)) => ~Fits(pattern(i), path)
  BY TableOfFirsts
<1>2. St = {i \in fitting : IsStatic(pattern(i))}
  <2>1. \A i \in DOMAIN l : IsStatic(pattern(i)) => (Fits(pattern(i), path) <=> Texts(pattern(i)) = path)
    BY <1>0, StaticIs
  <2> QED
    BY <1>0, <2>1 DEF StaticRoutes
<1>3. Tb = IF m.found THEN {j \in DOMAIN l : pattern(j) = pattern(m.route)} ELSE {}
  BY <1>0 DEF TableRoutes
<1> HIDE DEF m, St, Tb
<1>4. St \subseteq fitting /\ Tb \subseteq fitting /\ (Tb = {} => ~m.found) /\ fitting \subseteq Nat
  <2>1. m.found => m.route \in Tb
    BY <1>1, <1>3
  <2>2. \A i \in Tb : i \in DOMAIN l /\ m.found /\ pattern(i) = pattern(m.route)
    BY <1>3
  <2>3. Tb \subseteq fitting
    BY <1>1, <2>2
  <2> QED
    BY <1>0, <1>2, <2>1, <2>3
<1>5. /\ OfMethod(f, St, method) = {i \in St : l[i].method = method}
      /\ OfMethod(f, Tb, method) = {i \in Tb : l[i].method = method}
      /\ OfMethod(f, fitting, method) = {i \in fitting : l[i].method = method}
  BY <1>0 DEF OfMethod
<1>6. a = IF OfMethod(f, St, method) # {} THEN Handler(Min(OfMethod(f, St, method)), <<>>)
          ELSE IF OfMethod(f, Tb, method) # {} THEN Handler(Min(OfMethod(f, Tb, method)), m.params)
          ELSE IF St \cup Tb # {} THEN NotAllowed(AllowedMethods(f, path))
          ELSE Nothing
  BY DEF ApiMatch, m, St, Tb
<1>7. \A i, ps : Handler(i, ps).kind = "api" /\ Handler(i, ps).route = i /\ Handler(i, ps).params = ps
  BY DEF Handler
<1>8. RightRoute(f, a, method, path)
        <=> /\ a.kind = "nothing" => fitting = {}
            /\ a.kind = "api" =>
                 /\ a.route \in OfMethod(f, fitting, method)
                 /\ ~\E i \in OfMethod(f, fitting, method) : Beats(pattern(i), pattern(a.route), path)
  BY <1>0 DEF RightRoute
<1> HIDE DEF fitting
<1>9. CASE OfMethod(f, St, method) # {}
  <2> DEFINE i == Min(OfMethod(f, St, method))
  <2>1. i \in OfMethod(f, St, method)
    <3>1. OfMethod(f, St, method) \subseteq Nat
      BY <1>4, <1>5
    <3> QED
      BY <1>9, <3>1, MinIs
  <2>2. a.kind = "api" /\ a.route = i /\ a.params = <<>>
    BY <1>6, <1>7, <1>9
  <2> HIDE DEF i
  <2>3. i \in fitting /\ i \in OfMethod(f, fitting, method) /\ IsStatic(pattern(i)) /\ i \in DOMAIN l
    BY <1>2, <1>4, <1>5, <2>1 DEF fitting
  <2>4. \A j \in DOMAIN l : ~Beats(pattern(j), pattern(i), path)
    BY <1>0, <2>3, StaticIs
  <2>5. a.params = ParamsOf(pattern(i), path)
    BY <1>0, <2>2, <2>3, StaticIs
  <2>6. \A j \in OfMethod(f, fitting, method) : j \in DOMAIN l
    BY <1>5 DEF fitting
  <2> QED
    BY <1>0, <1>8, <2>2, <2>3, <2>4, <2>5, <2>6
<1>10. CASE OfMethod(f, St, method) = {} /\ OfMethod(f, Tb, method) # {}
  <2> DEFINE i == Min(OfMethod(f, Tb, method))
  <2>1. i \in OfMethod(f, Tb, method)
    <3>1. OfMethod(f, Tb, method) \subseteq Nat
      BY <1>4, <1>5
    <3> QED
      BY <1>10, <3>1, MinIs
  <2>2. a.kind = "api" /\ a.route = i /\ a.params = m.params
    BY <1>6, <1>7, <1>10
  <2> HIDE DEF i
  <2>3. i \in OfMethod(f, fitting, method) /\ i \in DOMAIN l /\ m.found /\ pattern(i) = pattern(m.route)
    BY <1>3, <1>4, <1>5, <2>1
  <2>4. ASSUME NEW j \in OfMethod(f, fitting, method) PROVE ~Beats(pattern(j), pattern(i), path)
    <3>1. j \in DOMAIN l /\ Fits(pattern(j), path) /\ ~IsStatic(pattern(j))
      BY <1>2, <1>5, <1>10, <2>4 DEF fitting
    <3> QED
      BY <1>1, <2>3, <3>1
  <2>5. NamesAgree(Range(PatternsOf(l))) => a.params = ParamsOf(pattern(i), path)
    BY <1>1, <2>2, <2>3
  <2> QED
    BY <1>0, <1>8, <2>2, <2>3, <2>4, <2>5
<1>11. CASE OfMethod(f, St, method) = {} /\ OfMethod(f, Tb, method) = {} /\ St \cup Tb # {}
  <2>1. a.kind = "405"
    BY <1>6, <1>11 DEF NotAllowed
  <2> QED
    BY <1>8, <2>1
<1>12. CASE OfMethod(f, St, method) = {} /\ OfMethod(f, Tb, method) = {} /\ St \cup Tb = {}
  <2>1. a.kind = "nothing"
    BY <1>6, <1>12 DEF Nothing
  <2>2. fitting = {}
    <3> SUFFICES ASSUME NEW i \in fitting PROVE FALSE
      OBVIOUS
    <3>1. i \in DOMAIN l /\ Fits(pattern(i), path) /\ ~IsStatic(pattern(i))
      BY <1>2, <1>12 DEF fitting
    <3>2. ~m.found
      BY <1>4, <1>12
    <3> QED
      BY <1>1, <3>1, <3>2
  <2> QED
    BY <1>8, <2>1, <2>2
<1> QED
  BY <1>9, <1>10, <1>11, <1>12

-----------------------------------------------------------------------------
(* The pages of a scan.                                                     *)

\* The directories on the way to a page spell a pattern.
LEMMA PatternType == ASSUME NEW dir \in Seq(Dirs) PROVE RoutePattern(dir) \in Seq(Segments)
<1> DEFINE V == Seq(Segments)
           S == DOMAIN dir
           Seg(d) == [kind |-> CASE d.kind = "text" -> SegStatic
                                 [] d.kind = "dynamic" -> SegDynamic
                                 [] d.kind = "catchAll" -> SegCatchAll
                                 [] d.kind = "optCatchAll" -> SegOptCatchAll,
                      value |-> d.value]
           Named(segs, d) == IF d.kind \in {"group", "index"} THEN segs ELSE Append(segs, Seg(d))
           Body(f, T) == IF T = {} THEN <<>> ELSE Named(f[T \ {Max(T)}], dir[Max(T)])
           UpTo(m) == {T \in SUBSET S : Cardinality(T) <= m}
           A == {m \in Nat : \E f : f = [T \in UpTo(m) |-> Body(f, T)]}
<1>0. Len(dir) \in Nat /\ S = 1..Len(dir) /\ \A k \in S : dir[k] \in Dirs
  BY ElementOfSeq, LenProperties
<1>a. \A T \in SUBSET S : IsFiniteSet(T) /\ Cardinality(T) \in Nat
  <2>1. IsFiniteSet(S)
    BY <1>0, FS_Interval
  <2> QED
    BY <2>1, FS_Subset, FS_CardinalityType
<1>b. \A T \in SUBSET S : T # {} =>
         /\ Max(T) \in T /\ Max(T) \in S
         /\ Cardinality(T \ {Max(T)}) = Cardinality(T) - 1
  <2> SUFFICES ASSUME NEW T \in SUBSET S, T # {}
               PROVE  Max(T) \in T /\ Max(T) \in S /\ Cardinality(T \ {Max(T)}) = Cardinality(T) - 1
    OBVIOUS
  <2>1. T \subseteq 0..Len(dir)
    BY <1>0
  <2>2. Max(T) \in T
    BY <1>0, <2>1, MaxIs
  <2> QED
    BY <1>a, <2>2, FS_RemoveElement
<1>c. ASSUME NEW segs \in V, NEW d \in Dirs PROVE Named(segs, d) \in V
  <2>1. d.kind \in {"group", "index", "text", "dynamic", "catchAll", "optCatchAll"} /\ d.value \in Nat \ {0}
    BY DEF Dirs
  <2>2. d.kind \notin {"group", "index"} => Seg(d) \in Segments
    BY <2>1 DEF Segments, SegStatic, SegDynamic, SegCatchAll, SegOptCatchAll
  <2> HIDE DEF Seg
  <2> QED
    BY <2>2, AppendProperties
<1>d. <<>> \in V
  OBVIOUS
<1> HIDE DEF Named, V
<1>2. 0 \in A
  <2> DEFINE f == [T \in UpTo(0) |-> <<>>]
  <2>1. \A T \in UpTo(0) : T = {}
    BY <1>a, FS_EmptySet
  <2>2. f = [T \in UpTo(0) |-> Body(f, T)]
    BY <2>1
  <2> QED
    BY <2>2
<1>3. \A m \in A : m + 1 \in A
  <2> SUFFICES ASSUME NEW m \in A PROVE m + 1 \in A
    OBVIOUS
  <2>0. m \in Nat /\ m + 1 \in Nat
    OBVIOUS
  <2>1. PICK f : f = [T \in UpTo(m) |-> Body(f, T)]
    OBVIOUS
  <2> DEFINE g == [T \in UpTo(m + 1) |-> Body(f, T)]
  <2>2. \A T \in UpTo(m) : T \in UpTo(m + 1) /\ g[T] = f[T]
    <3> SUFFICES ASSUME NEW T \in UpTo(m) PROVE T \in UpTo(m + 1) /\ g[T] = f[T]
      OBVIOUS
    <3>1. T \in SUBSET S /\ Cardinality(T) <= m /\ Cardinality(T) \in Nat
      BY <1>a
    <3>2. T \in UpTo(m + 1)
      BY <2>0, <3>1
    <3>3. f[T] = Body(f, T)
      BY <2>1
    <3> HIDE DEF UpTo, Body
    <3> QED
      BY <3>2, <3>3
  <2>3. \A T \in UpTo(m + 1) : Body(f, T) = Body(g, T)
    <3> SUFFICES ASSUME NEW T \in UpTo(m + 1), T # {} PROVE Body(f, T) = Body(g, T)
      OBVIOUS
    <3> DEFINE rest == T \ {Max(T)}
    <3>1. T \in SUBSET S /\ Cardinality(T) <= m + 1 /\ Cardinality(T) \in Nat
      BY <1>a
    <3>2. rest \in SUBSET S /\ Cardinality(rest) = Cardinality(T) - 1
      BY <1>b, <3>1
    <3>3. rest \in UpTo(m)
      BY <2>0, <3>1, <3>2
    <3>4. g[rest] = f[rest]
      BY <2>2, <3>3
    <3> HIDE DEF g
    <3> QED
      BY <3>4
  <2>4. g = [T \in UpTo(m + 1) |-> Body(g, T)]
    <3> HIDE DEF Body, UpTo
    <3> QED
      BY <2>3
  <2> HIDE DEF g
  <2> QED
    BY <2>0, <2>4
<1>4. Cardinality(S) \in A
  <2>1. A = Nat
    <3>1. A \in SUBSET Nat
      OBVIOUS
    <3> HIDE DEF A
    <3> QED
      BY <1>2, <1>3, <3>1, NatInductive
  <2> QED
    BY <1>a, <2>1
<1>5. PICK f : f = [T \in UpTo(Cardinality(S)) |-> Body(f, T)]
  BY <1>4
<1>6. UpTo(Cardinality(S)) = SUBSET S
  <2>1. IsFiniteSet(S)
    BY <1>a
  <2> QED
    BY <1>a, <2>1, FS_Subset
<1>7. \E table : table = [T \in SUBSET S |-> Body(table, T)]
  <2>1. f = [T \in SUBSET S |-> Body(f, T)]
    BY <1>5, <1>6
  <2> QED
    BY <2>1
<1> DEFINE made == CHOOSE table : table = [T \in SUBSET S |-> Body(table, T)]
<1>8. RoutePattern(dir) = ParseSegments(made[S])
  BY DEF RoutePattern, FoldLeft, MapThenFoldSet, Named
<1>9. made = [T \in SUBSET S |-> Body(made, T)]
  BY <1>7
<1> HIDE DEF made
<1> DEFINE B == {m \in Nat : \A T \in SUBSET S : Cardinality(T) = m => made[T] \in V}
<1>10. 0 \in B
  <2> SUFFICES ASSUME NEW T \in SUBSET S, Cardinality(T) = 0 PROVE made[T] \in V
    OBVIOUS
  <2>1. T = {}
    BY <1>a, FS_EmptySet
  <2> QED
    BY <1>9, <1>d, <2>1
<1>11. \A m \in B : m + 1 \in B
  <2> SUFFICES ASSUME NEW m \in B, NEW T \in SUBSET S, Cardinality(T) = m + 1 PROVE made[T] \in V
    <3>1. \A m \in B : m + 1 \in Nat
      OBVIOUS
    <3> QED
      BY <3>1
  <2>1. m \in Nat
    OBVIOUS
  <2>2. CASE T = {}
    BY <1>9, <1>d, <2>2
  <2>3. CASE T # {}
    <3> DEFINE rest == T \ {Max(T)}
    <3>1. rest \in SUBSET S /\ Cardinality(rest) = m /\ Max(T) \in S
      <4>1. Cardinality(rest) = Cardinality(T) - 1 /\ Max(T) \in S /\ rest \in SUBSET S
        BY <1>b, <2>3
      <4> QED
        BY <2>1, <4>1
    <3>2. made[rest] \in V
      BY <3>1
    <3>3. made[T] = Named(made[rest], dir[Max(T)])
      BY <1>9, <2>3
    <3> QED
      BY <1>0, <1>c, <3>1, <3>2, <3>3
  <2> QED
    BY <2>2, <2>3
<1>12. B = Nat
  <2>1. B \in SUBSET Nat
    OBVIOUS
  <2> HIDE DEF B
  <2> QED
    BY <1>10, <1>11, <2>1, NatInductive
<1>13. made[S] \in V
  <2>1. Cardinality(S) \in B
    BY <1>a, <1>12
  <2> QED
    BY <2>1
<1> QED
  BY <1>8, <1>13, ParsedShape DEF V

\* Resolve finds the most specific page of a scan, with its own parameters.
LEMMA PagesRight ==
    ASSUME NEW tree \in Seq(Seq(Dirs)), NEW path \in Seq(Nat \ {0}),
           NEW r, r = Compile(tree), NEW page, page = ResolveIn(r, r, path)
    PROVE  /\ RightPage(r.routes, page, path)
           /\ page.kind = "page" /\ NamesAgree(Range(r.routes)) =>
                page.params = ParamsOf(page.pattern, path)
<1> DEFINE rs == [i \in DOMAIN tree |-> RoutePattern(tree[i])]
           static == {i \in DOMAIN rs : IsStatic(rs[i])}
           S == DOMAIN rs \ static
           m == TableMatch(r.table, path)
           fixed == [q \in {Texts(rs[i]) : i \in static} |-> Max({i \in static : Texts(rs[i]) = q})]
<1>0. Len(tree) \in Nat /\ DOMAIN tree = 1..Len(tree) /\ \A i \in 1..Len(tree) : tree[i] \in Seq(Dirs)
  BY ElementOfSeq, LenProperties
<1>1. DOMAIN rs = 1..Len(tree) /\ \A i \in 1..Len(tree) : rs[i] \in Seq(Segments)
  BY <1>0, PatternType
<1>2. r.routes = rs /\ r.static = fixed /\ r.table = NewRouteTable(rs, S)
  BY DEF Compile
<1> HIDE DEF rs
<1>3. /\ m.found \in BOOLEAN
      /\ m.found => /\ m.route \in S /\ Fits(rs[m.route], path)
                    /\ \A j \in S : Fits(rs[j], path) => ~Beats(rs[j], rs[m.route], path)
      /\ ~m.found => \A j \in S : ~Fits(rs[j], path)
      /\ \A P : NamesAgree(P) /\ (\A j \in S : rs[j] \in P) /\ m.found =>
            m.params = ParamsOf(rs[m.route], path)
  <2>1. S \subseteq 0..Len(tree) /\ \A i \in S : rs[i] \in Seq(Segments)
    <3>1. 1..Len(tree) \subseteq 0..Len(tree)
      BY <1>0
    <3> QED
      BY <1>1, <3>1
  <2>2. m = TableMatch(NewRouteTable(rs, S), path)
    BY <1>2
  <2> HIDE DEF S, m
  <2> QED
    BY <1>0, <2>1, <2>2, TableRight
<1>4. page = IF path \in DOMAIN fixed THEN Page(rs, fixed[path], <<>>)
             ELSE IF m.found THEN Page(rs, m.route, m.params)
             ELSE NoPage
  BY <1>2 DEF ResolveIn
<1>5. \A i, ps : /\ Page(rs, i, ps).kind = "page" /\ Page(rs, i, ps).pattern = rs[i]
                 /\ Page(rs, i, ps).params = ps
  BY DEF Page
<1>6. \A i \in DOMAIN rs : rs[i] \in Range(rs)
  BY DEF Range
<1> HIDE DEF m
<1>7. CASE path \in DOMAIN fixed
  <2> DEFINE E == {i \in static : Texts(rs[i]) = path}
             i == Max(E)
  <2>1. i \in E
    <3>1. E # {} /\ E \subseteq 0..Len(tree)
      <4>1. 1..Len(tree) \subseteq 0..Len(tree)
        BY <1>0
      <4> QED
        BY <1>1, <1>7, <4>1
    <3> HIDE DEF E
    <3> QED
      BY <1>0, <3>1, MaxIs
  <2>2. fixed[path] = i
    BY <1>7
  <2>3. page.kind = "page" /\ page.pattern = rs[i] /\ page.params = <<>>
    BY <1>4, <1>5, <1>7, <2>2
  <2>4. i \in DOMAIN rs /\ IsStatic(rs[i]) /\ Texts(rs[i]) = path
    BY <2>1
  <2> HIDE DEF i
  <2>5. /\ Fits(rs[i], path) /\ ParamsOf(rs[i], path) = <<>>
        /\ \A q \in Seq(Segments) : ~Beats(q, rs[i], path)
    BY <1>1, <2>4, StaticIs
  <2>6. \A j \in DOMAIN rs : ~Beats(rs[j], rs[i], path)
    BY <1>1, <2>5
  <2> QED
    BY <1>2, <1>6, <2>3, <2>4, <2>5, <2>6 DEF RightPage
<1>s. ASSUME path \notin DOMAIN fixed, NEW j \in DOMAIN rs, Fits(rs[j], path) PROVE j \in S
  <2> SUFFICES ASSUME IsStatic(rs[j]) PROVE FALSE
    OBVIOUS
  <2>1. Texts(rs[j]) = path
    BY <1>1, <1>s, StaticIs
  <2> QED
    BY <1>s, <2>1
<1>8. CASE path \notin DOMAIN fixed /\ m.found
  <2>1. page.kind = "page" /\ page.pattern = rs[m.route] /\ page.params = m.params
    BY <1>4, <1>5, <1>8
  <2>2. m.route \in DOMAIN rs /\ Fits(rs[m.route], path)
    BY <1>3, <1>8
  <2>3. \A j \in DOMAIN rs : Fits(rs[j], path) => ~Beats(rs[j], rs[m.route], path)
    BY <1>3, <1>8, <1>s
  <2>4. NamesAgree(Range(rs)) => m.params = ParamsOf(rs[m.route], path)
    BY <1>3, <1>6, <1>8
  <2> QED
    BY <1>2, <1>6, <2>1, <2>2, <2>3, <2>4 DEF RightPage
<1>9. CASE path \notin DOMAIN fixed /\ ~m.found
  <2>1. page.kind = "nopage"
    BY <1>4, <1>9 DEF NoPage
  <2>2. \A j \in DOMAIN rs : ~Fits(rs[j], path)
    BY <1>3, <1>9, <1>s
  <2> QED
    BY <1>2, <2>1, <2>2 DEF RightPage
<1> QED
  BY <1>7, <1>8, <1>9

-----------------------------------------------------------------------------
(* What is asked, and of what, is of the kinds the search is right about.   *)

Scanned(r) == \E tree \in Seq(Seq(Dirs)) : r = Compile(tree)

RoutesInv == /\ \E l \in Seq(Registered) : fw = BuildFramework(l)
             /\ Scanned(router) /\ \A r \in current : Scanned(r)
             /\ req.at # "idle" => req.path \in Seq(Nat \ {0})

LEMMA RoutesInitially ==
    ASSUME NEW apps, apps \subseteq [api : Seq(Registered), pages : Seq(Seq(Dirs))], RoutingInit(apps)
    PROVE  RoutesInv
<1>1. PICK app \in apps : fw = BuildFramework(app.api) /\ router = Compile(app.pages)
  BY DEF RoutingInit
<1>2. app.api \in Seq(Registered) /\ app.pages \in Seq(Seq(Dirs))
  BY <1>1
<1>3. Scanned(router)
  BY <1>1, <1>2 DEF Scanned
<1>4. req.at = "idle" /\ current = {router}
  BY DEF RoutingInit, NoRequest
<1> QED
  BY <1>1, <1>2, <1>3, <1>4 DEF RoutesInv

LEMMA RoutesStep == RoutingInv /\ RoutesInv /\ [RoutingNext]_routingVars => RoutesInv'
<1> SUFFICES ASSUME RoutingInv, RoutesInv, [RoutingNext]_routingVars PROVE RoutesInv'
  OBVIOUS
<1>0. /\ \E l \in Seq(Registered) : fw = BuildFramework(l)
      /\ Scanned(router) /\ \A r \in current : Scanned(r)
      /\ req.at # "idle" => req.path \in Seq(Nat \ {0}) /\ DOMAIN req = Fields
  BY DEF RoutesInv, RoutingInv, RequestInv
<1>1. ASSUME NEW method \in Methods, NEW path \in Paths, Serve(method, path) PROVE RoutesInv'
  <2> DEFINE m == ApiMatch(fw, method, path)
  <2>1. PICK here \in {"resolving", "answered"} :
          req' = [at |-> here, method |-> method, path |-> path, api |-> m, answer |-> m]
    BY <1>1 DEF Serve
  <2>2. fw' = fw /\ router' = router /\ current' = {router}
    BY <1>1 DEF Serve
  <2>3. req'.path = path
    BY <2>1, RequestFields
  <2> QED
    BY <1>0, <2>2, <2>3, PathsAssumption DEF RoutesInv, Scanned
<1>2. CASE Snapshot
  <2>1. /\ req.at = "resolving" /\ req' = [req EXCEPT !.at = "matching", !.answer = router]
        /\ UNCHANGED <<fw, router, scans, current>>
    BY <1>2 DEF Snapshot
  <2>2. req'.path = req.path
    BY <1>0, <2>1, RequestUpdate
  <2> QED
    BY <1>0, <2>1, <2>2 DEF RoutesInv, Scanned
<1>3. CASE Resolve
  <2>1. PICK said : /\ req.at = "matching" /\ req' = [req EXCEPT !.at = "answered", !.answer = said]
                    /\ UNCHANGED <<fw, router, scans, current>>
    BY <1>3 DEF Resolve
  <2>2. req'.path = req.path
    BY <1>0, <2>1, RequestUpdate
  <2> QED
    BY <1>0, <2>1, <2>2 DEF RoutesInv, Scanned
<1>4. CASE Done
  BY <1>0, <1>4 DEF Done, NoRequest, RoutesInv, Scanned
<1>5. ASSUME NEW tree \in Edited, ScanRoutes(tree) PROVE RoutesInv'
  <2>1. Scanned(router')
    BY <1>5, EditedAssumption DEF ScanRoutes, Scanned
  <2>2. current' = current \cup {router'} /\ fw' = fw /\ req' = req
    BY <1>5 DEF ScanRoutes
  <2> QED
    BY <1>0, <2>1, <2>2 DEF RoutesInv, Scanned
<1>6. CASE UNCHANGED routingVars
  BY <1>0, <1>6 DEF routingVars, RoutesInv, Scanned
<1> QED
  BY <1>1, <1>2, <1>3, <1>4, <1>5, <1>6 DEF RoutingNext

LEMMA RoutesAlways == Spec => [](RoutingInv /\ RoutesInv)
<1>1. Init => RoutingInv /\ RoutesInv
  <2> SUFFICES ASSUME Init PROVE RoutingInv /\ RoutesInv
    OBVIOUS
  <2> DEFINE apps == IF layer = "routing" THEN Apps ELSE {NoRoutes}
  <2>1. RoutingInit(apps)
    BY DEF Init
  <2>2. apps \subseteq [api : Seq(Registered), pages : Seq(Seq(Dirs))]
    <3>1. NoRoutes \in [api : Seq(Registered), pages : Seq(Seq(Dirs))]
      BY DEF NoRoutes
    <3> QED
      BY <3>1, AppsAssumption DEF Registered
  <2> QED
    BY <2>1, <2>2, RoutingInitially, RoutesInitially
<1>2. [Next]_vars => [RoutingNext]_routingVars
  <2>1. CASE UNCHANGED vars
    BY <2>1 DEF vars
  <2>2. CASE Next
    BY <2>2 DEF Next
  <2> QED
    BY <2>1, <2>2
<1> QED
  BY <1>1, <1>2, RoutingStep, RoutesStep, PTL DEF Spec

\* Which page, of which scan, a request was answered with.
LEMMA Resolved ==
    ASSUME RoutingInv, RoutesInv, req.at = "answered", req.answer.kind \in {"page", "nopage"}
    PROVE  \E r \in current : /\ Scanned(r) /\ req.answer = ResolveIn(r, r, req.path)
                              /\ req.path \in Seq(Nat \ {0})
<1>1. req.api = ApiMatch(fw, req.method, req.path)
  BY DEF RoutingInv, RequestInv
<1>2. ApiMatch(fw, req.method, req.path).kind \in {"api", "405", "nothing"}
  BY ApiKinds
<1>3. \E r \in current : req.answer = ResolveIn(r, r, req.path)
  BY <1>1, <1>2 DEF RoutingInv, RequestInv
<1> QED
  BY <1>3 DEF RoutesInv

\* std's match runs the most specific API route of the request's method that fits
\* the URL, and Resolve finds the most specific page of one scan and says none only
\* if none fits: the trie, which tries the text first and goes back, answers as the
\* order of the patterns' regular expressions would, whatever the routes and the
\* pages are (MatchNode, Insert, SortBySpecificity).
THEOREM MostSpecificWins == Spec => []MostSpecific
<1>1. RoutingInv /\ RoutesInv => MostSpecific
  <2> SUFFICES ASSUME RoutingInv, RoutesInv PROVE MostSpecific
    OBVIOUS
  <2>1. ASSUME req.at # "idle" PROVE RightRoute(fw, req.api, req.method, req.path)
    <3>1. req.api = ApiMatch(fw, req.method, req.path)
      BY <2>1 DEF RoutingInv, RequestInv
    <3>2. PICK l \in Seq(Registered) : fw = BuildFramework(l)
      BY DEF RoutesInv
    <3>3. req.path \in Seq(Nat \ {0})
      BY <2>1 DEF RoutesInv
    <3> QED
      BY <3>1, <3>2, <3>3, FrameworkRight
  <2>2. ASSUME req.at = "answered", req.answer.kind \in {"page", "nopage"}
        PROVE  \E r \in current : RightPage(r.routes, req.answer, req.path)
    <3>1. PICK r \in current : /\ Scanned(r) /\ req.answer = ResolveIn(r, r, req.path)
                               /\ req.path \in Seq(Nat \ {0})
      BY <2>2, Resolved
    <3>2. PICK tree \in Seq(Seq(Dirs)) : r = Compile(tree)
      BY <3>1 DEF Scanned
    <3> QED
      BY <3>1, <3>2, PagesRight
  <2> QED
    BY <2>1, <2>2 DEF MostSpecific
<1> QED
  BY <1>1, RoutesAlways, PTL

\* The handler of a route or a page gets exactly the parameters its own pattern names,
\* whatever the search tried and gave up before it, if the patterns agree on the names
\* (MatchNode's params, Bind).
THEOREM ParamsAreOwn == Spec => []OwnParams
<1>1. RoutingInv /\ RoutesInv => OwnParams
  <2> SUFFICES ASSUME RoutingInv, RoutesInv PROVE OwnParams
    OBVIOUS
  <2>1. ASSUME req.at # "idle", req.api.kind = "api", NamesAgree(Range(PatternsOf(fw.routes)))
        PROVE  req.api.params = ParamsOf(fw.routes[req.api.route].pattern, req.path)
    <3>1. req.api = ApiMatch(fw, req.method, req.path)
      BY <2>1 DEF RoutingInv, RequestInv
    <3>2. PICK l \in Seq(Registered) : fw = BuildFramework(l)
      BY DEF RoutesInv
    <3>3. req.path \in Seq(Nat \ {0})
      BY <2>1 DEF RoutesInv
    <3> QED
      BY <2>1, <3>1, <3>2, <3>3, FrameworkRight
  <2>2. ASSUME req.at = "answered", req.answer.kind = "page"
        PROVE  \E r \in current :
                  /\ req.answer = ResolveIn(r, r, req.path)
                  /\ NamesAgree(Range(r.routes)) =>
                       req.answer.params = ParamsOf(req.answer.pattern, req.path)
    <3>1. PICK r \in current : /\ Scanned(r) /\ req.answer = ResolveIn(r, r, req.path)
                               /\ req.path \in Seq(Nat \ {0})
      BY <2>2, Resolved
    <3>2. PICK tree \in Seq(Seq(Dirs)) : r = Compile(tree)
      BY <3>1 DEF Scanned
    <3> QED
      BY <2>2, <3>1, <3>2, PagesRight
  <2> QED
    BY <2>1, <2>2 DEF OwnParams
<1> QED
  BY <1>1, RoutesAlways, PTL
=============================================================================
