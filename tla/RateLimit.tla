------------------------------- MODULE RateLimit -------------------------------
(***************************************************************************)
(* middleware/ratelimit, for one client: the entry of its key in the       *)
(* sync.Map, the token buckets that were that entry, the requests that use *)
(* them without a lock, and the sweeper that forgets idle clients.  A      *)
(* bucket is golang.org/x/time/rate's limiter, external.                   *)
(***************************************************************************)
EXTENDS Integers, Sequences, FiniteSets

CONSTANTS Clients,       \* requests of the client that may be under way together
          Burst,         \* tokens of a full bucket
          Rps,           \* tokens a bucket gets per tick of the clock
          SweepInterval, \* ticks between two rounds of the sweeper
          IdleTTL,       \* ticks without a request after which a client is forgotten
          MaxBuckets,    \* bound: buckets ever made
          MaxClock       \* bound: ticks

ASSUME RateAssumption == /\ Burst \in Nat \ {0} /\ Rps \in Nat \ {0}
                         /\ SweepInterval \in Nat \ {0} /\ IdleTTL \in Nat
                         /\ 2 * SweepInterval <= IdleTTL

VARIABLES clock,    \* time, never less than IdleTTL, so that 0 is long ago
          buckets,  \* every bucket: its tokens when it was last taken from, when that was,
                    \* and lastSeen
          entry,    \* the bucket in the map, 0 if there is none
          using,    \* per request: where it is, and the bucket it loaded
          sweeper,  \* where the sweeper is, its cutoff and the ticks it has taken
          level     \* history: one bucket, never forgotten, that pays for every request

limitVars == <<clock, buckets, entry, using, sweeper, level>>

\* rate.Limiter: what a bucket holds by now.
Tokens(b) == LET full == b.tokens + Rps * (clock - b.at)
             IN  IF full < Burst THEN full ELSE Burst

LimitInit == /\ clock = IdleTTL
             /\ buckets = <<>> /\ entry = 0
             /\ using = [r \in Clients |-> [at |-> "idle", bucket |-> 0]]
             /\ sweeper = [at |-> "waiting", cutoff |-> 0, ticks |-> IdleTTL \div SweepInterval]
             /\ level = [tokens |-> Burst, at |-> IdleTTL]

Due == clock \div SweepInterval > sweeper.ticks

UnderWay(r) == using[r].at \in {"loaded", "seen"}

\* A tick is long (the sweeper's rounds are a minute apart): what is under way
\* interleaves within one and ends in it.
Tick == /\ clock < MaxClock
        /\ \A r \in Clients : ~UnderWay(r)
        /\ sweeper.at = "waiting" /\ ~Due
        /\ clock' = clock + 1
        /\ UNCHANGED <<buckets, entry, using, sweeper, level>>

\* Mutant of NewBucket: a bucket starts empty.
EmptyBucket == [tokens |-> 0, at |-> clock, seen |-> 0]

\* A new bucket is full, and was last seen at the zero of its clock.
NewBucket == [tokens |-> Burst, at |-> clock, seen |-> 0]

LoadOrStore(r) ==
    /\ ~UnderWay(r)
    /\ IF entry # 0
         THEN /\ using' = [using EXCEPT ![r] = [at |-> "loaded", bucket |-> entry]]
              /\ UNCHANGED <<buckets, entry>>
         ELSE /\ Len(buckets) < MaxBuckets
              /\ buckets' = Append(buckets, NewBucket)
              /\ entry' = Len(buckets')
              /\ using' = [using EXCEPT ![r] = [at |-> "loaded", bucket |-> entry']]
    /\ UNCHANGED <<clock, sweeper, level>>

\* Mutant of StoreLastSeen: lastSeen keeps the time of the first request.
StoreFirstSeen(r) ==
    /\ using[r].at = "loaded"
    /\ using' = [using EXCEPT ![r].at = "seen"]
    /\ buckets' = [buckets EXCEPT ![using[r].bucket].seen = IF @ = 0 THEN clock ELSE @]
    /\ UNCHANGED <<clock, entry, sweeper, level>>

StoreLastSeen(r) ==
    /\ using[r].at = "loaded"
    /\ using' = [using EXCEPT ![r].at = "seen"]
    /\ buckets' = [buckets EXCEPT ![using[r].bucket].seen = clock]
    /\ UNCHANGED <<clock, entry, sweeper, level>>

Allow(r) ==
    LET b == using[r].bucket
        n == Tokens(buckets[b])
    IN  /\ using[r].at = "seen"
        /\ IF n >= 1
             THEN /\ buckets' = [buckets EXCEPT ![b].tokens = n - 1, ![b].at = clock]
                  /\ level' = [tokens |-> Tokens(level) - 1, at |-> clock]
                  /\ using' = [using EXCEPT ![r] = [at |-> "served", bucket |-> 0]]
             ELSE /\ using' = [using EXCEPT ![r] = [at |-> "refused", bucket |-> 0]]
                  /\ UNCHANGED <<buckets, level>>
        /\ UNCHANGED <<clock, entry, sweeper>>

-----------------------------------------------------------------------------
(* The sweeper: one round per tick of its ticker, which keeps one for it.   *)

BeginRound ==
    /\ sweeper.at = "waiting"
    /\ Due
    /\ sweeper' = [at |-> "checking", cutoff |-> clock - IdleTTL, ticks |-> clock \div SweepInterval]
    /\ UNCHANGED <<clock, buckets, entry, using, level>>

CheckEntry ==
    /\ sweeper.at = "checking"
    /\ sweeper' = [sweeper EXCEPT !.at = IF entry # 0 /\ buckets[entry].seen < sweeper.cutoff
                                           THEN "deleting" ELSE "waiting"]
    /\ UNCHANGED <<clock, buckets, entry, using, level>>

DeleteEntry ==
    /\ sweeper.at = "deleting"
    /\ sweeper' = [sweeper EXCEPT !.at = "waiting"]
    /\ entry' = 0
    /\ UNCHANGED <<clock, buckets, using, level>>

LimitNext == \/ Tick \/ BeginRound \/ CheckEntry \/ DeleteEntry
             \/ \E r \in Clients : LoadOrStore(r) \/ StoreLastSeen(r) \/ Allow(r)

LimitSpec == LimitInit /\ [][LimitNext]_limitVars

-----------------------------------------------------------------------------
(* Properties                                                               *)

\* The sweeper may take a bucket out of the map while requests use it, and they
\* and the next bucket's are admitted side by side (New, Wrap): still a client
\* whose bucket refills between two rounds of the sweeper is at no time more than
\* one burst ahead of what a single bucket would have admitted.
OneBurstAhead == Burst <= Rps * SweepInterval => level.tokens >= -Burst

\* Forgetting a client (startSweeper) never costs it anything: a request is refused only when
\* the one bucket that is never forgotten is empty too.
NeverStricter == [][\A r \in Clients : using[r].at = "seen" /\ using'[r].at = "refused"
                        => Tokens(level) < 1]_limitVars
=============================================================================
