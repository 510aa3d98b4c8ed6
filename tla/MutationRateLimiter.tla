--------------------------- MODULE MutationRateLimiter ---------------------------
(***************************************************************************)
(* apps/realtime-lab/server.ts, MutationRateLimiter: token buckets of a    *)
(* bounded number of clients, the least recently used first.  Time and     *)
(* tokens are counted in steps in which a bucket gains Refill tokens.      *)
(***************************************************************************)
EXTENDS Naturals, Sequences, SequencesExt, FiniteSetsExt

CONSTANTS ClientKeys, Capacity, Refill, MaxClients

ASSUME LimiterAssumption ==
  {Capacity, Refill, MaxClients} \subseteq Nat \ {0}

Bucket == [key : ClientKeys, tokens : 0 .. Capacity, updated : Nat]

Refilled(bucket, now) ==
  Min({Capacity, bucket.tokens + Refill * (now - bucket.updated)})

Tracked(buckets, key) == \E i \in DOMAIN buckets : buckets[i].key = key
Place(buckets, key) == CHOOSE i \in DOMAIN buckets : buckets[i].key = key
Without(buckets, key) ==
  IF Tracked(buckets, key) THEN RemoveAt(buckets, Place(buckets, key)) ELSE buckets

\* #findEvictableFullBucket: the first bucket that carries no penalty.
EvictableFaulty(buckets, now) == DOMAIN buckets
Evictable(buckets, now) == {i \in DOMAIN buckets : Refilled(buckets[i], now) >= Capacity}

\* A new client finds the table full of penalized buckets.
Refuses(buckets, key, now) ==
  /\ ~Tracked(buckets, key)
  /\ Len(buckets) >= MaxClients
  /\ Evictable(buckets, now) = {}

Admitted(buckets, key, now) ==
  IF Tracked(buckets, key) \/ Len(buckets) < MaxClients THEN buckets
  ELSE RemoveAt(buckets, Min(Evictable(buckets, now)))

TokensOf(buckets, key, now) ==
  IF Tracked(buckets, key) THEN Refilled(buckets[Place(buckets, key)], now)
  ELSE Capacity

Allows(buckets, key, now) ==
  ~Refuses(buckets, key, now) /\ TokensOf(buckets, key, now) >= 1

\* take: the table afterwards.
Take(buckets, key, now) ==
  LET tokens == TokensOf(buckets, key, now)
      rest == Without(Admitted(buckets, key, now), key)
  IN IF Refuses(buckets, key, now) THEN buckets
     ELSE Append(rest, [key |-> key, updated |-> now,
                        tokens |-> IF tokens >= 1 THEN tokens - 1 ELSE tokens])

=============================================================================
