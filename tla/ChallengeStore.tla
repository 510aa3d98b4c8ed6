---------------------------- MODULE ChallengeStore ----------------------------
(***************************************************************************)
(* packages/state-machine/challengeStore.ts: the store of one-shot         *)
(* challenges.  A challenge is named by the aggregate it was issued for (a *)
(* provisioning request or a transaction), since the engine issues exactly *)
(* one challenge for each and the random challenge id is never reused.     *)
(*                                                                         *)
(* Each operation of the store is given as its guard (when it returns      *)
(* without throwing) and the record it leaves behind.  Rejections that     *)
(* leave the store as it was (unknown challenge, altered binding, invalid  *)
(* signature) are not steps.                                               *)
(***************************************************************************)
EXTENDS Naturals

CONSTANTS ChallengeIds,   \* the aggregates a challenge may be issued for
          None            \* an absent value

VARIABLE challenges       \* [ChallengeIds -> ChallengeRecord]

ChallengeStatus == {"created", "confirmed", "expired", "cancelled"}

\* "unissued" marks an id the store has no record of.
ChallengeRecord ==
  [status : ChallengeStatus \cup {"unissued"},
   issuedAt : Nat, expiresAt : Nat, consumedAt : Nat \cup {None}]

Unissued ==
  [status |-> "unissued", issuedAt |-> 0, expiresAt |-> 0, consumedAt |-> None]

\* create: the record of a challenge issued at now for ttl units of time.
Created(now, ttl) ==
  [status |-> "created", issuedAt |-> now, expiresAt |-> now + ttl,
   consumedAt |-> None]

\* consume, past the terminal-status and binding checks: an approval that is
\* late marks the challenge expired before the call throws, whoever signed it.
ConsumeExpires(c, now) ==
  challenges[c].status = "created" /\ now >= challenges[c].expiresAt

Expired(r) == [r EXCEPT !.status = "expired"]

\* consume returning normally: the signature is checked after the deadline,
\* with the public key the caller expects.
ConsumeConfirms(c, signer, expectedKey, now) ==
  /\ challenges[c].status = "created"
  /\ now < challenges[c].expiresAt
  /\ signer = expectedKey

Confirmed(r, now) == [r EXCEPT !.status = "confirmed", !.consumedAt = now]

\* Faulty: a terminal challenge can be cancelled.
CancelTerminalToo(c, now) ==
  challenges[c].status # "unissued" /\ now >= challenges[c].issuedAt

\* Faulty: a challenge past its deadline is left as it is.
CancelBeforeDeadline(c, now) ==
  /\ challenges[c].status = "created"
  /\ now >= challenges[c].issuedAt /\ now < challenges[c].expiresAt

\* cancel: has no deadline, only the refusal to cancel before issuance.
CancelAllowed(c, now) ==
  challenges[c].status = "created" /\ now >= challenges[c].issuedAt

Cancelled(r, now) == [r EXCEPT !.status = "cancelled", !.consumedAt = now]

\* ChallengeStore.restore accepts a snapshot with these records.
RestoreChallenges ==
  \A c \in ChallengeIds :
    LET r == challenges[c] IN
    r.status # "unissued" =>
      /\ r.expiresAt > r.issuedAt
      /\ r.status \in {"confirmed", "cancelled"} => r.consumedAt # None
      /\ r.consumedAt # None => r.consumedAt >= r.issuedAt
      /\ r.status = "created" => r.consumedAt = None

=============================================================================
