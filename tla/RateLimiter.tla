----------------------------- MODULE RateLimiter -----------------------------
(***************************************************************************)
(* The fixed-window limiter of the authentication routes                   *)
(* (httpserver/auth_rate_limiter.go): its buckets, and what allow does     *)
(* with them while it holds the mutex.  Keys of different routes never     *)
(* meet, so there is one route here.  LastSeen is written by the code and  *)
(* never read.                                                             *)
(***************************************************************************)
EXTENDS Integers, Functions

CONSTANTS Limit, Window,  \* cfg.Limit, cfg.Window
          NoSubject       \* an attempt that names nobody

ASSUME LimiterAssumption == {Limit, Window} \subseteq Nat \ {0}

\* authRateKeys: the address, and the subject when there is one.
KeysOf(client, subject) ==
    {<<"ip", client>>} \cup IF subject = NoSubject THEN {} ELSE {<<"subject", subject>>}

Live(buckets, k, now) == k \in DOMAIN buckets /\ buckets[k].resetAt > now

\* pruneLocked: a bucket that ends now stays, and counts no more.
Pruned(buckets, now) == Restrict(buckets, {k \in DOMAIN buckets : buckets[k].resetAt >= now})

\* The first loop of allow looks at every key ...
AllowsOneMore(buckets, keys, now) ==
    \A k \in keys : Live(buckets, k, now) => buckets[k].count <= Limit
Allows(buckets, keys, now) ==
    \A k \in keys : Live(buckets, k, now) => buckets[k].count < Limit

\* ... and the second counts the attempt under each.
Counted(buckets, keys, now) ==
    [k \in DOMAIN buckets \cup keys |->
        IF k \notin keys THEN buckets[k]
        ELSE IF Live(buckets, k, now) THEN [buckets[k] EXCEPT !.count = @ + 1]
        ELSE [count |-> 1, resetAt |-> now + Window]]

\* allow, as the buckets it leaves.
AfterAttempt(buckets, keys, now) ==
    LET left == Pruned(buckets, now) IN
    IF Allows(left, keys, now) THEN Counted(left, keys, now) ELSE left
==============================================================================
