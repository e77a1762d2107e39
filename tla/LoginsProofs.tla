----------------------------- MODULE LoginsProofs -----------------------------
(***************************************************************************)
(* For every number of users, addresses, codes and handlers, and for every *)
(* setting of the limits: what concurrent logins, registrations, SSO       *)
(* callbacks, password resets and confirmations do to users, sessions and  *)
(* email codes.                                                            *)
(*                                                                         *)
(* The inductive invariant says of every request what it holds: a user or  *)
(* a code record that it has read still is the stored one, or the history  *)
(* variable stale names the request.  Of the tables it says that the       *)
(* emails of users and the codes that nobody raced for are unique, that    *)
(* sessions belong to active users, and that a code has been guessed at as *)
(* often as its record says.                                               *)
(***************************************************************************)
EXTENDS Logins, FiniteSetTheorems, WellFoundedInduction, TLAPS

RequestFields == {"pc", "kind", "email", "purpose", "pass", "code", "id", "copy"}

\* Where a request of a kind can be.
Places == [login |-> {"lock", "turnstile", "user", "failed", "count", "challenge", "rehash",
                      "session", "unlock"},
           sso |-> {"byid", "byemail", "provision", "bind", "session"},
           passkey |-> {"session", "unlock"}, profile |-> {"load", "profile"},
           logout |-> {"revoke"}, ask |-> {"asker", "issue"},
           confirm |-> {"code", "owner", "verify", "newpass", "clear", "revoke"} \cup CodeWrites]

\* What arrived with it.
BodyOK(q) ==
    /\ q.kind \in {"login", "sso", "passkey", "ask", "confirm"} => q.email \in Emails
    /\ q.kind \in {"login", "confirm"} => q.pass \in Passwords
    /\ q.kind \in {"ask", "confirm"} => q.purpose \in Purposes
    /\ q.pc = "byid" => q.id \in Subjects
    /\ q.kind = "sso" /\ q.pc # "byid" => q.code \in Subjects
    /\ q.pc \in {"byemail", "provision"} => q.id = q.code

Active(i) == i \in Ids /\ users[i] # Absent /\ users[i].status = "active"

\* The user in its hands is the stored one, or has been overtaken; only
\* ConfirmEmailVerification works on a user that is not active yet.
HoldsUserOK(r) ==
    LET q == req[r] IN
    /\ q.pc \in {"session", "load"} => Active(q.id)
    /\ q.pc \in UserWrites =>
          /\ q.id \in Ids /\ users[q.id] # Absent /\ q.copy \in UserRecord
          /\ q.copy.email = users[q.id].email
          /\ q.pc # "verify" => q.copy.status = "active"
          /\ r \notin stale => q.copy = users[q.id]
    /\ q.pc = "bind" => q.copy.subject = Absent
    /\ q.pc = "rehash" => q.copy.pass = q.pass
    /\ q.pc = "session" /\ r \notin stale =>
          /\ q.kind = "login" => users[q.id].pass = q.pass
          /\ q.kind = "sso" => users[q.id].subject = q.code

\* The same of a code record, which it has counted its own attempt in.
HoldsCodeOK(r) ==
    LET q == req[r]
        k == <<q.email, q.purpose>>
    IN
    q.pc \in CodeWrites =>
       /\ q.copy \in CodeRecord
       /\ q.pc = "guess" => q.copy.attempts < MaxAttempts
       /\ r \notin stale => codes[k] # Absent /\ q.copy = [codes[k] EXCEPT !.attempts = @ + 1]

\* The end of the lock that the count of failures brings at a time.
LockEnd(n, at) == IF LoginLockDuration(n) > 0 THEN at + LoginLockDuration(n) ELSE 0

\* The same of a throttle, which it has counted one failure in.
HoldsCountOK(r) ==
    LET q == req[r] IN
    q.pc = "count" =>
       /\ q.copy \in Throttle /\ q.copy.until = LockEnd(q.copy.count, q.copy.at)
       /\ r \notin stale => q.copy.count = throttle[q.email].count + 1

RequestOK(r) ==
    LET q == req[r] IN
    /\ DOMAIN q = RequestFields /\ q.pc \in PCs /\ q.kind \in Kinds
    /\ q.pc # "idle" => q.pc \in Places[q.kind] /\ BodyOK(q)
    /\ HoldsUserOK(r) /\ HoldsCodeOK(r) /\ HoldsCountOK(r)

Typed ==
    /\ now \in 0..MaxTime /\ calls \in 0..MaxCalls
    /\ users \in [Ids -> UserRecord \cup {Absent}]
    /\ throttle \in [Emails -> Throttle]
    /\ codes \in [Slots -> CodeRecord \cup {Absent}]
    /\ DOMAIN req = Reqs
    /\ DOMAIN intended = Ids /\ failures \in [Emails -> Nat]
    /\ used \in [Codes -> Nat] /\ wrong \in [Codes -> Nat]
    /\ stale \subseteq Reqs

EmailsDiffer ==
    \A i, j \in Ids : users[i] # Absent /\ users[j] # Absent /\ users[i].email = users[j].email => i = j

SessionsOK == \A s \in sessions : s \in Session /\ Active(s.id)

\* A stored code that nobody raced for is in one place, has not been used,
\* and was guessed at as often as its record says.
CodesOK ==
    /\ \A k \in Slots : codes[k] # Absent => codes[k].attempts < MaxAttempts
    /\ \A k \in Slots : codes[k] # Absent /\ codes[k].code \notin raced =>
          /\ used[codes[k].code] = 0 /\ wrong[codes[k].code] = codes[k].attempts
          /\ \A m \in Slots : codes[m] # Absent /\ codes[m].code = codes[k].code => m = k
    /\ \A c \in Codes \ raced : used[c] <= 1

\* A throttle locks for as long as its count says, and counts every failure
\* unless two of them overlapped.
ThrottlesOK ==
    \A e \in Emails : /\ throttle[e].until = LockEnd(throttle[e].count, throttle[e].at)
                      /\ e \notin raced => throttle[e].count = failures[e]

IInv ==
    /\ Typed /\ EmailsDiffer /\ SessionsOK /\ CodesOK /\ ThrottlesOK
    /\ UserEditsLostOnlyByRace /\ ResetRevokesSessions /\ SSOSessionsMatchBinding
    /\ \A r \in Reqs : RequestOK(r)

-----------------------------------------------------------------------------
(* Induction, and what loginLockDuration computes.  The theorems of the    *)
(* library that take an operator cannot be used here; sets and functions   *)
(* do as well.                                                             *)

\* Every set of numbers has a least one, which is what induction needs.
LEMMA LeastNumber ==
    ASSUME NEW T, T \subseteq Nat, T # {}
    PROVE  \E x \in T : \A y \in T : x <= y
<1> DEFINE R == OpToRel(<, Nat)
<1>1. IsWellFoundedOn(R, Nat)
  BY NatLessThanWellFounded
<1>2. \A x, y \in Nat : <<x, y>> \in R <=> x < y
  BY DEF OpToRel
<1> HIDE DEF R
<1>3. PICK x \in T : \A y \in T : ~(<<y, x>> \in R)
  BY <1>1, WFMin
<1>4. \A y \in T : y \in Nat /\ x \in Nat /\ ~(y < x)
  BY <1>2, <1>3
<1> QED
  BY <1>4

\* What holds of 0 and passes from a number to the next holds of all.
LEMMA Induction ==
    ASSUME NEW S, 0 \in S, \A n \in Nat : n \in S => n + 1 \in S
    PROVE  Nat \subseteq S
<1> DEFINE T == Nat \ S
<1>1. SUFFICES ASSUME T # {} PROVE FALSE
  OBVIOUS
<1>2. PICK n \in T : \A m \in T : n <= m
  BY <1>1, LeastNumber
<1>3. n # 0 /\ n - 1 \in Nat /\ ~(n <= n - 1) /\ (n - 1) + 1 = n
  BY <1>2
<1>4. n - 1 \in S
  BY <1>2, <1>3
<1> QED
  BY <1>2, <1>3, <1>4

\* The first n repetitions of a step s from a on.
Runs(a, s, n) ==
    {g \in [Nat -> Nat] : g[0] = a /\ \A k \in Nat : k < n => g[k + 1] = s[g[k]]}

\* The numbers that come of repeating a step for ever exist.
LEMMA Repetition ==
    ASSUME NEW a \in Nat, NEW s \in [Nat -> Nat]
    PROVE  \E f \in [Nat -> Nat] : f[0] = a /\ \A n \in Nat : f[n + 1] = s[f[n]]
<1> DEFINE run(n) == CHOOSE g : g \in Runs(a, s, n)
<1>1. \A n \in Nat : Runs(a, s, n) # {}
  <2> DEFINE S == {n \in Nat : Runs(a, s, n) # {}}
  <2>1. 0 \in S
    <3>1. [k \in Nat |-> a] \in Runs(a, s, 0)
      BY DEF Runs
    <3> QED
      BY <3>1
  <2>2. ASSUME NEW n \in Nat, n \in S PROVE n + 1 \in S
    <3>1. PICK g : g \in Runs(a, s, n)
      BY <2>2
    <3> DEFINE h == [g EXCEPT ![n + 1] = s[g[n]]]
    <3>2. g \in [Nat -> Nat] /\ g[0] = a /\ \A k \in Nat : k < n => g[k + 1] = s[g[k]]
      BY <3>1 DEF Runs
    <3>3. h \in [Nat -> Nat] /\ h[0] = a
      BY <3>2
    <3>4. ASSUME NEW k \in Nat, k < n + 1 PROVE h[k + 1] = s[h[k]]
      <4>1. CASE k = n
        BY <3>2, <4>1
      <4>2. CASE k # n
        BY <3>2, <3>4, <4>2
      <4> QED
        BY <4>1, <4>2
    <3> HIDE DEF h
    <3>5. h \in Runs(a, s, n + 1)
      BY <3>3, <3>4 DEF Runs
    <3> QED
      BY <3>5
  <2> HIDE DEF S
  <2>3. Nat \subseteq S
    BY <2>1, <2>2, Induction
  <2> QED
    BY <2>3 DEF S
<1>2. ASSUME NEW n \in Nat
      PROVE  /\ run(n) \in [Nat -> Nat] /\ run(n)[0] = a
             /\ \A k \in Nat : k < n => run(n)[k + 1] = s[run(n)[k]]
  BY <1>1 DEF Runs
<1> HIDE DEF run
<1>3. ASSUME NEW n \in Nat PROVE run(n + 1)[n] = run(n)[n]
  <2> DEFINE S == {k \in Nat : k <= n => run(n + 1)[k] = run(n)[k]}
  <2>1. 0 \in S
    <3>1. run(n + 1)[0] = a /\ run(n)[0] = a
      BY <1>2
    <3> QED
      BY <3>1
  <2>2. ASSUME NEW k \in Nat, k \in S PROVE k + 1 \in S
    <3>1. CASE k + 1 <= n
      <4>1. run(n)[k + 1] = s[run(n)[k]] /\ run(n + 1)[k + 1] = s[run(n + 1)[k]]
        <5>1. k < n /\ k < n + 1 /\ n + 1 \in Nat
          BY <3>1
        <5> QED
          BY <1>2, <5>1
      <4> QED
        BY <2>2, <3>1, <4>1
    <3>2. CASE ~(k + 1 <= n)
      BY <3>2
    <3> QED
      BY <3>1, <3>2
  <2> HIDE DEF S
  <2>3. Nat \subseteq S
    BY <2>1, <2>2, Induction
  <2> QED
    BY <2>3 DEF S
<1> DEFINE f == [n \in Nat |-> run(n)[n]]
<1>4. f \in [Nat -> Nat] /\ f[0] = a
  BY <1>2
<1>5. ASSUME NEW n \in Nat PROVE f[n + 1] = s[f[n]]
  <2>1. run(n + 1)[n + 1] = s[run(n + 1)[n]]
    BY <1>2
  <2>2. run(n + 1)[n] = run(n)[n]
    BY <1>3
  <2>3. f[n + 1] = run(n + 1)[n + 1] /\ f[n] = run(n)[n]
    OBVIOUS
  <2> QED
    BY <2>1, <2>2, <2>3
<1> QED
  BY <1>4, <1>5

\* One turn of the loop.
Later(d) == IF d >= LockMax \div 2 THEN LockMax ELSE 2 * d

\* The loop of loginLockDuration runs through these numbers.
LEMMA DoubledSteps ==
    Doubled[0] = LockBase /\ \A n \in Nat : Doubled[n + 1] = Later(Doubled[n])
<1> DEFINE Eq(g) == g = [n \in Nat |-> IF n = 0 THEN LockBase
                           ELSE IF g[n - 1] >= LockMax \div 2 THEN LockMax ELSE 2 * g[n - 1]]
           s == [d \in Nat |-> Later(d)]
<1>1. s \in [Nat -> Nat]
  BY LoginsAssumption DEF Later
<1>2. PICK f \in [Nat -> Nat] : f[0] = LockBase /\ \A n \in Nat : f[n + 1] = s[f[n]]
  <2> HIDE DEF s
  <2>1. LockBase \in Nat
    BY LoginsAssumption
  <2> QED
    BY <1>1, <2>1, Repetition
<1>3. \A n \in Nat : n # 0 => f[n] = Later(f[n - 1])
  <2>1. SUFFICES ASSUME NEW n \in Nat, n # 0 PROVE f[n] = Later(f[n - 1])
    OBVIOUS
  <2>2. n - 1 \in Nat /\ (n - 1) + 1 = n
    BY <2>1
  <2> QED
    BY <1>2, <2>2
<1>4. Eq(f)
  BY <1>2, <1>3 DEF Later
<1>5. Doubled = CHOOSE g : Eq(g)
  BY DEF Doubled
<1>6. Eq(Doubled)
  BY <1>4, <1>5
<1>7. \A n \in Nat : Doubled[n] = IF n = 0 THEN LockBase
                           ELSE IF Doubled[n - 1] >= LockMax \div 2 THEN LockMax ELSE 2 * Doubled[n - 1]
  BY <1>6
<1> HIDE DEF Eq
<1> QED
  BY <1>7 DEF Later

\* The powers of two do.
LEMMA PowerSteps ==
    Power[0] = 1 /\ \A n \in Nat : Power[n + 1] = 2 * Power[n]
<1> DEFINE Eq(g) == g = [n \in Nat |-> IF n = 0 THEN 1 ELSE 2 * g[n - 1]]
           s == [d \in Nat |-> 2 * d]
<1>1. s \in [Nat -> Nat]
  OBVIOUS
<1>2. PICK f \in [Nat -> Nat] : f[0] = 1 /\ \A n \in Nat : f[n + 1] = s[f[n]]
  <2> HIDE DEF s
  <2>1. 1 \in Nat
    OBVIOUS
  <2> QED
    BY <1>1, <2>1, Repetition
<1>3. \A n \in Nat : n # 0 => f[n] = 2 * f[n - 1]
  <2>1. SUFFICES ASSUME NEW n \in Nat, n # 0 PROVE f[n] = 2 * f[n - 1]
    OBVIOUS
  <2>2. n - 1 \in Nat /\ (n - 1) + 1 = n
    BY <2>1
  <2> QED
    BY <1>2, <2>2
<1>4. Eq(f)
  BY <1>2, <1>3
<1>5. Power = CHOOSE g : Eq(g)
  BY DEF Power
<1>6. Eq(Power)
  BY <1>4, <1>5
<1>7. \A n \in Nat : Power[n] = IF n = 0 THEN 1 ELSE 2 * Power[n - 1]
  BY <1>6
<1> HIDE DEF Eq
<1> QED
  BY <1>7

Least(a, b) == IF a < b THEN a ELSE b

\* Up to the maximum, a lock of the loop is the first one doubled n times.
LEMMA DoubledIsPower ==
    ASSUME NEW n \in Nat
    PROVE  /\ Power[n] \in Nat /\ Doubled[n] \in Nat
           /\ Least(Doubled[n], LockMax) = Least(LockBase * Power[n], LockMax)
           /\ Doubled[n] > 0
<1> DEFINE S == {k \in Nat : /\ Power[k] \in Nat /\ Doubled[k] \in Nat
                             /\ Least(Doubled[k], LockMax) = Least(LockBase * Power[k], LockMax)
                             /\ Doubled[k] > 0}
<1>1. 0 \in S
  BY PowerSteps, DoubledSteps, LoginsAssumption
<1>2. ASSUME NEW k \in Nat, k \in S PROVE k + 1 \in S
  <2>1. /\ Power[k + 1] = 2 * Power[k] /\ Doubled[k + 1] = Later(Doubled[k])
        /\ Power[k] \in Nat /\ Doubled[k] \in Nat
        /\ Least(Doubled[k], LockMax) = Least(LockBase * Power[k], LockMax)
        /\ Doubled[k] > 0
    BY <1>2, PowerSteps, DoubledSteps
  <2> DEFINE d == Doubled[k]
             x == LockBase * Power[k]
  <2>2. x \in Nat /\ LockBase * Power[k + 1] = 2 * x
    BY <2>1, LoginsAssumption
  <2> HIDE DEF d, x
  <2>3. \A a, b \in Nat : Least(a, LockMax) = Least(b, LockMax) => Least(Later(a), LockMax) = Least(2 * b, LockMax)
    BY LoginsAssumption DEF Least, Later
  <2>4. Least(Later(d), LockMax) = Least(2 * x, LockMax) /\ Later(d) \in Nat /\ Later(d) > 0
    BY <2>1, <2>2, <2>3, LoginsAssumption DEF d, x, Later
  <2> QED
    BY <2>1, <2>2, <2>4 DEF d
<1> HIDE DEF S
<1>3. Nat \subseteq S
  BY <1>1, <1>2, Induction
<1> QED
  BY <1>3 DEF S

\* loginLockDuration: nothing for the first failures, then twice as long for
\* each one up to the maximum.
LEMMA LockDuration ==
    ASSUME NEW n \in Nat
    PROVE  /\ LoginLockDuration(n) \in Nat
           /\ n <= FreeFailures => LoginLockDuration(n) = 0
           /\ n > FreeFailures =>
                 /\ LoginLockDuration(n) > 0
                 /\ LoginLockDuration(n) = Least(LockBase * Power[n - FreeFailures - 1], LockMax)
<1>1. CASE n <= FreeFailures
  BY <1>1, LoginsAssumption DEF LoginLockDuration
<1>2. CASE n > FreeFailures
  <2> DEFINE k == n - FreeFailures - 1
  <2>1. k \in Nat
    BY <1>2, LoginsAssumption
  <2>2. LoginLockDuration(n) = IF Doubled[k] > LockMax THEN LockMax ELSE Doubled[k]
    BY <1>2, LoginsAssumption DEF LoginLockDuration
  <2>3. /\ Power[k] \in Nat /\ Doubled[k] \in Nat
        /\ Least(Doubled[k], LockMax) = Least(LockBase * Power[k], LockMax)
        /\ Doubled[k] > 0
    BY <2>1, DoubledIsPower
  <2> HIDE DEF k
  <2>4. /\ LoginLockDuration(n) \in Nat /\ LoginLockDuration(n) = Least(Doubled[k], LockMax)
        /\ LoginLockDuration(n) > 0
    BY <2>2, <2>3, LoginsAssumption DEF Least
  <2> QED
    BY <1>2, <2>3, <2>4, LoginsAssumption DEF k
<1> QED
  BY <1>1, <1>2, LoginsAssumption

-----------------------------------------------------------------------------
(* A step of one request, and what the others hold.                        *)

\* Users stay, with their email, and active ones stay active.
UsersKept ==
    \A i \in Ids : users[i] # Absent =>
       /\ users'[i] # Absent /\ users'[i].email = users[i].email
       /\ users[i].status = "active" => users'[i].status = "active"

\* A record in the hands of s is written only if s is told.
Told(s) ==
    LET q == req[s] IN
    /\ s \in stale => s \in stale'
    /\ s \notin stale' =>
          /\ q.pc \in UserWrites \cup {"session"} => users'[q.id] = users[q.id]
          /\ q.pc \in CodeWrites => codes'[<<q.email, q.purpose>>] = codes[<<q.email, q.purpose>>]
          /\ q.pc = "count" => throttle'[q.email] = throttle[q.email]

\* Then s may go on as before.
LEMMA OthersHold ==
    ASSUME NEW s \in Reqs, RequestOK(s), req'[s] = req[s], UsersKept, Told(s)
    PROVE  RequestOK(s)'
<1>1. HoldsUserOK(s)'
  BY DEF RequestOK, HoldsUserOK, Active, UsersKept, Told
<1>2. HoldsCodeOK(s)'
  BY DEF RequestOK, HoldsCodeOK, Told
<1>3. HoldsCountOK(s)'
  BY DEF RequestOK, HoldsCountOK, LockEnd, Told
<1> QED
  BY <1>1, <1>2, <1>3 DEF RequestOK

\* So only the tables and the request itself are left to be looked at.
LEMMA RequestStep ==
    ASSUME IInv, NEW r \in Reqs, NEW q, Continue(r, q), req'[r] = q => RequestOK(r)',
           UsersKept, \A s \in Reqs \ {r} : Told(s),
           DOMAIN req' = Reqs => Typed', EmailsDiffer', SessionsOK', CodesOK', ThrottlesOK',
           UserEditsLostOnlyByRace', ResetRevokesSessions', SSOSessionsMatchBinding'
    PROVE  IInv'
<1>1. /\ DOMAIN req = Reqs /\ DOMAIN req' = Reqs /\ req'[r] = q
      /\ \A s \in Reqs \ {r} : req'[s] = req[s]
  BY DEF IInv, Typed, Continue
<1>2. ASSUME NEW s \in Reqs PROVE RequestOK(s)'
  <2>1. CASE s = r
    BY <1>1, <2>1
  <2>2. CASE s # r
    BY <1>1, <2>2, OthersHold DEF IInv
  <2> QED
    BY <2>1, <2>2
<1> QED
  BY <1>1, <1>2 DEF IInv

\* Nothing is stored: the request reads.
LEMMA ReadingStep ==
    ASSUME IInv, NEW r \in Reqs, NEW q, Continue(r, q), req'[r] = q => RequestOK(r)',
           UNCHANGED <<now, tables, intended, failures, used, wrong, halfway, raced>>,
           calls' \in 0..MaxCalls, stale' \in {stale, stale \ {r}}
    PROVE  IInv'
<1>1. UNCHANGED <<now, users, sessions, throttle, codes, intended, failures, used, wrong, halfway,
                  raced>>
  BY DEF tables
<1>2. UsersKept /\ \A s \in Reqs \ {r} : Told(s)
  BY <1>1 DEF UsersKept, Told
<1>3. DOMAIN req' = Reqs => Typed'
  BY <1>1 DEF IInv, Typed
<1>4. EmailsDiffer' /\ SessionsOK' /\ CodesOK' /\ ThrottlesOK'
  BY <1>1 DEF IInv, EmailsDiffer, SessionsOK, Active, CodesOK, ThrottlesOK, LockEnd
<1>5. UserEditsLostOnlyByRace' /\ ResetRevokesSessions' /\ SSOSessionsMatchBinding'
  BY <1>1 DEF IInv, UserEditsLostOnlyByRace, ResetRevokesSessions, SSOSessionsMatchBinding
<1> QED
  BY <1>2, <1>3, <1>4, <1>5, RequestStep

\* A request that holds no record.
LEMMA PlainRequest ==
    ASSUME NEW r \in Reqs, DOMAIN req'[r] = RequestFields, req'[r].kind \in Kinds,
           req'[r].pc \in Places[req'[r].kind], BodyOK(req'[r]),
           req'[r].pc \notin UserWrites \cup CodeWrites \cup {"session", "load", "count"}
    PROVE  RequestOK(r)'
<1>1. req'[r].pc \in PCs
  BY DEF Places, Kinds, PCs, UserWrites, CodeWrites
<1> QED
  BY <1>1 DEF RequestOK, HoldsUserOK, HoldsCodeOK, HoldsCountOK, UserWrites, CodeWrites

\* A request with a user in its hands.
LEMMA UserRequest ==
    ASSUME NEW r \in Reqs, DOMAIN req'[r] = RequestFields, req'[r].kind \in Kinds,
           req'[r].pc \in Places[req'[r].kind], BodyOK(req'[r]),
           req'[r].pc \in UserWrites \cup {"session", "load"}, HoldsUserOK(r)'
    PROVE  RequestOK(r)'
<1>1. req'[r].pc \in PCs
  BY DEF Places, Kinds, PCs, UserWrites, CodeWrites
<1> QED
  BY <1>1 DEF RequestOK, HoldsCodeOK, HoldsCountOK, UserWrites, CodeWrites

\* An answered request holds nothing.
LEMMA Answered ==
    ASSUME NEW r \in Reqs, req'[r] = Idle
    PROVE  RequestOK(r)'
<1>1. DOMAIN Idle = RequestFields /\ Idle.pc = "idle" /\ Idle.kind = "login"
  BY DEF Idle, RequestFields
<1> QED
  BY <1>1 DEF RequestOK, HoldsUserOK, HoldsCodeOK, HoldsCountOK, UserWrites, CodeWrites, PCs, Kinds

\* A refused request is answered.
LEMMA RefusingStep ==
    ASSUME IInv, NEW r \in Reqs, Answer(r),
           UNCHANGED <<now, tables, calls, intended, failures, used, wrong, halfway, raced>>,
           stale' \in {stale, stale \ {r}}
    PROVE  IInv'
<1>1. calls' \in 0..MaxCalls
  BY DEF IInv, Typed
<1> QED
  BY <1>1, Answered, ReadingStep DEF Answer

\* What is known of a request under way, and what it keeps when it goes on.
LEMMA UnderWay ==
    ASSUME IInv, NEW r \in Reqs, req[r].pc # "idle"
    PROVE  /\ DOMAIN req = Reqs /\ DOMAIN req[r] = RequestFields
           /\ req[r].kind \in Kinds /\ req[r].pc \in Places[req[r].kind] /\ BodyOK(req[r])
           /\ HoldsUserOK(r) /\ HoldsCodeOK(r) /\ HoldsCountOK(r)
  BY DEF IInv, Typed, RequestOK

\* The place of a request tells its kind.
LEMMA KindOf ==
    ASSUME NEW kind \in Kinds, NEW pc \in Places[kind]
    PROVE  /\ pc \in {"lock", "turnstile", "user", "failed", "count", "challenge", "rehash"} =>
                 kind = "login"
           /\ pc \in {"byid", "byemail", "provision", "bind"} => kind = "sso"
           /\ pc \in {"load", "profile"} => kind = "profile"
           /\ pc \in {"asker", "issue"} => kind = "ask"
           /\ pc \in {"code", "owner", "verify", "newpass", "clear"} \cup CodeWrites =>
                 kind = "confirm"
           /\ pc = "session" => kind \in {"login", "sso", "passkey"}
           /\ pc = "unlock" => kind \in {"login", "passkey"}
  BY DEF Kinds, Places, CodeWrites

-----------------------------------------------------------------------------
(* The steps in which a request arrives.                                   *)

\* The table of places, one kind at a time.
LEMMA PlacesOfKinds ==
    /\ Places["login"] = {"lock", "turnstile", "user", "failed", "count", "challenge", "rehash",
                          "session", "unlock"}
    /\ Places["sso"] = {"byid", "byemail", "provision", "bind", "session"}
    /\ Places["passkey"] = {"session", "unlock"} /\ Places["profile"] = {"load", "profile"}
    /\ Places["logout"] = {"revoke"} /\ Places["ask"] = {"asker", "issue"}
    /\ Places["confirm"] = {"code", "owner", "verify", "newpass", "clear", "revoke"} \cup CodeWrites
  BY DEF Places

\* A request that arrives holds nothing but its body, or an active user.
LEMMA ReceiveInv ==
    ASSUME IInv, NEW r \in Reqs, NEW q, Receive(r, q), DOMAIN q = RequestFields, q.kind \in Kinds,
           q.pc \in Places[q.kind], BodyOK(q),
           q.pc \notin UserWrites \cup CodeWrites \cup {"count"},
           q.pc \in {"session", "load"} => Active(q.id),
           q.pc = "session" => q.kind = "passkey"
    PROVE  IInv'
<1>1. /\ Continue(r, q) /\ UNCHANGED <<now, tables, history>>
      /\ calls' \in 0..MaxCalls
  BY LoginsAssumption DEF Receive, IInv, Typed
<1>2. UNCHANGED <<now, tables, intended, failures, used, wrong, halfway, raced, stale, users>>
  BY <1>1 DEF history, tables
<1>3. ASSUME req'[r] = q PROVE RequestOK(r)'
  <2>1. CASE q.pc \in {"session", "load"}
    <3>1. HoldsUserOK(r)'
      BY <1>2, <1>3, <2>1 DEF HoldsUserOK, Active, UserWrites
    <3> QED
      BY <1>3, <2>1, <3>1, UserRequest
  <2>2. CASE q.pc \notin {"session", "load"}
    BY <1>3, <2>2, PlainRequest
  <2> QED
    BY <2>1, <2>2
<1> QED
  BY <1>1, <1>2, <1>3, ReadingStep

\* The requests that Receive takes.
LEMMA RequestsArrive ==
    ASSUME IInv, NEW r \in Reqs,
           \/ ReceiveLogin(r) \/ ReceiveSSO(r) \/ ReceivePasskeyLogin(r) \/ ReceiveProfile(r)
           \/ ReceiveLogoutAll(r) \/ ReceiveCodeRequest(r) \/ ReceiveConfirmation(r)
    PROVE  IInv'
<1>1. \A i \in Ids : users[i] # Absent => users[i].email \in Emails
  BY DEF IInv, Typed, UserRecord
<1>2. CASE ReceiveLogin(r)
  <2>1. PICK e \in Emails, p \in Passwords, t \in {"none", "good", "bad"} :
           Receive(r, [Idle EXCEPT !.pc = "lock", !.email = e, !.pass = p, !.code = t])
    BY <1>2 DEF ReceiveLogin
  <2> DEFINE q == [Idle EXCEPT !.pc = "lock", !.email = e, !.pass = p, !.code = t]
  <2>2. /\ DOMAIN q = RequestFields /\ q.kind = "login" /\ q.pc = "lock" /\ q.email = e
        /\ q.pass = p
    BY DEF Idle, RequestFields
  <2> HIDE DEF q
  <2>3. BodyOK(q) /\ q.kind \in Kinds /\ q.pc \in Places[q.kind]
    BY <2>2, PlacesOfKinds DEF BodyOK, Kinds
  <2> QED
    BY <2>1, <2>2, <2>3, ReceiveInv DEF q, UserWrites, CodeWrites
<1>3. CASE ReceiveSSO(r)
  <2>1. PICK u \in Subjects, e \in Emails :
           Receive(r, [Idle EXCEPT !.kind = "sso", !.pc = "byid", !.id = u, !.email = e])
    BY <1>3 DEF ReceiveSSO
  <2> DEFINE q == [Idle EXCEPT !.kind = "sso", !.pc = "byid", !.id = u, !.email = e]
  <2>2. DOMAIN q = RequestFields /\ q.kind = "sso" /\ q.pc = "byid" /\ q.email = e /\ q.id = u
    BY DEF Idle, RequestFields
  <2> HIDE DEF q
  <2>3. BodyOK(q) /\ q.kind \in Kinds /\ q.pc \in Places[q.kind]
    BY <2>2, PlacesOfKinds DEF BodyOK, Kinds
  <2> QED
    BY <2>1, <2>2, <2>3, ReceiveInv DEF q, UserWrites, CodeWrites
<1>4. CASE ReceivePasskeyLogin(r)
  <2>1. PICK i \in Ids :
           /\ users[i] # Absent /\ users[i].status = "active"
           /\ Receive(r, [Idle EXCEPT !.kind = "passkey", !.pc = "session", !.id = i,
                                      !.email = users[i].email])
    BY <1>4 DEF ReceivePasskeyLogin
  <2> DEFINE q == [Idle EXCEPT !.kind = "passkey", !.pc = "session", !.id = i,
                               !.email = users[i].email]
  <2>2. /\ DOMAIN q = RequestFields /\ q.kind = "passkey" /\ q.pc = "session" /\ q.id = i
        /\ q.email = users[i].email
    BY DEF Idle, RequestFields
  <2> HIDE DEF q
  <2>3. BodyOK(q) /\ q.kind \in Kinds /\ q.pc \in Places[q.kind] /\ Active(q.id)
    BY <1>1, <2>1, <2>2, PlacesOfKinds DEF BodyOK, Kinds, Active
  <2> QED
    BY <2>1, <2>2, <2>3, ReceiveInv DEF q, UserWrites, CodeWrites
<1>5. CASE ReceiveProfile(r)
  <2>1. PICK x \in sessions :
           Receive(r, [Idle EXCEPT !.kind = "profile", !.pc = "load", !.id = x.id])
    BY <1>5 DEF ReceiveProfile
  <2> DEFINE q == [Idle EXCEPT !.kind = "profile", !.pc = "load", !.id = x.id]
  <2>2. DOMAIN q = RequestFields /\ q.kind = "profile" /\ q.pc = "load" /\ q.id = x.id
    BY DEF Idle, RequestFields
  <2> HIDE DEF q
  <2>3. BodyOK(q) /\ q.kind \in Kinds /\ q.pc \in Places[q.kind] /\ Active(q.id)
    BY <2>2, PlacesOfKinds DEF BodyOK, Kinds, IInv, SessionsOK
  <2> QED
    BY <2>1, <2>2, <2>3, ReceiveInv DEF q, UserWrites, CodeWrites
<1>6. CASE ReceiveLogoutAll(r)
  <2>1. PICK x \in sessions :
           Receive(r, [Idle EXCEPT !.kind = "logout", !.pc = "revoke", !.id = x.id])
    BY <1>6 DEF ReceiveLogoutAll
  <2> DEFINE q == [Idle EXCEPT !.kind = "logout", !.pc = "revoke", !.id = x.id]
  <2>2. DOMAIN q = RequestFields /\ q.kind = "logout" /\ q.pc = "revoke"
    BY DEF Idle, RequestFields
  <2> HIDE DEF q
  <2>3. BodyOK(q) /\ q.kind \in Kinds /\ q.pc \in Places[q.kind]
    BY <2>2, PlacesOfKinds DEF BodyOK, Kinds
  <2> QED
    BY <2>1, <2>2, <2>3, ReceiveInv DEF q, UserWrites, CodeWrites
<1>7. CASE ReceiveCodeRequest(r)
  <2>1. PICK e \in Emails, k \in Purposes :
           Receive(r, [Idle EXCEPT !.kind = "ask", !.pc = "asker", !.email = e, !.purpose = k])
    BY <1>7 DEF ReceiveCodeRequest
  <2> DEFINE q == [Idle EXCEPT !.kind = "ask", !.pc = "asker", !.email = e, !.purpose = k]
  <2>2. DOMAIN q = RequestFields /\ q.kind = "ask" /\ q.pc = "asker" /\ q.email = e /\ q.purpose = k
    BY DEF Idle, RequestFields
  <2> HIDE DEF q
  <2>3. BodyOK(q) /\ q.kind \in Kinds /\ q.pc \in Places[q.kind]
    BY <2>2, PlacesOfKinds DEF BodyOK, Kinds
  <2> QED
    BY <2>1, <2>2, <2>3, ReceiveInv DEF q, UserWrites, CodeWrites
<1>8. CASE ReceiveConfirmation(r)
  <2>1. PICK e \in Emails, k \in Purposes, c \in Codes, p \in Passwords :
           Receive(r, [Idle EXCEPT !.kind = "confirm", !.pc = "code", !.email = e, !.pass = p,
                                   !.purpose = k, !.code = c])
    BY <1>8 DEF ReceiveConfirmation
  <2> DEFINE q == [Idle EXCEPT !.kind = "confirm", !.pc = "code", !.email = e, !.pass = p,
                               !.purpose = k, !.code = c]
  <2>2. /\ DOMAIN q = RequestFields /\ q.kind = "confirm" /\ q.pc = "code" /\ q.email = e
        /\ q.purpose = k /\ q.pass = p
    BY DEF Idle, RequestFields
  <2> HIDE DEF q
  <2>3. BodyOK(q) /\ q.kind \in Kinds /\ q.pc \in Places[q.kind]
    BY <2>2, PlacesOfKinds DEF BodyOK, Kinds
  <2> QED
    BY <2>1, <2>2, <2>3, ReceiveInv DEF q, UserWrites, CodeWrites
<1> QED
  BY <1>2, <1>3, <1>4, <1>5, <1>6, <1>7, <1>8

\* A user is added under a free id and a free email: emails stay different,
\* and nobody holds or has a session of the new user.
LEMMA AddedUser ==
    ASSUME IInv, NEW i \in Ids, NEW new \in UserRecord, CreatesUser(i, new.email),
           users' = [users EXCEPT ![i] = new], intended' = [intended EXCEPT ![i] = new],
           UNCHANGED <<sessions, codes, throttle, failures, used, wrong, halfway, raced, stale>>
    PROVE  /\ EmailsDiffer' /\ SessionsOK' /\ CodesOK' /\ ThrottlesOK'
           /\ UserEditsLostOnlyByRace' /\ ResetRevokesSessions' /\ SSOSessionsMatchBinding'
           /\ UsersKept /\ \A s \in Reqs : Told(s)
           /\ users' \in [Ids -> UserRecord \cup {Absent}] /\ DOMAIN intended' = Ids
           /\ users'[i] = new /\ new # Absent
<1>1. /\ Typed /\ EmailsDiffer /\ SessionsOK /\ CodesOK /\ ThrottlesOK /\ UserEditsLostOnlyByRace
      /\ ResetRevokesSessions /\ SSOSessionsMatchBinding /\ \A r \in Reqs : RequestOK(r)
  BY DEF IInv
<1>2. /\ users[i] = Absent /\ \A j \in Ids : users[j] # Absent => users[j].email # new.email
      /\ new # Absent
  BY StartsAssumption DEF CreatesUser, UserByEmail
<1>3. /\ users'[i] = new /\ \A j \in Ids \ {i} : users'[j] = users[j]
      /\ intended'[i] = new /\ \A j \in Ids \ {i} : intended'[j] = intended[j]
      /\ users' \in [Ids -> UserRecord \cup {Absent}] /\ DOMAIN intended' = Ids
  BY <1>1 DEF Typed
<1>4. \A j \in Ids : users[j] # Absent => users'[j] = users[j]
  BY <1>2, <1>3
<1>5. EmailsDiffer'
  BY <1>1, <1>2, <1>3 DEF EmailsDiffer
<1>6. \A s \in sessions : s.id \in Ids /\ users'[s.id] = users[s.id] /\ users[s.id] # Absent
  BY <1>1, <1>4 DEF SessionsOK, Active
<1>7. SessionsOK' /\ ResetRevokesSessions' /\ SSOSessionsMatchBinding'
  BY <1>1, <1>6 DEF SessionsOK, Active, ResetRevokesSessions, SSOSessionsMatchBinding
<1>8. CodesOK' /\ ThrottlesOK'
  BY <1>1 DEF CodesOK, ThrottlesOK, LockEnd
<1>9. UserEditsLostOnlyByRace'
  BY <1>1, <1>3 DEF UserEditsLostOnlyByRace
<1>10. UsersKept
  BY <1>4 DEF UsersKept
<1>11. \A s \in Reqs : Told(s)
  BY <1>1, <1>4 DEF Told, RequestOK, HoldsUserOK, Active
<1> QED
  BY <1>2, <1>3, <1>5, <1>7, <1>8, <1>9, <1>10, <1>11

\* Register is one store call.
LEMMA RegisterInv == ASSUME IInv, NEW r \in Reqs, Register(r) PROVE IInv'
<1>1. PICK i \in Ids \ Subjects, e \in Emails, p \in Passwords :
         LET new == [email |-> e, status |-> IF VerificationRequired THEN "pending" ELSE "active",
                     pass |-> p, old |-> FALSE, subject |-> Absent, base |-> "USD", totp |-> FALSE]
         IN /\ calls < MaxCalls /\ calls' = calls + 1
            /\ CreatesUser(i, e)
            /\ users' = [users EXCEPT ![i] = new]
            /\ intended' = [intended EXCEPT ![i] = new]
            /\ UNCHANGED <<now, sessions, throttle, codes, req, failures, used, wrong, halfway,
                           stale, raced>>
  BY DEF Register
<1> DEFINE new == [email |-> e, status |-> IF VerificationRequired THEN "pending" ELSE "active",
                   pass |-> p, old |-> FALSE, subject |-> Absent, base |-> "USD", totp |-> FALSE]
<1>2. new \in UserRecord /\ new.email = e
  BY DEF UserRecord
<1>3. /\ calls < MaxCalls /\ calls' = calls + 1 /\ CreatesUser(i, e)
      /\ users' = [users EXCEPT ![i] = new] /\ intended' = [intended EXCEPT ![i] = new]
      /\ UNCHANGED <<now, sessions, throttle, codes, req, failures, used, wrong, halfway, stale,
                     raced>>
  BY <1>1
<1> HIDE DEF new
<1>4. calls' \in 0..MaxCalls
  BY <1>3, LoginsAssumption DEF IInv, Typed
<1>5. /\ EmailsDiffer' /\ SessionsOK' /\ CodesOK' /\ ThrottlesOK'
      /\ UserEditsLostOnlyByRace' /\ ResetRevokesSessions' /\ SSOSessionsMatchBinding'
      /\ UsersKept /\ \A s \in Reqs : Told(s)
      /\ users' \in [Ids -> UserRecord \cup {Absent}] /\ DOMAIN intended' = Ids
  BY <1>2, <1>3, AddedUser
<1>6. \A s \in Reqs : RequestOK(s)'
  BY <1>3, <1>5, OthersHold DEF IInv
<1>7. Typed'
  BY <1>3, <1>4, <1>5 DEF IInv, Typed
<1> QED
  BY <1>5, <1>6, <1>7 DEF IInv

\* Logout takes a session away.
LEMMA LogoutInv == ASSUME IInv, NEW r \in Reqs, Logout(r) PROVE IInv'
<1>1. /\ calls' \in 0..MaxCalls /\ sessions' \subseteq sessions
      /\ UNCHANGED <<now, users, throttle, codes, req, history>>
  BY LoginsAssumption DEF Logout, IInv, Typed
<1>2. UNCHANGED <<now, users, throttle, codes, req, intended, failures, used, wrong, halfway, stale,
                  raced>>
  BY <1>1 DEF history
<1>3. UsersKept /\ \A s \in Reqs : Told(s)
  BY <1>2 DEF UsersKept, Told
<1>4. \A s \in Reqs : RequestOK(s)'
  BY <1>2, <1>3, OthersHold DEF IInv
<1>5. Typed' /\ EmailsDiffer' /\ CodesOK' /\ ThrottlesOK' /\ UserEditsLostOnlyByRace'
  BY <1>1, <1>2 DEF IInv, Typed, EmailsDiffer, CodesOK, ThrottlesOK, LockEnd,
                    UserEditsLostOnlyByRace
<1>6. SessionsOK' /\ ResetRevokesSessions' /\ SSOSessionsMatchBinding'
  BY <1>1, <1>2 DEF IInv, SessionsOK, Active, ResetRevokesSessions, SSOSessionsMatchBinding
<1> QED
  BY <1>4, <1>5, <1>6 DEF IInv

-----------------------------------------------------------------------------
(* The steps that read.                                                    *)

\* A request that goes on keeps everything but its place.
LEMMA Proceeded ==
    ASSUME IInv, NEW r \in Reqs, req[r].pc # "idle", NEW pc, req'[r] = [req[r] EXCEPT !.pc = pc]
    PROVE  /\ DOMAIN req'[r] = RequestFields /\ req'[r].pc = pc /\ req'[r].kind = req[r].kind
           /\ req'[r].email = req[r].email /\ req'[r].purpose = req[r].purpose
           /\ req'[r].pass = req[r].pass /\ req'[r].code = req[r].code
           /\ req'[r].id = req[r].id /\ req'[r].copy = req[r].copy
  BY UnderWay DEF RequestFields

\* It may go on to any place of its kind where it holds nothing.
LEMMA PlainStep ==
    ASSUME IInv, NEW r \in Reqs, req[r].pc # "idle", NEW pc \in Places[req[r].kind],
           req'[r] = [req[r] EXCEPT !.pc = pc],
           pc \notin UserWrites \cup CodeWrites \cup {"session", "load", "count", "byid", "byemail"},
           pc = "provision" => req[r].pc = "byemail",
           req[r].pc = "byid" => pc = "byid"
    PROVE  RequestOK(r)'
<1>1. /\ DOMAIN req'[r] = RequestFields /\ req'[r].pc = pc /\ req'[r].kind = req[r].kind
      /\ req'[r].email = req[r].email /\ req'[r].purpose = req[r].purpose
      /\ req'[r].pass = req[r].pass /\ req'[r].code = req[r].code /\ req'[r].id = req[r].id
  BY Proceeded
<1>2. req[r].kind \in Kinds /\ BodyOK(req[r])
  BY UnderWay
<1>3. BodyOK(req'[r])
  BY <1>1, <1>2 DEF BodyOK
<1> QED
  BY <1>1, <1>2, <1>3, PlainRequest

\* rejectLockedLogin
LEMMA RejectLockedLoginInv == ASSUME IInv, NEW r \in Reqs, RejectLockedLogin(r) PROVE IInv'
<1>1. /\ req[r].pc = "lock" /\ calls \in 0..MaxCalls
      /\ UNCHANGED <<now, tables, calls, intended, failures, used, wrong, halfway, stale, raced>>
  BY DEF RejectLockedLogin, Reading, IInv, Typed
<1>2. req[r].kind = "login" /\ "turnstile" \in Places["login"]
  BY <1>1, UnderWay, KindOf, PlacesOfKinds
<1>3. ASSUME Proceed(r, "turnstile") PROVE IInv'
  <2>1. req'[r] = [req[r] EXCEPT !.pc = "turnstile"] => RequestOK(r)'
    BY <1>1, <1>2, PlainStep DEF UserWrites, CodeWrites
  <2> QED
    BY <1>1, <1>3, <2>1, ReadingStep DEF Proceed
<1> QED
  BY <1>1, <1>3, RefusingStep DEF RejectLockedLogin

\* requireLoginTurnstile
LEMMA RequireLoginTurnstileInv == ASSUME IInv, NEW r \in Reqs, RequireLoginTurnstile(r) PROVE IInv'
<1>1. /\ req[r].pc = "turnstile" /\ calls \in 0..MaxCalls
      /\ UNCHANGED <<now, tables, calls, intended, failures, used, wrong, halfway, stale, raced>>
  BY DEF RequireLoginTurnstile, Reading, IInv, Typed
<1>2. req[r].kind = "login" /\ "user" \in Places["login"]
  BY <1>1, UnderWay, KindOf, PlacesOfKinds
<1>3. ASSUME Proceed(r, "user") PROVE IInv'
  <2>1. req'[r] = [req[r] EXCEPT !.pc = "user"] => RequestOK(r)'
    BY <1>1, <1>2, PlainStep DEF UserWrites, CodeWrites
  <2> QED
    BY <1>1, <1>3, <2>1, ReadingStep DEF Proceed
<1> QED
  BY <1>1, <1>3, RefusingStep DEF RequireLoginTurnstile

\* RequestEmailVerification and RequestPasswordReset, first half.
LEMMA ReadRequesterInv == ASSUME IInv, NEW r \in Reqs, ReadRequester(r) PROVE IInv'
<1>1. /\ req[r].pc = "asker" /\ calls \in 0..MaxCalls
      /\ UNCHANGED <<now, tables, calls, intended, failures, used, wrong, halfway, stale, raced>>
  BY DEF ReadRequester, Reading, IInv, Typed
<1>2. req[r].kind = "ask" /\ "issue" \in Places["ask"]
  BY <1>1, UnderWay, KindOf, PlacesOfKinds
<1>3. ASSUME Proceed(r, "issue") PROVE IInv'
  <2>1. req'[r] = [req[r] EXCEPT !.pc = "issue"] => RequestOK(r)'
    BY <1>1, <1>2, PlainStep DEF UserWrites, CodeWrites
  <2> QED
    BY <1>1, <1>3, <2>1, ReadingStep DEF Proceed
<1> QED
  BY <1>1, <1>3, RefusingStep DEF ReadRequester

\* A user that UserByEmail finds.
LEMMA FoundUser ==
    ASSUME IInv, NEW e, NEW i \in UserByEmail(e)
    PROVE  i \in Ids /\ users[i] # Absent /\ users[i] \in UserRecord /\ users[i].email = e
  BY DEF IInv, Typed, UserByEmail

\* Login: a copy is kept of a user that is active and whose password fits.
LEMMA CheckCredentialsInv == ASSUME IInv, NEW r \in Reqs, CheckCredentials(r) PROVE IInv'
<1> DEFINE q == req[r]
           found == UserByEmail(q.email)
           i == CHOOSE x \in found : TRUE
           u == users[i]
           known == [q EXCEPT !.id = i, !.copy = u]
           pc == IF u.old THEN "rehash" ELSE "session"
<1>1. /\ q.pc = "user" /\ calls \in 0..MaxCalls /\ calls' = calls
      /\ UNCHANGED <<now, tables, calls, intended, failures, used, wrong, halfway, raced>>
      /\ stale' = stale \ {r} /\ users' = users
  BY DEF CheckCredentials, tables, IInv, Typed
<1>2. /\ q.kind = "login" /\ DOMAIN q = RequestFields /\ BodyOK(q)
      /\ {"failed", "challenge", "rehash", "session"} \subseteq Places["login"]
  BY <1>1, UnderWay, KindOf, PlacesOfKinds
<1>3. ASSUME NEW next \in {"failed", "challenge"}, Proceed(r, next) PROVE IInv'
  <2>1. req'[r] = [req[r] EXCEPT !.pc = next] => RequestOK(r)'
    BY <1>1, <1>2, PlainStep DEF UserWrites, CodeWrites
  <2> QED
    BY <1>1, <1>3, <2>1, ReadingStep DEF Proceed
<1>4. ASSUME found # {}, u.pass = q.pass, u.status = "active", Continue(r, [known EXCEPT !.pc = pc])
      PROVE  IInv'
  <2>1. i \in found
    BY <1>4
  <2>2. i \in Ids /\ u # Absent /\ u \in UserRecord /\ u.email = q.email
    BY <2>1, FoundUser
  <2>3. pc \in {"rehash", "session"}
    OBVIOUS
  <2> HIDE DEF pc, u, i
  <2>4. ASSUME req'[r] = [known EXCEPT !.pc = pc] PROVE RequestOK(r)'
    <3>1. /\ DOMAIN req'[r] = RequestFields /\ req'[r].pc = pc /\ req'[r].kind = "login"
          /\ req'[r].email = q.email /\ req'[r].pass = q.pass /\ req'[r].id = i /\ req'[r].copy = u
      BY <1>2, <2>4 DEF RequestFields
    <3>2. BodyOK(req'[r]) /\ req'[r].kind \in Kinds /\ req'[r].pc \in Places[req'[r].kind]
      BY <1>2, <2>3, <3>1 DEF BodyOK, Kinds
    <3>3. HoldsUserOK(r)'
      BY <1>1, <1>4, <2>2, <2>3, <3>1 DEF HoldsUserOK, Active, UserWrites, u
    <3> QED
      BY <2>3, <3>1, <3>2, <3>3, UserRequest DEF UserWrites
  <2> QED
    BY <1>1, <1>4, <2>4, ReadingStep DEF pc, u, i
<1>5. ASSUME Answer(r) PROVE IInv'
  BY <1>1, <1>5, RefusingStep
<1> QED
  BY <1>3, <1>4, <1>5 DEF CheckCredentials

\* recordFailedLogin, first half: one more failure than the stored throttle.
LEMMA CountFailedLoginInv == ASSUME IInv, NEW r \in Reqs, CountFailedLogin(r) PROVE IInv'
<1> DEFINE q == req[r]
           n == throttle[q.email].count + 1
           new == [count |-> n, at |-> now, until |-> LockEnd(n, now)]
<1>1. /\ q.pc = "failed" /\ calls \in 0..MaxCalls /\ calls' = calls /\ now \in Nat
      /\ throttle \in [Emails -> Throttle]
      /\ UNCHANGED <<now, tables, calls, intended, failures, used, wrong, halfway, raced>>
      /\ stale' = stale \ {r} /\ throttle' = throttle
      /\ Continue(r, [q EXCEPT !.pc = "count", !.copy = new])
  BY LoginsAssumption DEF CountFailedLogin, LockEnd, tables, IInv, Typed
<1>2. /\ q.kind = "login" /\ DOMAIN q = RequestFields /\ BodyOK(q) /\ q.email \in Emails
      /\ "count" \in Places["login"]
  BY <1>1, UnderWay, KindOf, PlacesOfKinds DEF BodyOK
<1>3. n \in Nat
  BY <1>1, <1>2 DEF Throttle
<1>4. LockEnd(n, now) \in Nat
  BY <1>1, <1>3, LockDuration DEF LockEnd
<1>5. new \in Throttle /\ new.until = LockEnd(new.count, new.at) /\ new.count = n
  BY <1>1, <1>3, <1>4 DEF Throttle
<1> HIDE DEF new, n
<1>6. ASSUME req'[r] = [q EXCEPT !.pc = "count", !.copy = new] PROVE RequestOK(r)'
  <2>1. /\ DOMAIN req'[r] = RequestFields /\ req'[r].pc = "count" /\ req'[r].kind = "login"
        /\ req'[r].email = q.email /\ req'[r].pass = q.pass /\ req'[r].copy = new
    BY <1>2, <1>6 DEF RequestFields
  <2>2. BodyOK(req'[r]) /\ req'[r].kind \in Kinds /\ req'[r].pc \in Places[req'[r].kind]
    BY <1>2, <2>1 DEF BodyOK, Kinds
  <2>3. HoldsCountOK(r)'
    BY <1>1, <1>5, <2>1 DEF HoldsCountOK, LockEnd, n
  <2> QED
    BY <2>1, <2>2, <2>3 DEF RequestOK, HoldsUserOK, HoldsCodeOK, UserWrites, CodeWrites, PCs
<1> QED
  BY <1>1, <1>6, ReadingStep

\* A request that has read a user holds the stored one.
LEMMA TakesUser ==
    ASSUME IInv, NEW r \in Reqs, NEW q, Continue(r, q), DOMAIN q = RequestFields, q.kind \in Kinds,
           q.pc \in Places[q.kind], BodyOK(q), q.pc \in UserWrites \cup {"session"},
           q.id \in Ids, users[q.id] # Absent, q.copy = users[q.id],
           q.pc # "verify" => users[q.id].status = "active",
           q.pc = "bind" => users[q.id].subject = Absent, q.pc # "rehash",
           q.pc = "session" => q.kind = "sso" /\ users[q.id].subject = q.code,
           UNCHANGED <<now, tables, calls, intended, failures, used, wrong, halfway, raced>>,
           stale' = stale \ {r}
    PROVE  IInv'
<1>1. users' = users /\ users[q.id] \in UserRecord /\ calls' \in 0..MaxCalls
  BY DEF tables, IInv, Typed
<1>2. ASSUME req'[r] = q PROVE RequestOK(r)'
  <2>1. HoldsUserOK(r)'
    BY <1>1, <1>2 DEF HoldsUserOK, Active, UserWrites
  <2> QED
    BY <1>2, <2>1, UserRequest
<1> QED
  BY <1>1, <1>2, ReadingStep

\* What createExternalSSOSession makes of a user.
LEMMA SSOSteps ==
    ASSUME NEW u, NEW subject
    PROVE  /\ SSOStep(u, subject) \in {"idle", "bind", "session"}
           /\ SSOStep(u, subject) = "bind" => u.status = "active" /\ u.subject = Absent
           /\ SSOStep(u, subject) = "session" => u.status = "active" /\ u.subject = subject
  BY DEF SSOStep

\* LoginWithExternalSSO looks for the id ...
LEMMA FindByIDInv == ASSUME IInv, NEW r \in Reqs, FindByID(r) PROVE IInv'
<1> DEFINE q == [req[r] EXCEPT !.code = req[r].id]
           pc == SSOStep(users[q.id], q.id)
<1>1. /\ req[r].pc = "byid" /\ calls \in 0..MaxCalls /\ calls' = calls
      /\ UNCHANGED <<now, tables, calls, intended, failures, used, wrong, halfway, raced>>
      /\ stale' = stale \ {r}
  BY DEF FindByID, IInv, Typed
<1>2. /\ req[r].kind = "sso" /\ DOMAIN req[r] = RequestFields /\ req[r].email \in Emails
      /\ req[r].id \in Subjects /\ req[r].id \in Ids
      /\ {"byemail", "bind", "session"} \subseteq Places["sso"]
  BY <1>1, UnderWay, KindOf, PlacesOfKinds, LoginsAssumption DEF BodyOK
<1>3. /\ DOMAIN q = RequestFields /\ q.kind = "sso" /\ q.email = req[r].email /\ q.id = req[r].id
      /\ q.code = req[r].id
  BY <1>2 DEF RequestFields
<1> HIDE DEF q
<1>4. ASSUME Continue(r, [q EXCEPT !.pc = "byemail"]) PROVE IInv'
  <2>1. ASSUME req'[r] = [q EXCEPT !.pc = "byemail"] PROVE RequestOK(r)'
    <3>1. /\ DOMAIN req'[r] = RequestFields /\ req'[r].kind = "sso" /\ req'[r].pc = "byemail"
          /\ req'[r].email = req[r].email /\ req'[r].id = req[r].id /\ req'[r].code = req[r].id
      BY <1>3, <2>1 DEF RequestFields
    <3>2. BodyOK(req'[r]) /\ req'[r].kind \in Kinds /\ req'[r].pc \in Places[req'[r].kind]
      BY <1>2, <3>1 DEF BodyOK, Kinds
    <3> QED
      BY <3>1, <3>2, PlainRequest DEF UserWrites, CodeWrites
  <2> QED
    BY <1>1, <1>4, <2>1, ReadingStep
<1>5. ASSUME users[q.id] # Absent, pc # "idle", Continue(r, [q EXCEPT !.pc = pc, !.copy = users[q.id]])
      PROVE  IInv'
  <2> DEFINE next == [q EXCEPT !.pc = pc, !.copy = users[q.id]]
  <2>1. /\ pc \in {"bind", "session"} /\ users[q.id].status = "active"
        /\ pc = "bind" => users[q.id].subject = Absent
        /\ pc = "session" => users[q.id].subject = q.id
    BY <1>5, SSOSteps
  <2> HIDE DEF pc
  <2>2. /\ DOMAIN next = RequestFields /\ next.kind = "sso" /\ next.pc = pc /\ next.email = q.email
        /\ next.id = q.id /\ next.code = q.code /\ next.copy = users[q.id]
    BY <1>3 DEF RequestFields
  <2>3. Continue(r, next)
    BY <1>5
  <2> HIDE DEF next
  <2>4. BodyOK(next) /\ next.kind \in Kinds /\ next.pc \in Places[next.kind]
    BY <1>2, <1>3, <2>1, <2>2 DEF BodyOK, Kinds
  <2> QED
    BY <1>1, <1>2, <1>3, <1>5, <2>1, <2>2, <2>3, <2>4, TakesUser DEF UserWrites
<1>6. ASSUME Answer(r) PROVE IInv'
  BY <1>1, <1>6, RefusingStep
<1> QED
  BY <1>4, <1>5, <1>6 DEF FindByID, q

\* ... and then for the email.
LEMMA FindByEmailInv == ASSUME IInv, NEW r \in Reqs, FindByEmail(r) PROVE IInv'
<1> DEFINE q == req[r]
           found == UserByEmail(q.email)
           i == CHOOSE x \in found : TRUE
           pc == SSOStep(users[i], q.code)
<1>1. /\ q.pc = "byemail" /\ calls \in 0..MaxCalls /\ calls' = calls
      /\ UNCHANGED <<now, tables, calls, intended, failures, used, wrong, halfway, raced>>
      /\ stale' = stale \ {r}
  BY DEF FindByEmail, IInv, Typed
<1>2. /\ q.kind = "sso" /\ DOMAIN q = RequestFields /\ q.email \in Emails /\ q.code \in Subjects
      /\ {"provision", "bind", "session"} \subseteq Places["sso"]
  BY <1>1, UnderWay, KindOf, PlacesOfKinds DEF BodyOK
<1>3. ASSUME Proceed(r, "provision") PROVE IInv'
  <2>1. req'[r] = [req[r] EXCEPT !.pc = "provision"] => RequestOK(r)'
    BY <1>1, <1>2, PlainStep DEF UserWrites, CodeWrites
  <2> QED
    BY <1>1, <1>3, <2>1, ReadingStep DEF Proceed
<1>4. ASSUME found # {}, pc # "idle", Continue(r, [q EXCEPT !.pc = pc, !.id = i, !.copy = users[i]])
      PROVE  IInv'
  <2> DEFINE next == [q EXCEPT !.pc = pc, !.id = i, !.copy = users[i]]
  <2>1. i \in found
    BY <1>4
  <2>2. i \in Ids /\ users[i] # Absent
    BY <2>1, FoundUser
  <2>3. /\ pc \in {"bind", "session"} /\ users[i].status = "active"
        /\ pc = "bind" => users[i].subject = Absent
        /\ pc = "session" => users[i].subject = q.code
    BY <1>4, SSOSteps
  <2> HIDE DEF pc, i
  <2>4. /\ DOMAIN next = RequestFields /\ next.kind = "sso" /\ next.pc = pc /\ next.email = q.email
        /\ next.id = i /\ next.code = q.code /\ next.copy = users[i]
    BY <1>2 DEF RequestFields
  <2>5. Continue(r, next)
    BY <1>4
  <2> HIDE DEF next
  <2>6. BodyOK(next) /\ next.kind \in Kinds /\ next.pc \in Places[next.kind]
    BY <1>2, <2>3, <2>4 DEF BodyOK, Kinds
  <2> QED
    BY <1>1, <2>2, <2>3, <2>4, <2>5, <2>6, TakesUser DEF UserWrites
<1>5. ASSUME Answer(r) PROVE IInv'
  BY <1>1, <1>5, RefusingStep
<1> QED
  BY <1>3, <1>4, <1>5 DEF FindByEmail, SSOUser

\* UpdateUserProfile, first half.
LEMMA LoadProfileInv == ASSUME IInv, NEW r \in Reqs, LoadProfile(r) PROVE IInv'
<1> DEFINE next == [req[r] EXCEPT !.pc = "profile", !.copy = users[req[r].id]]
<1>1. /\ req[r].pc = "load" /\ Continue(r, next) /\ stale' = stale \ {r}
      /\ UNCHANGED <<now, tables, calls, intended, failures, used, wrong, halfway, raced>>
  BY DEF LoadProfile
<1>2. /\ req[r].kind = "profile" /\ DOMAIN req[r] = RequestFields /\ Active(req[r].id)
      /\ "profile" \in Places["profile"]
  BY <1>1, UnderWay, KindOf, PlacesOfKinds DEF HoldsUserOK
<1>3. /\ DOMAIN next = RequestFields /\ next.kind = "profile" /\ next.pc = "profile"
      /\ next.id = req[r].id /\ next.copy = users[req[r].id]
  BY <1>2 DEF RequestFields
<1> HIDE DEF next
<1>4. BodyOK(next) /\ next.kind \in Kinds /\ next.pc \in Places[next.kind]
  BY <1>2, <1>3 DEF BodyOK, Kinds
<1> QED
  BY <1>1, <1>2, <1>3, <1>4, TakesUser DEF UserWrites, Active

\* ConfirmEmailVerification and ConfirmPasswordReset, the user.
LEMMA LoadOwnerInv == ASSUME IInv, NEW r \in Reqs, LoadOwner(r) PROVE IInv'
<1> DEFINE q == req[r]
           pc == IF q.purpose = "reset" THEN "newpass" ELSE "verify"
<1>1. /\ q.pc = "owner" /\ stale' = stale \ {r}
      /\ UNCHANGED <<now, tables, calls, intended, failures, used, wrong, halfway, raced>>
  BY DEF LoadOwner
<1>2. /\ q.kind = "confirm" /\ DOMAIN q = RequestFields /\ BodyOK(q)
      /\ {"newpass", "verify"} \subseteq Places["confirm"]
  BY <1>1, UnderWay, KindOf, PlacesOfKinds
<1>3. ASSUME NEW i \in UserByEmail(q.email), q.purpose = "reset" => users[i].status = "active",
             Continue(r, [q EXCEPT !.pc = pc, !.id = i, !.copy = users[i]])
      PROVE  IInv'
  <2> DEFINE next == [q EXCEPT !.pc = pc, !.id = i, !.copy = users[i]]
  <2>1. i \in Ids /\ users[i] # Absent
    BY <1>3, FoundUser
  <2>2. pc \in {"newpass", "verify"} /\ (pc # "verify" => users[i].status = "active")
    BY <1>3
  <2> HIDE DEF pc
  <2>3. /\ DOMAIN next = RequestFields /\ next.kind = "confirm" /\ next.pc = pc
        /\ next.email = q.email /\ next.purpose = q.purpose /\ next.pass = q.pass
        /\ next.id = i /\ next.copy = users[i]
    BY <1>2 DEF RequestFields
  <2>4. Continue(r, next)
    BY <1>3
  <2> HIDE DEF next
  <2>5. BodyOK(next) /\ next.kind \in Kinds /\ next.pc \in Places[next.kind]
    BY <1>2, <2>2, <2>3 DEF BodyOK, Kinds
  <2> QED
    BY <1>1, <2>1, <2>2, <2>3, <2>4, <2>5, TakesUser DEF UserWrites
<1>4. ASSUME Answer(r) PROVE IInv'
  BY <1>1, <1>4, RefusingStep
<1> QED
  BY <1>3, <1>4 DEF LoadOwner

\* consumeEmailCode, first half: one more attempt than the stored record.
LEMMA ReadEmailCodeInv == ASSUME IInv, NEW r \in Reqs, ReadEmailCode(r) PROVE IInv'
<1> DEFINE q == req[r]
           k == <<q.email, q.purpose>>
           record == codes[k]
           pc == CodeStep(record, q.code)
           new == [record EXCEPT !.attempts = @ + 1]
<1>1. /\ q.pc = "code" /\ stale' = stale \ {r} /\ calls' \in 0..MaxCalls /\ codes' = codes
      /\ UNCHANGED <<now, tables, calls, intended, failures, used, wrong, halfway, raced>>
      /\ codes \in [Slots -> CodeRecord \cup {Absent}]
  BY DEF ReadEmailCode, IInv, Typed, tables
<1>2. /\ q.kind = "confirm" /\ DOMAIN q = RequestFields /\ BodyOK(q) /\ k \in Slots
      /\ CodeWrites \subseteq Places["confirm"]
  BY <1>1, UnderWay, KindOf, PlacesOfKinds DEF BodyOK, Slots
<1>3. ASSUME record # Absent, Continue(r, [q EXCEPT !.pc = pc, !.copy = new]) PROVE IInv'
  <2>1. record \in CodeRecord
    BY <1>1, <1>2, <1>3
  <2>2. new \in CodeRecord /\ new.attempts = record.attempts + 1
    BY <2>1 DEF CodeRecord
  <2>3. pc \in CodeWrites /\ (pc = "guess" => new.attempts < MaxAttempts)
    <3>1. record.attempts \in Nat /\ MaxAttempts \in Nat
      BY <2>1, LoginsAssumption DEF CodeRecord
    <3> QED
      BY <2>2, <3>1 DEF CodeStep, CodeWrites
  <2> DEFINE copy == new
  <2> HIDE DEF pc, copy
  <2>4. ASSUME req'[r] = [q EXCEPT !.pc = pc, !.copy = copy] PROVE RequestOK(r)'
    <3>1. /\ DOMAIN req'[r] = RequestFields /\ req'[r].pc = pc /\ req'[r].kind = "confirm"
          /\ req'[r].email = q.email /\ req'[r].purpose = q.purpose /\ req'[r].pass = q.pass
          /\ req'[r].copy = copy
      BY <1>2, <2>4 DEF RequestFields
    <3>2. BodyOK(req'[r]) /\ req'[r].kind \in Kinds /\ req'[r].pc \in Places[req'[r].kind]
      BY <1>2, <2>3, <3>1 DEF BodyOK, Kinds, CodeWrites
    <3>3. HoldsCodeOK(r)'
      BY <1>1, <1>3, <2>2, <2>3, <3>1 DEF HoldsCodeOK, copy
    <3> QED
      BY <2>3, <3>1, <3>2, <3>3 DEF RequestOK, HoldsUserOK, HoldsCountOK, UserWrites, CodeWrites, PCs
  <2> QED
    BY <1>1, <1>3, <2>4, ReadingStep DEF pc, copy
<1>4. ASSUME Answer(r) PROVE IInv'
  BY <1>1, <1>4, RefusingStep
<1> QED
  BY <1>3, <1>4 DEF ReadEmailCode

\* A request may end anywhere.
LEMMA GiveUpInv == ASSUME IInv, NEW r \in Reqs, GiveUp(r) PROVE IInv'
  BY RefusingStep DEF GiveUp, history

\* Time passes.
LEMMA TickInv == ASSUME IInv, Tick PROVE IInv'
<1>1. /\ now' \in 0..MaxTime
      /\ UNCHANGED <<users, sessions, throttle, codes, req, calls, intended, failures, used, wrong,
                     halfway, stale, raced>>
  BY LoginsAssumption DEF Tick, tables, history, IInv, Typed
<1>2. Typed' /\ EmailsDiffer' /\ SessionsOK' /\ CodesOK' /\ ThrottlesOK'
  BY <1>1 DEF IInv, Typed, EmailsDiffer, SessionsOK, Active, CodesOK, ThrottlesOK, LockEnd
<1>3. UserEditsLostOnlyByRace' /\ ResetRevokesSessions' /\ SSOSessionsMatchBinding'
  BY <1>1 DEF IInv, UserEditsLostOnlyByRace, ResetRevokesSessions, SSOSessionsMatchBinding
<1>4. \A s \in Reqs : RequestOK(s)'
  <2>1. UsersKept /\ \A s \in Reqs : Told(s)
    BY <1>1 DEF UsersKept, Told
  <2> QED
    BY <1>1, <2>1, OthersHold DEF IInv
<1> QED
  BY <1>2, <1>3, <1>4 DEF IInv

-----------------------------------------------------------------------------
(* The steps that write a throttle.                                        *)

\* A throttle is written with its lock, and counts all failures if it was
\* not raced for; those who hold a copy of it are told.
LEMMA ThrottleWritten ==
    ASSUME IInv, NEW r \in Reqs, NEW q, Continue(r, q), req'[r] = q => RequestOK(r)',
           NEW e \in Emails, NEW t \in Throttle, NEW n \in Nat,
           throttle' = [throttle EXCEPT ![e] = t], failures' = [failures EXCEPT ![e] = n],
           stale' = Overtaken(r, CountHolders(e)), raced' \in {raced, raced \cup {e}, raced \ {e}},
           t.until = LockEnd(t.count, t.at), e \notin raced' => t.count = n,
           UNCHANGED <<now, users, sessions, codes, calls, intended, used, wrong, halfway>>
    PROVE  IInv'
<1>1. /\ Typed /\ EmailsDiffer /\ SessionsOK /\ CodesOK /\ ThrottlesOK /\ UserEditsLostOnlyByRace
      /\ ResetRevokesSessions /\ SSOSessionsMatchBinding
  BY DEF IInv
<1>2. /\ throttle'[e] = t /\ failures'[e] = n
      /\ \A x \in Emails \ {e} : throttle'[x] = throttle[x] /\ failures'[x] = failures[x]
      /\ throttle' \in [Emails -> Throttle] /\ failures' \in [Emails -> Nat]
  BY <1>1 DEF Typed
<1>3. /\ \A x : x # e => (x \in raced <=> x \in raced') /\ e \notin Ids /\ e \notin Codes
  BY LoginsAssumption
<1>4. DOMAIN req' = Reqs => Typed'
  BY <1>1, <1>2 DEF Typed, Overtaken, CountHolders
<1>5. UsersKept /\ \A s \in Reqs \ {r} : Told(s)
  <2>1. UsersKept
    BY DEF UsersKept
  <2>2. ASSUME NEW s \in Reqs \ {r} PROVE Told(s)
    <3>1. s \in stale => s \in stale'
      BY DEF Overtaken
    <3>2. ASSUME s \notin stale', req[s].pc = "count" PROVE throttle'[req[s].email] = throttle[req[s].email]
      <4>1. req[s].email # e
        BY <3>2 DEF Overtaken, CountHolders
      <4>2. req[s].email \in Emails
        BY <3>2, UnderWay, KindOf DEF BodyOK
      <4> QED
        BY <1>2, <4>1, <4>2
    <3> QED
      BY <3>1, <3>2 DEF Told
  <2> QED
    BY <2>1, <2>2
<1>6. EmailsDiffer' /\ SessionsOK'
  BY <1>1 DEF EmailsDiffer, SessionsOK, Active
<1>7. CodesOK'
  <2>1. \A k \in Slots : codes[k] # Absent => codes[k].code \in Codes
    BY <1>1 DEF Typed, CodeRecord
  <2> QED
    BY <1>1, <1>3, <2>1 DEF CodesOK
<1>8. ThrottlesOK'
  BY <1>1, <1>2, <1>3 DEF ThrottlesOK, LockEnd
<1>9. UserEditsLostOnlyByRace'
  BY <1>1, <1>3 DEF UserEditsLostOnlyByRace
<1>10. ResetRevokesSessions' /\ SSOSessionsMatchBinding'
  <2>1. \A s \in sessions : s.id \in Ids
    BY <1>1 DEF SessionsOK, Active
  <2> QED
    BY <1>1, <1>3, <2>1 DEF ResetRevokesSessions, SSOSessionsMatchBinding
<1> QED
  BY <1>4, <1>5, <1>6, <1>7, <1>8, <1>9, <1>10, RequestStep

\* recordFailedLogin, second half.
LEMMA StoreLoginThrottleInv == ASSUME IInv, NEW r \in Reqs, StoreLoginThrottle(r) PROVE IInv'
<1> DEFINE q == req[r]
           e == q.email
<1>1. /\ q.pc = "count" /\ throttle' = [throttle EXCEPT ![e] = q.copy]
      /\ failures' = [failures EXCEPT ![e] = failures[e] + 1]
      /\ stale' = Overtaken(r, CountHolders(e)) /\ raced' = RacedWith(r, e) /\ Answer(r)
      /\ UNCHANGED <<now, users, sessions, codes, calls, intended, used, wrong, halfway>>
  BY DEF StoreLoginThrottle
<1>2. /\ e \in Emails /\ q.copy \in Throttle /\ q.copy.until = LockEnd(q.copy.count, q.copy.at)
      /\ r \notin stale => q.copy.count = throttle[e].count + 1
  BY <1>1, UnderWay, KindOf DEF BodyOK, HoldsCountOK
<1>3. failures[e] + 1 \in Nat /\ (e \notin raced => throttle[e].count = failures[e])
  BY <1>2 DEF IInv, Typed, ThrottlesOK
<1>4. raced' \in {raced, raced \cup {e}, raced \ {e}} /\ (e \notin raced' => e \notin raced /\ r \notin stale)
  BY <1>1 DEF RacedWith
<1>5. Continue(r, Idle) /\ (req'[r] = Idle => RequestOK(r)')
  BY <1>1, Answered DEF Answer
<1> QED
  BY <1>1, <1>2, <1>3, <1>4, <1>5, ThrottleWritten

\* ResetLoginThrottle
LEMMA ResetLoginThrottleInv == ASSUME IInv, NEW r \in Reqs, ResetLoginThrottle(r) PROVE IInv'
<1> DEFINE q == req[r]
           e == q.email
           next == IF q.pc = "clear" THEN [q EXCEPT !.pc = "revoke"] ELSE Idle
<1>1. /\ q.pc \in {"challenge", "unlock", "clear"} /\ throttle' = [throttle EXCEPT ![e] = NoThrottle]
      /\ failures' = [failures EXCEPT ![e] = 0]
      /\ stale' = Overtaken(r, CountHolders(e)) /\ raced' = raced \ {e} /\ Continue(r, next)
      /\ UNCHANGED <<now, users, sessions, codes, calls, intended, used, wrong, halfway>>
  BY DEF ResetLoginThrottle, Proceed, Answer
<1>2. e \in Emails
  BY <1>1, UnderWay, KindOf DEF BodyOK
<1>3. NoThrottle \in Throttle /\ NoThrottle.until = LockEnd(NoThrottle.count, NoThrottle.at)
      /\ NoThrottle.count = 0
  <2>1. LoginLockDuration(0) = 0
    BY LockDuration, LoginsAssumption
  <2> QED
    BY <2>1 DEF NoThrottle, Throttle, LockEnd
<1>4. ASSUME req'[r] = next PROVE RequestOK(r)'
  <2>1. CASE q.pc = "clear"
    <3>1. q.kind = "confirm" /\ "revoke" \in Places["confirm"]
      BY <2>1, UnderWay, KindOf, PlacesOfKinds
    <3> QED
      BY <1>4, <2>1, <3>1, PlainStep DEF UserWrites, CodeWrites
  <2>2. CASE q.pc # "clear"
    BY <1>4, <2>2, Answered
  <2> QED
    BY <2>1, <2>2
<1>5. 0 \in Nat /\ raced' \in {raced, raced \cup {e}, raced \ {e}}
  BY <1>1
<1> HIDE DEF next
<1> QED
  BY <1>1, <1>2, <1>3, <1>4, <1>5, ThrottleWritten

-----------------------------------------------------------------------------
(* The steps that write sessions.                                          *)

\* createSession
LEMMA CreateSessionInv == ASSUME IInv, NEW r \in Reqs, CreateSession(r) PROVE IInv'
<1> DEFINE q == req[r]
           new == [id |-> q.id, expires |-> now + SessionTTL, late |-> r \in stale,
                   pass |-> IF q.kind = "login" THEN q.pass ELSE Absent,
                   subject |-> IF q.kind = "sso" THEN q.code ELSE Absent]
           next == IF q.kind = "sso" THEN Idle ELSE [q EXCEPT !.pc = "unlock"]
<1>1. /\ q.pc = "session" /\ sessions' = sessions \cup {new} /\ Continue(r, next)
      /\ UNCHANGED <<now, users, throttle, codes, calls, intended, failures, used, wrong, halfway,
                     stale, raced>>
  BY DEF CreateSession, Proceed, Answer, history
<1>2. /\ q.kind \in {"login", "sso", "passkey"} /\ BodyOK(q) /\ Active(q.id) /\ HoldsUserOK(r)
  BY <1>1, UnderWay, KindOf DEF HoldsUserOK
<1>3. /\ new.id = q.id /\ new.late = (r \in stale)
      /\ new.pass = IF q.kind = "login" THEN q.pass ELSE Absent
      /\ new.subject = IF q.kind = "sso" THEN q.code ELSE Absent
  OBVIOUS
<1>4. new \in Session
  <2>1. now + SessionTTL \in Nat
    BY LoginsAssumption DEF IInv, Typed
  <2>2. (IF q.kind = "login" THEN q.pass ELSE Absent) \in Passwords \cup {Absent}
    BY <1>2 DEF BodyOK
  <2>3. (IF q.kind = "sso" THEN q.code ELSE Absent) \in Subjects \cup {Absent}
    BY <1>1, <1>2 DEF BodyOK
  <2>4. q.id \in Ids /\ (r \in stale) \in BOOLEAN
    BY <1>2 DEF Active
  <2> QED
    BY <2>1, <2>2, <2>3, <2>4 DEF Session
<1> HIDE DEF new
<1>5. SessionsOK'
  BY <1>1, <1>2, <1>3, <1>4 DEF IInv, SessionsOK, Active
<1>6. ResetRevokesSessions'
  <2>1. new.pass # Absent /\ ~new.late => new.pass = users[new.id].pass
    BY <1>1, <1>2, <1>3 DEF HoldsUserOK
  <2> QED
    BY <1>1, <2>1 DEF IInv, ResetRevokesSessions
<1>7. SSOSessionsMatchBinding'
  <2>1. new.subject # Absent /\ ~new.late => users[new.id].subject = new.subject
    BY <1>1, <1>2, <1>3 DEF HoldsUserOK
  <2> QED
    BY <1>1, <2>1 DEF IInv, SSOSessionsMatchBinding
<1>8. ASSUME req'[r] = next PROVE RequestOK(r)'
  <2>1. CASE q.kind = "sso"
    BY <1>8, <2>1, Answered
  <2>2. CASE q.kind # "sso"
    <3>1. "unlock" \in Places[q.kind]
      BY <1>2, <2>2, PlacesOfKinds
    <3> QED
      BY <1>1, <1>8, <2>2, <3>1, PlainStep DEF UserWrites, CodeWrites
  <2> QED
    BY <2>1, <2>2
<1>9. UsersKept /\ \A s \in Reqs \ {r} : Told(s)
  BY <1>1 DEF UsersKept, Told
<1>10. EmailsDiffer' /\ CodesOK' /\ ThrottlesOK' /\ UserEditsLostOnlyByRace' /\ (DOMAIN req' = Reqs => Typed')
  BY <1>1 DEF IInv, Typed, EmailsDiffer, CodesOK, ThrottlesOK, LockEnd, UserEditsLostOnlyByRace
<1> HIDE DEF next
<1> QED
  BY <1>1, <1>5, <1>6, <1>7, <1>8, <1>9, <1>10, RequestStep

\* DeleteSessionsByUser: what is left belongs to others.
LEMMA RevokeSessionsInv == ASSUME IInv, NEW r \in Reqs, RevokeSessions(r) PROVE IInv'
<1> DEFINE q == req[r]
<1>1. /\ sessions' = {s \in sessions : s.id # q.id} /\ halfway' = halfway \ {q.id}
      /\ Continue(r, Idle)
      /\ UNCHANGED <<now, users, throttle, codes, calls, intended, failures, used, wrong, stale,
                     raced>>
  BY DEF RevokeSessions, Answer
<1>2. SessionsOK' /\ ResetRevokesSessions' /\ SSOSessionsMatchBinding'
  BY <1>1 DEF IInv, SessionsOK, Active, ResetRevokesSessions, SSOSessionsMatchBinding
<1>3. UsersKept /\ \A s \in Reqs \ {r} : Told(s)
  BY <1>1 DEF UsersKept, Told
<1>4. EmailsDiffer' /\ CodesOK' /\ ThrottlesOK' /\ UserEditsLostOnlyByRace' /\ (DOMAIN req' = Reqs => Typed')
  BY <1>1 DEF IInv, Typed, EmailsDiffer, CodesOK, ThrottlesOK, LockEnd, UserEditsLostOnlyByRace
<1> QED
  BY <1>1, <1>2, <1>3, <1>4, Answered, RequestStep

-----------------------------------------------------------------------------
(* The steps that write users.                                             *)

\* LoginWithExternalSSO, a user that was found nowhere.
LEMMA ProvisionInv == ASSUME IInv, NEW r \in Reqs, Provision(r) PROVE IInv'
<1> DEFINE q == req[r]
           new == [email |-> q.email, status |-> "active", pass |-> Absent, old |-> FALSE,
                   subject |-> q.code, base |-> "USD", totp |-> FALSE]
           next == [q EXCEPT !.pc = "session", !.copy = new]
<1>1. /\ q.pc = "provision"
      /\ UNCHANGED <<now, sessions, throttle, codes, calls, failures, used, wrong, halfway, stale,
                     raced>>
  BY DEF Provision
<1>2. /\ q.kind = "sso" /\ DOMAIN q = RequestFields /\ q.email \in Emails /\ q.code \in Subjects
      /\ q.code \in Ids /\ q.id = q.code /\ "session" \in Places["sso"]
  BY <1>1, UnderWay, KindOf, PlacesOfKinds, LoginsAssumption DEF BodyOK
<1>3. ASSUME CreatesUser(q.code, q.email), users' = [users EXCEPT ![q.code] = new],
             intended' = [intended EXCEPT ![q.code] = new], Continue(r, next)
      PROVE  IInv'
  <2>1. /\ new \in UserRecord /\ new.email = q.email /\ new.status = "active"
        /\ new.subject = q.code
    BY <1>2 DEF UserRecord
  <2> HIDE DEF new
  <2>2. /\ EmailsDiffer' /\ SessionsOK' /\ CodesOK' /\ ThrottlesOK'
        /\ UserEditsLostOnlyByRace' /\ ResetRevokesSessions' /\ SSOSessionsMatchBinding'
        /\ UsersKept /\ \A s \in Reqs : Told(s)
        /\ users' \in [Ids -> UserRecord \cup {Absent}] /\ DOMAIN intended' = Ids
        /\ users'[q.code] = new /\ new # Absent
    BY <1>1, <1>2, <1>3, <2>1, AddedUser
  <2>3. DOMAIN req' = Reqs => Typed'
    BY <1>1, <2>2 DEF IInv, Typed
  <2>4. ASSUME req'[r] = next PROVE RequestOK(r)'
    <3>1. /\ DOMAIN req'[r] = RequestFields /\ req'[r].pc = "session" /\ req'[r].kind = "sso"
          /\ req'[r].email = q.email /\ req'[r].id = q.id /\ req'[r].code = q.code
      BY <1>2, <2>4 DEF RequestFields
    <3>2. BodyOK(req'[r]) /\ req'[r].kind \in Kinds /\ req'[r].pc \in Places[req'[r].kind]
      BY <1>2, <3>1 DEF BodyOK, Kinds
    <3>3. HoldsUserOK(r)'
      BY <1>2, <2>1, <2>2, <3>1 DEF HoldsUserOK, Active, UserWrites
    <3> QED
      BY <3>1, <3>2, <3>3, UserRequest
  <2> HIDE DEF next
  <2> QED
    BY <1>3, <2>2, <2>3, <2>4, RequestStep
<1>4. ASSUME Answer(r), UNCHANGED <<users, intended>> PROVE IInv'
  BY <1>1, <1>4, RefusingStep DEF tables
<1> QED
  BY <1>3, <1>4 DEF Provision

\* What a call makes of the user that it holds: an active user of the same
\* email, changed in one respect.
LEMMA ChangedUsers ==
    ASSUME IInv, NEW r \in Reqs, req[r].pc \in UserWrites
    PROVE  LET q == req[r] new == ChangedUser(q, q.copy) IN
           /\ new \in UserRecord /\ new.email = q.copy.email /\ new.status = "active"
           /\ q.pc \in {"bind", "profile", "verify"} => new.pass = q.copy.pass
           /\ q.pc \in {"rehash", "newpass"} => new.pass = q.pass
           /\ q.pc # "bind" => new.subject = q.copy.subject
           /\ q.pc = "bind" => new.subject = q.code
<1> DEFINE q == req[r]
           u == q.copy
<1>1. q.pc # "idle" /\ q.pc \notin {"byid", "byemail"}
  BY DEF UserWrites
<1>2. /\ u \in UserRecord /\ (q.pc # "verify" => u.status = "active")
  BY <1>1, UnderWay DEF HoldsUserOK
<1>3. CASE q.pc \in {"rehash", "newpass"}
  <2>1. q.pass \in Passwords
    BY <1>1, <1>3, UnderWay, KindOf DEF BodyOK
  <2>2. ChangedUser(q, u) = [u EXCEPT !.pass = q.pass, !.old = FALSE]
    BY <1>3 DEF ChangedUser
  <2> QED
    BY <1>2, <1>3, <2>1, <2>2 DEF UserRecord
<1>4. CASE q.pc = "bind"
  <2>1. q.code \in Subjects
    BY <1>1, <1>4, UnderWay, KindOf DEF BodyOK
  <2>2. ChangedUser(q, u) = [u EXCEPT !.subject = q.code]
    BY <1>4 DEF ChangedUser
  <2> QED
    BY <1>2, <1>4, <2>1, <2>2 DEF UserRecord
<1>5. CASE q.pc = "profile"
  <2>1. ChangedUser(q, u) = [u EXCEPT !.base = "CNY"]
    BY <1>5 DEF ChangedUser
  <2> QED
    BY <1>2, <1>5, <2>1 DEF UserRecord
<1>6. CASE q.pc = "verify"
  <2>1. ChangedUser(q, u) = [u EXCEPT !.status = "active"]
    BY <1>6 DEF ChangedUser
  <2> QED
    BY <1>2, <1>6, <2>1 DEF UserRecord
<1> QED
  BY <1>3, <1>4, <1>5, <1>6 DEF UserWrites

\* Where a call goes on.
LEMMA AfterUpdates ==
    ASSUME NEW q, q.pc \in UserWrites
    PROVE  /\ q.pc \in {"rehash", "bind"} => AfterUpdate(q) = "session"
           /\ q.pc = "newpass" => AfterUpdate(q) = "clear"
           /\ q.pc \in {"profile", "verify"} => AfterUpdate(q) = "idle"
  BY DEF AfterUpdate, UserWrites

\* UpdateUser: the record is replaced, those who hold the user are told.
LEMMA UpdateUserInv == ASSUME IInv, NEW r \in Reqs, UpdateUser(r) PROVE IInv'
<1> DEFINE q == req[r]
           i == q.id
           new == ChangedUser(q, q.copy)
           pc == AfterUpdate(q)
           next == IF pc = "idle" THEN Idle ELSE [q EXCEPT !.pc = pc, !.copy = new]
<1>1. /\ q.pc \in UserWrites /\ q.pc # "idle" /\ q.pc \notin {"byid", "byemail", "session", "load"}
      /\ users' = [users EXCEPT ![i] = new]
      /\ intended' = [intended EXCEPT ![i] = ChangedUser(q, intended[i])]
      /\ stale' = Overtaken(r, UserHolders(i)) /\ raced' = RacedWith(r, i)
      /\ halfway' = (IF q.pc = "newpass" THEN halfway \cup {i} ELSE halfway)
      /\ Continue(r, next)
      /\ UNCHANGED <<now, sessions, throttle, codes, calls, failures, used, wrong>>
  BY DEF UpdateUser, Answer, UserWrites
<1>2. /\ q.kind \in Kinds /\ q.pc \in Places[q.kind] /\ DOMAIN q = RequestFields /\ BodyOK(q)
      /\ i \in Ids /\ users[i] # Absent /\ q.copy.email = users[i].email
      /\ r \notin stale => q.copy = users[i]
      /\ q.pc = "bind" => q.copy.subject = Absent
      /\ q.pc = "rehash" => q.copy.pass = q.pass
  BY <1>1, UnderWay DEF HoldsUserOK
<1>3. /\ new \in UserRecord /\ new # Absent /\ new.email = users[i].email /\ new.status = "active"
      /\ q.pc \in {"bind", "profile", "verify"} => new.pass = q.copy.pass
      /\ q.pc \in {"rehash", "newpass"} => new.pass = q.pass
      /\ q.pc # "bind" => new.subject = q.copy.subject
      /\ q.pc = "bind" => new.subject = q.code
  BY <1>1, <1>2, ChangedUsers, StartsAssumption
<1>4. /\ Typed /\ EmailsDiffer /\ SessionsOK /\ CodesOK /\ ThrottlesOK /\ UserEditsLostOnlyByRace
      /\ ResetRevokesSessions /\ SSOSessionsMatchBinding
  BY DEF IInv
<1>5. /\ raced \subseteq raced' /\ (i \notin raced' => i \notin raced /\ r \notin stale)
      /\ \A x : x # i /\ x \notin raced => x \notin raced'
      /\ i \notin Codes /\ i \notin Emails
  BY <1>1, <1>2, LoginsAssumption DEF RacedWith
<1>6. new = ChangedUser(q, q.copy)
  OBVIOUS
<1> HIDE DEF new
<1>7. /\ users'[i] = new /\ \A j \in Ids \ {i} : users'[j] = users[j]
      /\ intended'[i] = ChangedUser(q, intended[i]) /\ \A j \in Ids \ {i} : intended'[j] = intended[j]
      /\ users' \in [Ids -> UserRecord \cup {Absent}] /\ DOMAIN intended' = Ids
  BY <1>1, <1>2, <1>3, <1>4 DEF Typed
<1>8. UsersKept
  BY <1>3, <1>7 DEF UsersKept
<1>9. ASSUME NEW s \in Reqs \ {r} PROVE Told(s)
  <2>1. s \in stale => s \in stale'
    BY <1>1 DEF Overtaken
  <2>2. ASSUME s \notin stale', req[s].pc \in UserWrites \cup {"session"}
        PROVE  users'[req[s].id] = users[req[s].id]
    <3>1. req[s].id # i
      BY <1>1, <2>2 DEF Overtaken, UserHolders
    <3>2. req[s].id \in Ids
      BY <2>2, UnderWay DEF HoldsUserOK, Active, UserWrites
    <3> QED
      BY <1>7, <3>1, <3>2
  <2> QED
    BY <1>1, <2>1, <2>2 DEF Told
<1>10. EmailsDiffer' /\ SessionsOK'
  <2>1. \A j \in Ids : users'[j] # Absent => users[j] # Absent /\ users'[j].email = users[j].email
    BY <1>2, <1>3, <1>7
  <2> QED
    BY <1>1, <1>3, <1>4, <1>7, <2>1 DEF EmailsDiffer, SessionsOK, Active
<1>11. CodesOK' /\ ThrottlesOK'
  BY <1>1, <1>4, <1>5 DEF CodesOK, ThrottlesOK, LockEnd
<1>12. UserEditsLostOnlyByRace'
  <2>1. i \notin raced' => users'[i] = intended'[i]
    BY <1>2, <1>4, <1>5, <1>6, <1>7 DEF UserEditsLostOnlyByRace
  <2> QED
    BY <1>4, <1>5, <1>7, <2>1 DEF UserEditsLostOnlyByRace
<1>13. ResetRevokesSessions'
  <2>1. halfway \subseteq halfway' /\ (q.pc = "newpass" => i \in halfway')
    BY <1>1
  <2>2. i \notin halfway' \cup raced' => new.pass = users[i].pass
    BY <1>1, <1>2, <1>3, <1>5, <2>1 DEF UserWrites
  <2>3. ASSUME NEW s \in sessions', s.pass # Absent, s.pass # users'[s.id].pass
        PROVE  s.late \/ s.id \in halfway' \cup raced'
    <3>1. s \in sessions /\ s.id \in Ids
      BY <1>1, <1>4 DEF SessionsOK, Active
    <3>2. CASE s.id = i
      BY <1>4, <1>5, <1>7, <2>1, <2>2, <2>3, <3>1, <3>2 DEF ResetRevokesSessions
    <3>3. CASE s.id # i
      BY <1>4, <1>5, <1>7, <2>1, <2>3, <3>1, <3>3 DEF ResetRevokesSessions
    <3> QED
      BY <3>2, <3>3
  <2> QED
    BY <2>3 DEF ResetRevokesSessions
<1>14. SSOSessionsMatchBinding'
  <2>1. i \notin raced' => new.subject = users[i].subject \/ users[i].subject = Absent
    BY <1>2, <1>3, <1>5
  <2>2. ASSUME NEW s \in sessions', s.subject # Absent
        PROVE  users'[s.id].subject = s.subject \/ s.late \/ s.id \in raced'
    <3>1. s \in sessions /\ s.id \in Ids
      BY <1>1, <1>4 DEF SessionsOK, Active
    <3>2. CASE s.id = i
      BY <1>4, <1>5, <1>7, <2>1, <2>2, <3>1, <3>2 DEF SSOSessionsMatchBinding
    <3>3. CASE s.id # i
      BY <1>4, <1>5, <1>7, <2>2, <3>1, <3>3 DEF SSOSessionsMatchBinding
    <3> QED
      BY <3>2, <3>3
  <2> QED
    BY <2>2 DEF SSOSessionsMatchBinding
<1>15. DOMAIN req' = Reqs => Typed'
  BY <1>1, <1>4, <1>7 DEF Typed, Overtaken, UserHolders
<1>16. ASSUME req'[r] = next PROVE RequestOK(r)'
  <2>1. CASE q.pc \in {"rehash", "bind"}
    <3>1. pc = "session" /\ "session" \in Places[q.kind]
      BY <1>1, <1>2, <2>1, AfterUpdates, KindOf, PlacesOfKinds
    <3>2. /\ DOMAIN req'[r] = RequestFields /\ req'[r].pc = "session" /\ req'[r].kind = q.kind
          /\ req'[r].email = q.email /\ req'[r].pass = q.pass /\ req'[r].id = i
          /\ req'[r].code = q.code /\ req'[r].purpose = q.purpose
      BY <1>2, <1>16, <3>1 DEF RequestFields
    <3>3. BodyOK(req'[r])
      BY <1>1, <1>2, <3>2 DEF BodyOK
    <3>4. /\ q.pc = "rehash" => q.kind = "login"
          /\ q.pc = "bind" => q.kind = "sso"
      BY <1>2, KindOf
    <3>5. HoldsUserOK(r)'
      BY <1>2, <1>3, <1>7, <2>1, <3>2, <3>4 DEF HoldsUserOK, Active, UserWrites
    <3> QED
      BY <1>2, <3>1, <3>2, <3>3, <3>5, UserRequest
  <2>2. CASE q.pc = "newpass"
    <3>1. pc = "clear" /\ "clear" \in Places[q.kind]
      BY <1>1, <1>2, <2>2, AfterUpdates, KindOf, PlacesOfKinds
    <3>2. /\ DOMAIN req'[r] = RequestFields /\ req'[r].pc = "clear" /\ req'[r].kind = q.kind
          /\ req'[r].email = q.email /\ req'[r].pass = q.pass /\ req'[r].purpose = q.purpose
          /\ req'[r].code = q.code
      BY <1>2, <1>16, <3>1 DEF RequestFields
    <3>3. BodyOK(req'[r])
      BY <1>1, <1>2, <3>2 DEF BodyOK
    <3> QED
      BY <1>2, <3>1, <3>2, <3>3, PlainRequest DEF UserWrites, CodeWrites
  <2>3. CASE q.pc \in {"profile", "verify"}
    <3>1. pc = "idle"
      BY <1>1, <2>3, AfterUpdates
    <3> QED
      BY <1>16, <3>1, Answered
  <2> QED
    BY <1>1, <2>1, <2>2, <2>3 DEF UserWrites
<1> HIDE DEF next
<1> QED
  BY <1>1, <1>8, <1>9, <1>10, <1>11, <1>12, <1>13, <1>14, <1>15, <1>16, RequestStep

-----------------------------------------------------------------------------
(* The steps that write an email code.                                     *)

\* A code is written or deleted; those who hold a copy of it are told.
LEMMA CodeWritten ==
    ASSUME IInv, NEW r \in Reqs, NEW q, Continue(r, q), req'[r] = q => RequestOK(r)',
           NEW k \in Slots, NEW new \in CodeRecord \cup {Absent}, NEW c \in Codes,
           codes' = [codes EXCEPT ![k] = new], stale' = Overtaken(r, CodeHolders(k)),
           raced' \in {raced, raced \cup {c}}, CodesOK',
           used' \in [Codes -> Nat], wrong' \in [Codes -> Nat],
           UNCHANGED <<now, users, sessions, throttle, calls, intended, failures, halfway>>
    PROVE  IInv'
<1>1. /\ Typed /\ EmailsDiffer /\ SessionsOK /\ ThrottlesOK /\ UserEditsLostOnlyByRace
      /\ ResetRevokesSessions /\ SSOSessionsMatchBinding
  BY DEF IInv
<1>2. /\ codes' \in [Slots -> CodeRecord \cup {Absent}] /\ \A m \in Slots \ {k} : codes'[m] = codes[m]
      /\ raced \subseteq raced'
  BY <1>1 DEF Typed
<1>3. DOMAIN req' = Reqs => Typed'
  BY <1>1, <1>2 DEF Typed, Overtaken, CodeHolders
<1>4. UsersKept
  BY DEF UsersKept
<1>5. ASSUME NEW s \in Reqs \ {r} PROVE Told(s)
  <2> DEFINE m == <<req[s].email, req[s].purpose>>
  <2>1. s \in stale => s \in stale'
    BY DEF Overtaken
  <2>2. ASSUME s \notin stale', req[s].pc \in CodeWrites PROVE codes'[m] = codes[m]
    <3>1. m # k
      BY <2>2 DEF Overtaken, CodeHolders
    <3>2. m \in Slots
      <4>1. req[s].pc # "idle"
        BY <2>2 DEF CodeWrites
      <4>2. req[s].kind = "confirm" /\ BodyOK(req[s])
        BY <2>2, <4>1, UnderWay, KindOf
      <4> QED
        BY <4>2 DEF BodyOK, Slots
    <3> QED
      BY <1>2, <3>1, <3>2
  <2> QED
    BY <2>1, <2>2 DEF Told
<1>6. EmailsDiffer' /\ SessionsOK'
  BY <1>1 DEF EmailsDiffer, SessionsOK, Active
<1>7. ThrottlesOK'
  BY <1>1, <1>2 DEF ThrottlesOK, LockEnd
<1>8. UserEditsLostOnlyByRace' /\ ResetRevokesSessions' /\ SSOSessionsMatchBinding'
  BY <1>1, <1>2 DEF UserEditsLostOnlyByRace, ResetRevokesSessions, SSOSessionsMatchBinding
<1> QED
  BY <1>3, <1>4, <1>5, <1>6, <1>7, <1>8, RequestStep

\* createEmailCode draws a code that is new.
LEMMA CreateEmailCodeInv == ASSUME IInv, NEW r \in Reqs, CreateEmailCode(r) PROVE IInv'
<1> DEFINE q == req[r]
           k == <<q.email, q.purpose>>
<1>1. /\ q.pc = "issue" /\ stale' = Overtaken(r, CodeHolders(k)) /\ Continue(r, Idle)
      /\ UNCHANGED <<now, users, sessions, throttle, calls, intended, failures, used, wrong, halfway,
                     raced>>
  BY DEF CreateEmailCode, Answer
<1>2. PICK c \in Codes :
         /\ \A s \in Slots : codes[s] # Absent => codes[s].code # c
         /\ used[c] = 0 /\ wrong[c] = 0 /\ c \notin raced
         /\ codes' = [codes EXCEPT ![k] = [code |-> c, attempts |-> 0, expires |-> now + CodeTTL]]
  BY DEF CreateEmailCode
<1> DEFINE new == [code |-> c, attempts |-> 0, expires |-> now + CodeTTL]
<1>3. k \in Slots
  BY <1>1, UnderWay, KindOf DEF BodyOK, Slots
<1>4. Typed /\ CodesOK
  BY DEF IInv
<1>5. new \in CodeRecord /\ new.code = c /\ new.attempts = 0 /\ new # Absent
  <2>1. now + CodeTTL \in Nat
    BY <1>4, LoginsAssumption DEF Typed
  <2>2. new \in CodeRecord
    BY <2>1 DEF CodeRecord
  <2> QED
    BY <2>2, StartsAssumption
<1>6. codes' = [codes EXCEPT ![k] = new]
  BY <1>2
<1> HIDE DEF new, k
<1>7. codes'[k] = new /\ \A m \in Slots \ {k} : codes'[m] = codes[m]
  BY <1>3, <1>4, <1>6 DEF Typed
<1>8. CodesOK'
  <2>1. 0 < MaxAttempts
    BY LoginsAssumption
  <2>2. \A m \in Slots \ {k} : codes'[m] # Absent => codes'[m].code # c
    BY <1>2, <1>7
  <2>3. \A m \in Slots : codes'[m] # Absent => codes'[m].attempts < MaxAttempts
    BY <1>4, <1>5, <1>7, <2>1 DEF CodesOK
  <2>4. ASSUME NEW m \in Slots, codes'[m] # Absent, codes'[m].code \notin raced'
        PROVE  /\ used'[codes'[m].code] = 0 /\ wrong'[codes'[m].code] = codes'[m].attempts
               /\ \A n \in Slots : codes'[n] # Absent /\ codes'[n].code = codes'[m].code => n = m
    <3>1. CASE m = k
      BY <1>1, <1>2, <1>5, <1>7, <2>2, <3>1
    <3>2. CASE m # k
      <4>1. /\ used[codes[m].code] = 0 /\ wrong[codes[m].code] = codes[m].attempts
            /\ \A n \in Slots : codes[n] # Absent /\ codes[n].code = codes[m].code => n = m
            /\ codes'[m] = codes[m] /\ codes[m].code # c
        BY <1>1, <1>4, <1>7, <2>2, <2>4, <3>2 DEF CodesOK
      <4> QED
        BY <1>1, <1>5, <1>7, <4>1
    <3> QED
      BY <3>1, <3>2
  <2>5. \A x \in Codes \ raced' : used'[x] <= 1
    BY <1>1, <1>4 DEF CodesOK
  <2> QED
    BY <2>3, <2>4, <2>5 DEF CodesOK
<1> QED
  BY <1>1, <1>3, <1>4, <1>5, <1>6, <1>8, Answered, CodeWritten DEF Typed

\* What a request that brings a code back holds.
LEMMA CodeHeld ==
    ASSUME IInv, NEW r \in Reqs, req[r].pc \in CodeWrites
    PROVE  LET q == req[r] k == <<q.email, q.purpose>> IN
           /\ k \in Slots /\ q.copy \in CodeRecord /\ q.copy.code \in Codes
           /\ q.pc = "guess" => q.copy.attempts < MaxAttempts
           /\ r \notin stale => /\ codes[k] # Absent /\ codes[k] \in CodeRecord
                                /\ q.copy.code = codes[k].code
                                /\ q.copy.attempts = codes[k].attempts + 1
           /\ q.kind = "confirm" /\ DOMAIN q = RequestFields /\ BodyOK(q)
<1> DEFINE q == req[r]
           k == <<q.email, q.purpose>>
<1>1. q.pc # "idle"
  BY DEF CodeWrites
<1>2. q.kind = "confirm" /\ DOMAIN q = RequestFields /\ BodyOK(q)
  BY <1>1, UnderWay, KindOf
<1>3. k \in Slots
  BY <1>2 DEF BodyOK, Slots
<1>4. /\ q.copy \in CodeRecord /\ (q.pc = "guess" => q.copy.attempts < MaxAttempts)
      /\ r \notin stale => codes[k] # Absent /\ q.copy = [codes[k] EXCEPT !.attempts = @ + 1]
  BY <1>1, UnderWay DEF HoldsCodeOK
<1>5. codes[k] # Absent => codes[k] \in CodeRecord
  BY <1>3 DEF IInv, Typed
<1>6. q.copy.code \in Codes
  BY <1>4 DEF CodeRecord
<1>7. r \notin stale => q.copy.code = codes[k].code /\ q.copy.attempts = codes[k].attempts + 1
  BY <1>4, <1>5 DEF CodeRecord
<1> QED
  BY <1>2, <1>3, <1>4, <1>5, <1>6, <1>7

\* A wrong guess is stored.
LEMMA StoreGuessInv == ASSUME IInv, NEW r \in Reqs, StoreGuess(r) PROVE IInv'
<1> DEFINE q == req[r]
           k == <<q.email, q.purpose>>
           c == q.copy.code
<1>1. /\ q.pc = "guess" /\ q.pc \in CodeWrites /\ codes' = [codes EXCEPT ![k] = q.copy]
      /\ wrong' = [wrong EXCEPT ![c] = wrong[c] + 1]
      /\ stale' = Overtaken(r, CodeHolders(k)) /\ raced' = RacedWith(r, c) /\ Continue(r, Idle)
      /\ UNCHANGED <<now, users, sessions, throttle, calls, intended, failures, used, halfway>>
  BY DEF StoreGuess, Answer, CodeWrites
<1>2. /\ k \in Slots /\ q.copy \in CodeRecord /\ c \in Codes /\ q.copy.attempts < MaxAttempts
      /\ r \notin stale => /\ codes[k] # Absent /\ codes[k] \in CodeRecord /\ c = codes[k].code
                           /\ q.copy.attempts = codes[k].attempts + 1
      /\ q.copy # Absent
  BY <1>1, CodeHeld, StartsAssumption
<1>3. Typed /\ CodesOK
  BY DEF IInv
<1>4. /\ raced' \in {raced, raced \cup {c}} /\ (c \notin raced' => c \notin raced /\ r \notin stale)
  BY <1>1 DEF RacedWith
<1> HIDE DEF k, c
<1>5. /\ codes'[k] = q.copy /\ \A m \in Slots \ {k} : codes'[m] = codes[m]
      /\ wrong'[c] = wrong[c] + 1 /\ \A x \in Codes \ {c} : wrong'[x] = wrong[x]
      /\ wrong' \in [Codes -> Nat]
  BY <1>1, <1>2, <1>3 DEF Typed
<1>6. CodesOK'
  <2>1. \A m \in Slots : codes'[m] # Absent => codes'[m].attempts < MaxAttempts /\ codes'[m].code \in Codes
    BY <1>2, <1>3, <1>5 DEF CodesOK, Typed, CodeRecord, c
  <2>2. ASSUME NEW m \in Slots, codes'[m] # Absent, codes'[m].code \notin raced'
        PROVE  /\ used'[codes'[m].code] = 0 /\ wrong'[codes'[m].code] = codes'[m].attempts
               /\ \A n \in Slots : codes'[n] # Absent /\ codes'[n].code = codes'[m].code => n = m
    <3>1. CASE codes'[m].code = c
      <4>1. /\ c \notin raced /\ r \notin stale /\ codes[k] # Absent /\ c = codes[k].code
            /\ q.copy.attempts = codes[k].attempts + 1
        BY <1>2, <1>4, <2>2, <3>1
      <4>2. /\ used[c] = 0 /\ wrong[c] = codes[k].attempts
            /\ \A n \in Slots : codes[n] # Absent /\ codes[n].code = c => n = k
        BY <1>2, <1>3, <4>1 DEF CodesOK
      <4>3. \A n \in Slots : codes'[n] # Absent /\ codes'[n].code = c => n = k
        BY <1>5, <4>2
      <4> QED
        BY <1>1, <1>5, <2>2, <3>1, <4>1, <4>2, <4>3
    <3>2. CASE codes'[m].code # c
      <4>1. m # k /\ codes'[m] = codes[m] /\ codes[m].code \notin raced /\ codes[m].code \in Codes
        BY <1>2, <1>4, <1>5, <2>1, <2>2, <3>2 DEF c
      <4>2. /\ used[codes[m].code] = 0 /\ wrong[codes[m].code] = codes[m].attempts
            /\ \A n \in Slots : codes[n] # Absent /\ codes[n].code = codes[m].code => n = m
        BY <1>3, <2>2, <4>1 DEF CodesOK
      <4>3. \A n \in Slots : codes'[n] # Absent /\ codes'[n].code = codes'[m].code => n = m
        BY <1>5, <3>2, <4>1, <4>2 DEF c
      <4> QED
        BY <1>1, <1>5, <3>2, <4>1, <4>2, <4>3
    <3> QED
      BY <3>1, <3>2
  <2>3. \A x \in Codes \ raced' : used'[x] <= 1
    BY <1>1, <1>3, <1>4 DEF CodesOK
  <2> QED
    BY <2>1, <2>2, <2>3 DEF CodesOK
<1>7. used' \in [Codes -> Nat]
  BY <1>1, <1>3 DEF Typed
<1> QED
  BY <1>1, <1>2, <1>4, <1>5, <1>6, <1>7, Answered, CodeWritten

\* An expired, an exhausted or an accepted code is deleted.
LEMMA DeleteEmailCodeInv == ASSUME IInv, NEW r \in Reqs, DeleteEmailCode(r) PROVE IInv'
<1> DEFINE q == req[r]
           k == <<q.email, q.purpose>>
           c == q.copy.code
           next == IF q.pc = "spend" THEN [q EXCEPT !.pc = "owner", !.copy = Absent] ELSE Idle
<1>1. /\ q.pc \in {"expire", "exhaust", "spend"} /\ q.pc \in CodeWrites
      /\ codes' = [codes EXCEPT ![k] = Absent]
      /\ used' = (IF q.pc = "spend" THEN [used EXCEPT ![c] = used[c] + 1] ELSE used)
      /\ wrong' = (IF q.pc = "exhaust" THEN [wrong EXCEPT ![c] = wrong[c] + 1] ELSE wrong)
      /\ stale' = Overtaken(r, CodeHolders(k)) /\ raced' = RacedWith(r, c) /\ Continue(r, next)
      /\ UNCHANGED <<now, users, sessions, throttle, calls, intended, failures, halfway>>
  BY DEF DeleteEmailCode, Answer, CodeWrites
<1>2. /\ k \in Slots /\ c \in Codes
      /\ r \notin stale => codes[k] # Absent /\ c = codes[k].code
      /\ q.kind = "confirm" /\ DOMAIN q = RequestFields /\ BodyOK(q)
  BY <1>1, CodeHeld
<1>3. Typed /\ CodesOK
  BY DEF IInv
<1>4. /\ raced' \in {raced, raced \cup {c}} /\ (c \notin raced' => c \notin raced /\ r \notin stale)
  BY <1>1 DEF RacedWith
<1>5. ASSUME req'[r] = next PROVE RequestOK(r)'
  <2>1. CASE q.pc = "spend"
    <3>1. /\ DOMAIN req'[r] = RequestFields /\ req'[r].pc = "owner" /\ req'[r].kind = "confirm"
          /\ req'[r].email = q.email /\ req'[r].pass = q.pass /\ req'[r].purpose = q.purpose
      BY <1>2, <1>5, <2>1 DEF RequestFields
    <3>2. BodyOK(req'[r]) /\ req'[r].kind \in Kinds /\ req'[r].pc \in Places[req'[r].kind]
      BY <1>2, <3>1, PlacesOfKinds DEF BodyOK, Kinds
    <3> QED
      BY <3>1, <3>2, PlainRequest DEF UserWrites, CodeWrites
  <2>2. CASE q.pc # "spend"
    BY <1>5, <2>2, Answered
  <2> QED
    BY <2>1, <2>2
<1> HIDE DEF k, c, next
<1>6. /\ codes'[k] = Absent /\ \A m \in Slots \ {k} : codes'[m] = codes[m]
      /\ \A x \in Codes \ {c} : wrong'[x] = wrong[x] /\ used'[x] = used[x]
      /\ used'[c] \in {used[c], used[c] + 1}
      /\ wrong' \in [Codes -> Nat] /\ used' \in [Codes -> Nat]
  BY <1>1, <1>2, <1>3 DEF Typed
<1>7. CodesOK'
  <2>1. \A m \in Slots : codes'[m] # Absent => m # k /\ codes'[m] = codes[m] /\ codes[m].code \in Codes
    BY <1>2, <1>3, <1>6 DEF Typed, CodeRecord
  <2>2. c \notin raced' => /\ used[c] = 0
                           /\ \A n \in Slots : codes[n] # Absent /\ codes[n].code = c => n = k
    BY <1>2, <1>3, <1>4 DEF CodesOK
  <2>3. ASSUME NEW m \in Slots, codes'[m] # Absent, codes'[m].code \notin raced'
        PROVE  /\ used'[codes'[m].code] = 0 /\ wrong'[codes'[m].code] = codes'[m].attempts
               /\ \A n \in Slots : codes'[n] # Absent /\ codes'[n].code = codes'[m].code => n = m
    <3>1. codes[m].code # c /\ codes[m].code \notin raced
      BY <1>4, <2>1, <2>2, <2>3
    <3>2. /\ used[codes[m].code] = 0 /\ wrong[codes[m].code] = codes[m].attempts
          /\ \A n \in Slots : codes[n] # Absent /\ codes[n].code = codes[m].code => n = m
      BY <1>3, <2>1, <2>3, <3>1 DEF CodesOK
    <3> QED
      BY <1>6, <2>1, <2>3, <3>1, <3>2
  <2>4. \A m \in Slots : codes'[m] # Absent => codes'[m].attempts < MaxAttempts
    BY <1>3, <2>1 DEF CodesOK
  <2>5. ASSUME NEW x \in Codes \ raced' PROVE used'[x] <= 1
    <3>1. CASE x = c
      BY <1>6, <2>2, <2>5, <3>1
    <3>2. CASE x # c
      BY <1>3, <1>4, <1>6, <2>5, <3>2 DEF CodesOK
    <3> QED
      BY <3>1, <3>2
  <2> QED
    BY <2>3, <2>4, <2>5 DEF CodesOK
<1>8. Absent \in CodeRecord \cup {Absent}
  OBVIOUS
<1> QED
  BY <1>1, <1>2, <1>4, <1>5, <1>6, <1>7, <1>8, CodeWritten

-----------------------------------------------------------------------------
(* The theorems.                                                           *)

\* What the stores hold at start.
LEMMA InitInv == Init => IInv
<1> SUFFICES ASSUME Init PROVE IInv
  OBVIOUS
<1>1. PICK s \in Starts : users = s.users /\ codes = s.codes
  BY DEF Init
<1>2. /\ users \in [Ids -> UserRecord \cup {Absent}] /\ codes \in [Slots -> CodeRecord \cup {Absent}]
      /\ \A i, j \in Ids : users[i] # Absent /\ users[j] # Absent /\ i # j =>
            users[i].email # users[j].email
      /\ \A k \in Slots : codes[k] # Absent => codes[k].attempts = 0
      /\ \A k, m \in Slots : codes[k] # Absent /\ codes[m] # Absent /\ k # m =>
            codes[k].code # codes[m].code
  BY <1>1, StartsAssumption
<1>3. /\ now = 0 /\ calls = 0 /\ sessions = {} /\ throttle = [e \in Emails |-> NoThrottle]
      /\ req = [r \in Reqs |-> Idle] /\ intended = users /\ failures = [e \in Emails |-> 0]
      /\ used = [c \in Codes |-> 0] /\ wrong = [c \in Codes |-> 0] /\ stale = {}
  BY DEF Init
<1>4. NoThrottle \in Throttle /\ NoThrottle.until = LockEnd(NoThrottle.count, NoThrottle.at)
      /\ NoThrottle.count = 0
  <2>1. LoginLockDuration(0) = 0
    BY LockDuration, LoginsAssumption
  <2> QED
    BY <2>1 DEF NoThrottle, Throttle, LockEnd
<1>5. Typed
  BY <1>2, <1>3, <1>4, LoginsAssumption DEF Typed
<1>6. EmailsDiffer
  BY <1>2 DEF EmailsDiffer
<1>7. SessionsOK /\ UserEditsLostOnlyByRace /\ ResetRevokesSessions /\ SSOSessionsMatchBinding
  BY <1>3 DEF SessionsOK, UserEditsLostOnlyByRace, ResetRevokesSessions, SSOSessionsMatchBinding
<1>8. CodesOK
  <2>1. 0 < MaxAttempts
    BY LoginsAssumption
  <2>2. \A k \in Slots : codes[k] # Absent => codes[k].code \in Codes
    BY <1>2 DEF CodeRecord
  <2> QED
    BY <1>2, <1>3, <2>1, <2>2 DEF CodesOK
<1>9. ThrottlesOK
  BY <1>3, <1>4 DEF ThrottlesOK
<1>10. ASSUME NEW r \in Reqs PROVE RequestOK(r)
  <2>1. req[r] = Idle /\ DOMAIN Idle = RequestFields /\ Idle.pc = "idle" /\ Idle.kind = "login"
    BY <1>3 DEF Idle, RequestFields
  <2> QED
    BY <2>1 DEF RequestOK, HoldsUserOK, HoldsCodeOK, HoldsCountOK, UserWrites, CodeWrites, PCs, Kinds
<1> QED
  BY <1>5, <1>6, <1>7, <1>8, <1>9, <1>10 DEF IInv

\* Every step keeps the invariant.
LEMMA NextInv == IInv /\ [Next]_vars => IInv'
<1> SUFFICES ASSUME IInv, [Next]_vars PROVE IInv'
  OBVIOUS
<1>1. CASE Tick
  BY <1>1, TickInv
<1>2. ASSUME NEW r \in Reqs, Arrive(r) PROVE IInv'
  BY <1>2, RequestsArrive, RegisterInv, LogoutInv DEF Arrive
<1>3. ASSUME NEW r \in Reqs, Step(r) PROVE IInv'
  BY <1>3, RejectLockedLoginInv, RequireLoginTurnstileInv, CheckCredentialsInv, CountFailedLoginInv,
     StoreLoginThrottleInv, ResetLoginThrottleInv, CreateSessionInv, FindByIDInv, FindByEmailInv,
     ProvisionInv, LoadProfileInv, UpdateUserInv, RevokeSessionsInv, ReadRequesterInv,
     CreateEmailCodeInv, ReadEmailCodeInv, StoreGuessInv, DeleteEmailCodeInv, LoadOwnerInv DEF Step
<1>4. ASSUME NEW r \in Reqs, GiveUp(r) PROVE IInv'
  BY <1>4, GiveUpInv
<1>5. CASE UNCHANGED vars
  <2>1. UNCHANGED <<now, users, sessions, throttle, codes, req, calls, intended, failures, used, wrong,
                    halfway, stale, raced>>
    BY <1>5 DEF vars, tables, history
  <2>2. Typed' /\ EmailsDiffer' /\ SessionsOK' /\ CodesOK' /\ ThrottlesOK'
    BY <2>1 DEF IInv, Typed, EmailsDiffer, SessionsOK, Active, CodesOK, ThrottlesOK, LockEnd
  <2>3. UserEditsLostOnlyByRace' /\ ResetRevokesSessions' /\ SSOSessionsMatchBinding'
    BY <2>1 DEF IInv, UserEditsLostOnlyByRace, ResetRevokesSessions, SSOSessionsMatchBinding
  <2>4. \A s \in Reqs : RequestOK(s)'
    <3>1. UsersKept /\ \A s \in Reqs : Told(s)
      BY <2>1 DEF UsersKept, Told
    <3> QED
      BY <2>1, <3>1, OthersHold DEF IInv
  <2> QED
    BY <2>2, <2>3, <2>4 DEF IInv
<1> QED
  BY <1>1, <1>2, <1>3, <1>4, <1>5 DEF Next

\* What a request holds of a user, a code or a throttle is what is stored,
\* or the request has been overtaken.
THEOREM LoginsInvariant == Spec => []IInv
<1> QED
  BY InitInv, NextInv, PTL DEF Spec

\* A change of password, profile, status or binding is lost only if it was
\* written over a copy that another change had overtaken (UpdateUser).
THEOREM UserEditsAreKept == Spec => []UserEditsLostOnlyByRace
<1>1. IInv => UserEditsLostOnlyByRace
  BY DEF IInv
<1> QED
  BY <1>1, LoginsInvariant, PTL

\* No interleaving of registrations and SSO logins makes two users of one
\* email (CreateUser).
THEOREM EmailsAreUnique == Spec => []OneUserPerEmail
<1>1. ASSUME IInv PROVE OneUserPerEmail
  <2>1. TypeOK
    BY <1>1 DEF IInv, Typed, SessionsOK, RequestOK, TypeOK
  <2>2. ASSUME NEW e \in Emails PROVE Cardinality(UserByEmail(e)) <= 1
    <3>1. CASE UserByEmail(e) = {}
      BY <3>1, FS_EmptySet
    <3>2. CASE UserByEmail(e) # {}
      <4>1. PICK i : i \in UserByEmail(e)
        BY <3>2
      <4>2. UserByEmail(e) = {i}
        BY <1>1, <4>1 DEF UserByEmail, IInv, EmailsDiffer
      <4> QED
        BY <4>2, FS_Singleton
    <3> QED
      BY <3>1, <3>2
  <2> QED
    BY <2>1, <2>2 DEF OneUserPerEmail
<1> QED
  BY <1>1, LoginsInvariant, PTL

\* The throttle counts the failures, and each one beyond the free ones locks
\* for twice as long as the one before, up to the maximum (recordFailedLogin,
\* loginLockDuration).
THEOREM FailuresLock == Spec => []ThrottleCountsFailures
<1>1. ASSUME IInv PROVE ThrottleCountsFailures
  <2>1. SUFFICES ASSUME NEW e \in Emails \ raced
                 PROVE  LET t == throttle[e] IN
                        /\ t.count = failures[e]
                        /\ IF t.count <= FreeFailures THEN t.until = 0
                           ELSE LET d == LockBase * Power[t.count - FreeFailures - 1] IN
                                t.until = t.at + IF d < LockMax THEN d ELSE LockMax
    BY DEF ThrottleCountsFailures
  <2> DEFINE t == throttle[e]
             d == LockBase * Power[t.count - FreeFailures - 1]
  <2>2. t.count = failures[e] /\ t.until = LockEnd(t.count, t.at) /\ t.count \in Nat /\ t.at \in Nat
    BY <1>1 DEF IInv, Typed, ThrottlesOK, Throttle
  <2>3. CASE t.count <= FreeFailures
    BY <2>2, <2>3, LockDuration DEF LockEnd
  <2>4. CASE ~(t.count <= FreeFailures)
    <3>1. t.count > FreeFailures
      BY <2>2, <2>4, LoginsAssumption
    <3>2. LoginLockDuration(t.count) > 0 /\ LoginLockDuration(t.count) = Least(d, LockMax)
      BY <2>2, <3>1, LockDuration
    <3> HIDE DEF d
    <3>3. t.until = t.at + IF d < LockMax THEN d ELSE LockMax
      BY <2>2, <3>2 DEF LockEnd, Least
    <3> QED
      BY <2>2, <2>4, <3>3 DEF d
  <2> QED
    BY <2>2, <2>3, <2>4
<1> QED
  BY <1>1, LoginsInvariant, PTL

\* An email code is accepted once, and is gone once it has been accepted or
\* guessed at as often as is allowed, unless two confirmations overlapped
\* (consumeEmailCode).
THEOREM CodesAreUsedOnce == Spec => []CodesAreSpent
<1>1. ASSUME IInv PROVE CodesAreSpent
  <2>1. Typed /\ CodesOK /\ MaxAttempts \in Nat
    BY <1>1, LoginsAssumption DEF IInv
  <2>2. ASSUME NEW c \in Codes \ raced, used[c] = 1 \/ wrong[c] >= MaxAttempts, NEW k \in Slots,
               codes[k] # Absent, codes[k].code = c
        PROVE  FALSE
    <3>1. used[c] = 0 /\ wrong[c] = codes[k].attempts /\ codes[k].attempts < MaxAttempts
      BY <2>1, <2>2 DEF CodesOK
    <3>2. codes[k].attempts \in Nat
      BY <2>1, <2>2 DEF Typed, CodeRecord
    <3> QED
      BY <2>1, <2>2, <3>1, <3>2
  <2> QED
    BY <2>1, <2>2 DEF CodesAreSpent, CodesOK
<1> QED
  BY <1>1, LoginsInvariant, PTL

\* After a password reset no session of the old password is left, but for
\* the logins that overlapped it (ConfirmPasswordReset).
THEOREM ResetsRevokeSessions == Spec => []ResetRevokesSessions
<1>1. IInv => ResetRevokesSessions
  BY DEF IInv
<1> QED
  BY <1>1, LoginsInvariant, PTL

\* An SSO session belongs to the user that its subject is bound to
\* (createExternalSSOSession).
THEOREM SSOSessionsAreBound == Spec => []SSOSessionsMatchBinding
<1>1. IInv => SSOSessionsMatchBinding
  BY DEF IInv
<1> QED
  BY <1>1, LoginsInvariant, PTL

\* Nothing removes a user, changes its email or makes an active one pending.
LEMMA UsersAreKept == ASSUME IInv, [Next]_vars PROVE UsersKept
<1>1. CASE users' = users
  BY <1>1 DEF UsersKept
<1>2. ASSUME NEW r \in Reqs, Register(r) PROVE UsersKept
  BY <1>2 DEF Register, CreatesUser, UsersKept, IInv, Typed
<1>3. ASSUME NEW r \in Reqs, Provision(r) PROVE UsersKept
  BY <1>1, <1>3 DEF Provision, CreatesUser, UsersKept, IInv, Typed
<1>4. ASSUME NEW r \in Reqs, UpdateUser(r) PROVE UsersKept
  <2> DEFINE q == req[r]
             new == ChangedUser(q, q.copy)
  <2>1. q.pc \in UserWrites /\ q.pc # "idle" /\ users' = [users EXCEPT ![q.id] = new]
    BY <1>4 DEF UpdateUser, UserWrites
  <2>2. /\ q.copy.email = users[q.id].email /\ new.email = q.copy.email /\ new.status = "active"
        /\ new # Absent
    BY <2>1, UnderWay, ChangedUsers, StartsAssumption DEF HoldsUserOK
  <2> HIDE DEF new
  <2> QED
    BY <2>1, <2>2 DEF UsersKept, IInv, Typed
<1>5. ASSUME NEW r \in Reqs, Arrive(r) PROVE UsersKept
  BY <1>1, <1>2, <1>5 DEF Arrive, ReceiveLogin, ReceiveSSO, ReceivePasskeyLogin, ReceiveProfile,
     ReceiveLogoutAll, ReceiveCodeRequest, ReceiveConfirmation, Receive, Logout, tables
<1>6. ASSUME NEW r \in Reqs, Step(r) PROVE UsersKept
  <2>1. CASE UpdateUser(r) \/ Provision(r)
    BY <1>3, <1>4, <2>1
  <2>2. CASE ~(UpdateUser(r) \/ Provision(r))
    BY <1>1, <1>6, <2>2 DEF Step, RejectLockedLogin, RequireLoginTurnstile, CheckCredentials,
       CountFailedLogin, StoreLoginThrottle, ResetLoginThrottle, CreateSession, FindByID, FindByEmail,
       LoadProfile, RevokeSessions, ReadRequester, CreateEmailCode, ReadEmailCode, StoreGuess,
       DeleteEmailCode, LoadOwner, Reading, tables
  <2> QED
    BY <2>1, <2>2
<1> QED
  BY <1>1, <1>5, <1>6 DEF Next, Tick, GiveUp, vars, tables

\* Whatever is written over whatever, a verified user stays verified
\* (UpdateUser of a whole record).
THEOREM VerificationIsFinal == Spec => VerifiedStaysVerified
<1>1. IInv /\ [Next]_vars =>
         [\A i \in Ids : users[i] # Absent /\ users[i].status = "active" =>
             users'[i].status = "active"]_vars
  BY UsersAreKept DEF UsersKept
<1> QED
  BY <1>1, LoginsInvariant, PTL DEF Spec, VerifiedStaysVerified
=============================================================================
