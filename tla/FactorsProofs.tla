---------------------------- MODULE FactorsProofs ----------------------------
(***************************************************************************)
(* For every number of secrets, browsers, credentials, ceremonies and      *)
(* handlers, and for every setting of the periods and limits: what         *)
(* concurrent verifications of codes, setups, logins with passkeys,        *)
(* renames and deletions do to the factors of a user.                      *)
(*                                                                         *)
(* The inductive invariant says of every request what it may rely on: a    *)
(* copy that it holds is no older than the record, or the history variable *)
(* stale names the request.  Of the tables it says that the marker of a    *)
(* code that was accepted outlives the code, that the failure counter has  *)
(* room for the guesses that have passed the limit, and that a ceremony    *)
(* which has succeeded is gone, or about to be deleted by the one request  *)
(* that has it.                                                            *)
(***************************************************************************)
EXTENDS Factors, FiniteSetTheorems, TLAPS

RequestFields == {"pc", "kind", "browser", "code", "key", "flow", "copy", "count"}

\* Where a request of a kind can be.
Places == [login |-> {"limit", "replay", "mark", "relax", "fail", "count", "session"},
           disable |-> {"limit", "replay", "mark", "relax", "fail", "count", "disable", "revoke"},
           confirm |-> {"pending", "unset", "limit", "enable", "unpend", "relax", "fail", "count"},
           profile |-> {"profile"}, register |-> {"ceremony", "create", "drop"},
           passkey |-> {"ceremony", "assert", "lookup", "touch", "session", "drop"},
           rename |-> {"touch"}]

Verifiers == {"login", "disable", "confirm"}
Answers == {"register", "passkey"}

\* What arrived with it.
ShapeOK(q) ==
    /\ DOMAIN q = RequestFields /\ q.pc \in PCs /\ q.kind \in Kinds /\ q.count \in Nat
    /\ q.pc # "idle" =>
          /\ q.pc \in Places[q.kind]
          /\ q.kind \in Verifiers => q.browser \in Browsers /\ q.code \in TotpCodes
          /\ q.kind \in Answers => q.browser \in Browsers /\ q.flow \in Flows
          /\ q.kind \in Answers \cup {"rename"} => q.key \in Keys
    /\ q.pc = "idle" \/ q.kind \notin Answers => q.flow = Absent
    /\ q.pc = "idle" \/ q.kind \notin Answers \cup {"rename"} => q.key = Absent
    /\ q.kind = "confirm" /\ q.pc \in {"limit", "enable"} => q.copy \in Secrets
    /\ q.pc = "profile" => q.copy \in Secrets \cup {Absent}
    /\ q.pc = "touch" => q.copy \in Passkey

\* The first moment at which the code is too old.
Outdated(c) == (c[2] + Skew + 1) * Period

\* A code that it has found unused, or the counter.
HoldsCodeOK(r) ==
    LET q == req[r] IN
    /\ q.pc = "replay" => q.count <= now
    /\ q.pc = "mark" => /\ q.count >= Outdated(q.code) /\ q.count <= MaxTime + Retention
                        /\ q.code \notin overlapped => accepted[q.code] = 0
    /\ q.pc = "count" => /\ driver = "postgres"
                         /\ r \notin stale => q.count = failed + 1

\* A copy of the user or of a credential.
HoldsCopyOK(r) ==
    LET q == req[r] IN
    /\ q.pc = "profile" /\ r \notin stale /\ "user" \notin raced => q.copy = secret
    /\ q.pc = "lookup" /\ r \notin stale /\ passkeys[q.key] # Absent => q.count >= passkeys[q.key].count
    /\ q.pc = "touch" /\ r \notin stale /\ passkeys[q.key] # Absent => q.copy.count >= passkeys[q.key].count

\* A ceremony.
HoldsFlowOK(r) ==
    LET q == req[r] IN
    q.flow \in Flows =>
       /\ signed[q.flow] # Absent
       /\ q.flow \notin raced /\ q.pc \notin {"ceremony", "drop"} => finished[q.flow] = 0

RequestOK(r) == ShapeOK(req[r]) /\ HoldsCodeOK(r) /\ HoldsCopyOK(r) /\ HoldsFlowOK(r)

\* Two requests past the same check: the history knows.
Apart(r, s) ==
    /\ req[r].pc = "mark" /\ req[s].pc = "mark" /\ req[r].code = req[s].code => req[r].code \in overlapped
    /\ req[r].flow \in Flows /\ req[s].flow = req[r].flow =>
          \/ "ceremony" \in {req[r].pc, req[s].pc}
          \/ req[r].flow \in raced

Typed ==
    /\ driver \in {"memory", "postgres"} /\ now \in 0..MaxTime /\ calls \in 0..MaxCalls
    /\ secret \in Secrets \cup {Absent}
    /\ DOMAIN pending = Browsers /\ \A b \in Browsers : pending[b] \in Setup \cup {Absent}
    /\ marker \in [TotpCodes -> Nat]
    /\ \A c \in TotpCodes : marker[c] <= MaxTime + Retention
    /\ failed \in Nat /\ guesses \in Nat /\ uncounted \in Nat
    /\ sessions \subseteq Browsers
    /\ DOMAIN passkeys = Keys /\ \A k \in Keys : passkeys[k] \in Passkey \cup {Absent}
    /\ DOMAIN flow = Flows /\ \A f \in Flows : flow[f] \in Ceremony \cup {Absent}
    /\ DOMAIN signed = Flows /\ \A f \in Flows : signed[f] \in Answered \cup {Absent}
    /\ DOMAIN req = Reqs
    /\ accepted \in [TotpCodes -> Nat] /\ finished \in [Flows -> Nat]

\* A code was accepted once, and is marked until it is too old.
CodesOK ==
    \A c \in TotpCodes \ overlapped :
       /\ accepted[c] <= 1
       /\ accepted[c] = 1 => marker[c] >= Outdated(c) \/ now >= Outdated(c)

\* The requests that may still count a failure.
Trying == {r \in Reqs : req[r].pc \in {"replay", "fail", "count"}}

CounterOK ==
    "counter" \notin raced => /\ guesses = failed + uncounted
                              /\ failed + Cardinality(Trying) < MaxFailures + Cardinality(Reqs)

UserOK == "user" \notin raced => secret = intended

\* A ceremony that has succeeded is gone, or waits to be deleted.
CeremoniesOK ==
    \A f \in Flows \ raced :
       /\ finished[f] <= 1
       /\ finished[f] = 1 => /\ signed[f] # Absent
                             /\ \/ flow[f] = Absent
                                \/ \E r \in Reqs : req[r].flow = f /\ req[r].pc = "drop"

IInv ==
    /\ Typed /\ CodesOK /\ CounterOK /\ UserOK /\ CeremoniesOK
    /\ \A r \in Reqs : RequestOK(r)
    /\ \A r, s \in Reqs : r # s => Apart(r, s)

-----------------------------------------------------------------------------
(* Periods.                                                                *)

\* A moment lies in the period that it is counted in.
LEMMA PeriodBounds ==
    ASSUME NEW n \in Nat, NEW k \in Int
    PROVE  /\ n \div Period \in Nat
           /\ n \div Period <= k => n < (k + 1) * Period
           /\ n \div Period >= k => n >= k * Period
<1> DEFINE d == n \div Period
<1>1. Period \in Nat /\ Period > 0
  BY FactorsAssumption
<1>2. d \in Nat /\ d * Period <= n /\ n < (d + 1) * Period
  BY <1>1
<1> HIDE DEF d
<1>3. d <= k => (d + 1) * Period <= (k + 1) * Period
  BY <1>1, <1>2
<1>4. d >= k => d * Period >= k * Period
  BY <1>1, <1>2
<1>5. (d + 1) * Period \in Int /\ (k + 1) * Period \in Int /\ d * Period \in Int /\ k * Period \in Int
  BY <1>1, <1>2
<1>6. d <= k => n < (k + 1) * Period
  BY <1>2, <1>3, <1>5
<1>7. d >= k => n >= k * Period
  BY <1>2, <1>4, <1>5
<1> QED
  BY <1>2, <1>6, <1>7 DEF d

\* The marker is kept for the length of all the periods that accept a code.
LEMMA RetentionCovers ==
    /\ Retention \in Nat
    /\ Retention >= Period * (2 * Skew + 1)
    /\ Retention \in {ReplayCache, Period * (2 * Skew + 1)}
<1>1. Period \in Nat /\ Skew \in Nat /\ ReplayCache \in Nat
  BY FactorsAssumption
<1>2. Period * (2 * Skew + 1) \in Nat
  BY <1>1
<1> QED
  BY <1>1, <1>2 DEF Retention

\* Codes are pairs, and become too old at some moment.
LEMMA CodeTypes == \A c \in TotpCodes : c[1] \in Secrets /\ c[2] \in Nat /\ Outdated(c) \in Nat
<1>1. Period \in Nat /\ Period > 0 /\ Skew \in Nat /\ MaxTime \in Nat
  BY FactorsAssumption
<1>2. \A c \in TotpCodes : c[1] \in Secrets /\ c[2] \in Nat
  BY <1>1 DEF TotpCodes, Periods
<1>3. \A k \in Nat : (k + Skew + 1) * Period \in Nat
  BY <1>1
<1> QED
  BY <1>2, <1>3 DEF Outdated

\* A code that is valid now is not too old yet, and a marker set now lasts
\* until it is.
LEMMA ValidWindow ==
    ASSUME NEW n \in Nat, now = n, NEW s, NEW c \in TotpCodes, ValidTOTP(s, c)
    PROVE  now < Outdated(c) /\ now + Retention >= Outdated(c)
<1> DEFINE t == n \div Period
<1>1. Period \in Nat /\ Period > 0 /\ Skew \in Nat
  BY FactorsAssumption
<1>2. t \in Nat
  BY PeriodBounds
<1>3. c[2] \in Nat /\ c[2] \in (t - Skew)..(t + Skew)
  BY CodeTypes DEF ValidTOTP
<1>4. c[2] + Skew \in Int /\ c[2] - Skew \in Int /\ t <= c[2] + Skew /\ t >= c[2] - Skew
  BY <1>1, <1>2, <1>3
<1> HIDE DEF t
<1>5. n < (c[2] + Skew + 1) * Period /\ n >= (c[2] - Skew) * Period
  BY <1>4, PeriodBounds DEF t
<1>6. (c[2] - Skew) * Period + Period * (2 * Skew + 1) = (c[2] + Skew + 1) * Period
  BY <1>1, <1>3
<1>7. /\ (c[2] - Skew) * Period \in Int /\ Period * (2 * Skew + 1) \in Int
      /\ (c[2] + Skew + 1) * Period \in Int
  BY <1>1, <1>3
<1>8. n + Retention >= (c[2] + Skew + 1) * Period
  BY <1>5, <1>6, <1>7, RetentionCovers
<1> QED
  BY <1>5, <1>8 DEF Outdated


-----------------------------------------------------------------------------
(* A step of one request, and what the others rely on.                     *)

\* p is q further on.
Follows(p, q) ==
    /\ DOMAIN p = RequestFields
    /\ p.kind = q.kind /\ p.browser = q.browser /\ p.code = q.code
    /\ p.key = q.key /\ p.flow = q.flow

\* A request that only goes on keeps what it holds.
LEMMA MovesOn ==
    ASSUME NEW q, DOMAIN q = RequestFields, NEW pc, NEW p, p = [q EXCEPT !.pc = pc]
    PROVE  Follows(p, q) /\ p.pc = pc /\ p.copy = q.copy /\ p.count = q.count
  BY DEF Follows, RequestFields

\* It stays the request that it was.
LEMMA MovedShape ==
    ASSUME NEW q, ShapeOK(q), q.pc # "idle",
           NEW p, Follows(p, q), p.pc \in Places[q.kind], p.pc \in PCs, p.pc # "idle", p.count \in Nat,
           q.kind = "confirm" /\ p.pc \in {"limit", "enable"} => p.copy \in Secrets,
           p.pc = "profile" => p.copy \in Secrets \cup {Absent},
           p.pc = "touch" => p.copy \in Passkey
    PROVE  ShapeOK(p)
  BY DEF ShapeOK, Follows

\* A slot that serves nothing holds nothing.
LEMMA IdleShape ==
    /\ ShapeOK(Idle) /\ Idle.pc = "idle" /\ Idle.flow = Absent
<1>1. Absent \notin Flows /\ Absent \notin Keys
  BY FactorsAssumption
<1> QED
  BY <1>1 DEF ShapeOK, Idle, RequestFields, PCs, Kinds

Late == {"replay", "fail", "count"}

\* What history records is never forgotten, except for the lost increments
\* that a reset of the counter makes good.
Grows ==
    /\ driver' = driver /\ now \in Int /\ now' \in Int /\ now' >= now
    /\ overlapped \subseteq overlapped' /\ raced \ {"counter"} \subseteq raced'
    /\ \A f \in Flows : signed[f] # Absent => signed'[f] # Absent

\* What s relies on is written only if the history says so.
Told(s) ==
    LET q == req[s] IN
    /\ s \in stale => s \in stale'
    /\ s \notin stale' =>
          /\ q.pc = "count" => failed' = failed
          /\ q.pc = "profile" /\ "user" \notin raced' => secret' = secret
          /\ q.pc \in {"lookup", "touch"} => passkeys'[q.key] \in {passkeys[q.key], Absent}
    /\ q.pc = "mark" /\ q.code \notin overlapped' => accepted'[q.code] = accepted[q.code]
    /\ q.flow \in Flows /\ q.pc # "ceremony" /\ q.flow \notin raced' => finished'[q.flow] = finished[q.flow]

\* Then s may go on as before.
LEMMA OthersHold ==
    ASSUME NEW s \in Reqs, RequestOK(s), req'[s] = req[s], Grows, Told(s)
    PROVE  RequestOK(s)'
<1>0. "counter" \notin Flows /\ "counter" # "user"
  BY FactorsAssumption
<1>1. ShapeOK(req'[s]) /\ ShapeOK(req[s])
  BY DEF RequestOK
<1>2. HoldsCodeOK(s)'
  <2>1. req[s].count \in Nat
    BY <1>1 DEF ShapeOK
  <2> QED
    BY <2>1 DEF RequestOK, HoldsCodeOK, Outdated, Retention, Grows, Told
<1>3. HoldsCopyOK(s)'
  BY <1>0 DEF RequestOK, HoldsCopyOK, Grows, Told
<1>4. HoldsFlowOK(s)'
  BY <1>0 DEF RequestOK, HoldsFlowOK, Grows, Told
<1>5. ShapeOK(req[s])'
  BY <1>1 DEF ShapeOK
<1> QED
  BY <1>2, <1>3, <1>4, <1>5 DEF RequestOK

\* No other request is past the check that q has passed, or history knows.
Separate(r, q) ==
    /\ q.pc = "mark" =>
          \A s \in Reqs \ {r} : req[s].pc = "mark" /\ req[s].code = q.code => q.code \in overlapped'
    /\ q.flow \in Flows =>
          \/ q.pc = "ceremony"
          \/ q.flow = req[r].flow /\ req[r].pc # "ceremony"
          \/ \A s \in Reqs \ {r} : req[s].flow = q.flow => q.flow \in raced'

\* The request that moves stays apart from each other one.
LEMMA StayApart ==
    ASSUME NEW r \in Reqs, NEW q, NEW s \in Reqs, r # s, Apart(r, s), Grows, Separate(r, q),
           req'[r] = q, req'[s] = req[s]
    PROVE  Apart(r, s)' /\ Apart(s, r)'
<1>0. "counter" \notin Flows
  BY FactorsAssumption
<1>1. Apart(r, s)'
  BY <1>0 DEF Apart, Grows, Separate
<1> QED
  BY <1>1 DEF Apart

\* Those that do not move stay apart from one another.
LEMMA OthersApart ==
    ASSUME NEW s, NEW t, Apart(s, t), Grows, req'[s] = req[s], req'[t] = req[t]
    PROVE  Apart(s, t)'
<1>0. "counter" \notin Flows
  BY FactorsAssumption
<1> QED
  BY <1>0 DEF Apart, Grows

\* So only the tables and the request itself are left to be looked at.
LEMMA RequestStep ==
    ASSUME IInv, NEW r \in Reqs, NEW q, Continue(r, q), ShapeOK(q), Separate(r, q), Grows,
           req'[r] = q => HoldsCodeOK(r)' /\ HoldsCopyOK(r)' /\ HoldsFlowOK(r)',
           \A s \in Reqs \ {r} : Told(s),
           DOMAIN req' = Reqs => Typed', CodesOK', CounterOK', UserOK', CeremoniesOK'
    PROVE  IInv'
<1>1. /\ DOMAIN req = Reqs /\ DOMAIN req' = Reqs /\ req'[r] = q
      /\ \A s \in Reqs \ {r} : req'[s] = req[s]
  BY DEF IInv, Typed, Continue
<1>2. ASSUME NEW s \in Reqs PROVE RequestOK(s)'
  <2>1. CASE s = r
    <3>1. ShapeOK(req'[r])
      BY <1>1
    <3>2. ShapeOK(req[r])'
      BY <3>1 DEF ShapeOK
    <3> QED
      BY <1>1, <2>1, <3>2 DEF RequestOK
  <2>2. CASE s # r
    BY <1>1, <2>2, OthersHold DEF IInv
  <2> QED
    BY <2>1, <2>2
<1>3. ASSUME NEW s \in Reqs, NEW t \in Reqs, s # t PROVE Apart(s, t)'
  <2>1. Apart(s, t) /\ Apart(t, s)
    BY <1>3 DEF IInv
  <2>2. CASE s = r
    BY <1>1, <1>3, <2>1, <2>2, StayApart
  <2>3. CASE t = r
    BY <1>1, <1>3, <2>1, <2>3, StayApart
  <2>4. CASE s # r /\ t # r
    BY <1>1, <2>1, <2>4, OthersApart
  <2> QED
    BY <2>2, <2>3, <2>4
<1> QED
  BY <1>1, <1>2, <1>3 DEF IInv


-----------------------------------------------------------------------------
(* The counter, and the ceremonies.                                        *)

\* The requests that may still count a failure are finitely many.
LEMMA TryingFinite ==
    ASSUME DOMAIN req = Reqs
    PROVE  /\ IsFiniteSet(Trying) /\ Cardinality(Trying) \in Nat /\ Cardinality(Reqs) \in Nat
           /\ Cardinality(Trying) <= Cardinality(Reqs)
<1>1. IsFiniteSet(Reqs) /\ Trying \subseteq Reqs
  BY FactorsAssumption DEF Trying
<1>2. IsFiniteSet(Trying) /\ Cardinality(Trying) <= Cardinality(Reqs)
  BY <1>1, FS_Subset
<1> QED
  BY <1>1, <1>2, FS_CardinalityType

\* One request moves: it stays among them, leaves them or joins them.
LEMMA TryingMoves ==
    ASSUME DOMAIN req = Reqs, NEW r \in Reqs, NEW q, Continue(r, q)
    PROVE  /\ q.pc \notin Late => Trying' = Trying \ {r}
           /\ q.pc \in Late => Trying' = Trying \cup {r}
           /\ Cardinality(Trying') \in Nat /\ Cardinality(Trying') <= Cardinality(Reqs)
<1>1. /\ DOMAIN req' = Reqs /\ req'[r] = q /\ \A s \in Reqs \ {r} : req'[s] = req[s]
  BY DEF Continue
<1>2. q.pc \notin Late => Trying' = Trying \ {r}
  BY <1>1 DEF Trying, Late
<1>3. q.pc \in Late => Trying' = Trying \cup {r}
  BY <1>1 DEF Trying, Late
<1>4. IsFiniteSet(Reqs) /\ Trying' \subseteq Reqs
  BY FactorsAssumption DEF Trying
<1>5. IsFiniteSet(Trying') /\ Cardinality(Trying') <= Cardinality(Reqs)
  BY <1>4, FS_Subset
<1> QED
  BY <1>2, <1>3, <1>5, FS_CardinalityType

\* No failure is counted; one may be left out.
Accounted == \/ UNCHANGED <<guesses, uncounted>>
             \/ guesses' = guesses + 1 /\ uncounted' = uncounted + 1

\* Only a request that finds the counter below the limit comes to try.
LEMMA CounterKept ==
    ASSUME IInv, NEW r \in Reqs, NEW q, Continue(r, q), UNCHANGED failed,
           Accounted, "counter" \in raced => "counter" \in raced',
           q.pc \in Late => req[r].pc \in Late \/ failed < MaxFailures
    PROVE  CounterOK'
<1>1. SUFFICES ASSUME "counter" \notin raced'
               PROVE  guesses' = failed + uncounted' /\ failed + Cardinality(Trying') < MaxFailures + Cardinality(Reqs)
  BY DEF CounterOK
<1>2. /\ failed \in Nat /\ MaxFailures \in Nat
      /\ failed + Cardinality(Trying) < MaxFailures + Cardinality(Reqs)
  BY <1>1, FactorsAssumption DEF IInv, CounterOK, Typed
<1>8. guesses' = failed + uncounted'
  BY <1>1 DEF Accounted, IInv, CounterOK, Typed
<1>3. DOMAIN req = Reqs
  BY DEF IInv, Typed
<1>4. /\ IsFiniteSet(Trying) /\ Cardinality(Trying) \in Nat /\ Cardinality(Reqs) \in Nat
      /\ Cardinality(Trying') \in Nat /\ Cardinality(Trying') <= Cardinality(Reqs)
  BY <1>3, TryingFinite, TryingMoves
<1>5. CASE q.pc \notin Late
  <2>1. Trying' \subseteq Trying
    BY <1>3, <1>5, TryingMoves
  <2>2. Cardinality(Trying') <= Cardinality(Trying)
    BY <1>4, <2>1, FS_Subset
  <2> QED
    BY <1>2, <1>8, <1>4, <2>2
<1>6. CASE q.pc \in Late /\ req[r].pc \in Late
  <2>1. r \in Trying
    BY <1>6 DEF Trying, Late
  <2>2. Trying' = Trying
    BY <1>3, <1>6, <2>1, TryingMoves
  <2> QED
    BY <1>2, <1>8, <2>2
<1>7. CASE failed < MaxFailures
  BY <1>2, <1>8, <1>4, <1>7
<1> QED
  BY <1>5, <1>6, <1>7, <1>8

\* A failure that is counted was one of those expected.
LEMMA CounterSpent ==
    ASSUME IInv, NEW r \in Reqs, NEW q, Continue(r, q), q.pc \notin Late, req[r].pc \in Late,
           "counter" \in raced => "counter" \in raced',
           "counter" \notin raced' => failed' = failed + 1, guesses' = guesses + 1, UNCHANGED uncounted
    PROVE  CounterOK'
<1>1. SUFFICES ASSUME "counter" \notin raced'
               PROVE  guesses' = failed' + uncounted' /\ failed' + Cardinality(Trying') < MaxFailures + Cardinality(Reqs)
  BY DEF CounterOK
<1>2. /\ guesses = failed + uncounted /\ failed \in Nat /\ uncounted \in Nat /\ MaxFailures \in Nat
      /\ failed + Cardinality(Trying) < MaxFailures + Cardinality(Reqs)
  BY <1>1, FactorsAssumption DEF IInv, CounterOK, Typed
<1>3. DOMAIN req = Reqs
  BY DEF IInv, Typed
<1>4. IsFiniteSet(Trying) /\ Cardinality(Trying) \in Nat /\ Cardinality(Reqs) \in Nat
  BY <1>3, TryingFinite
<1>5. r \in Trying /\ Trying' = Trying \ {r}
  BY <1>3, TryingMoves DEF Trying, Late
<1>6. Cardinality(Trying') = Cardinality(Trying) - 1
  BY <1>4, <1>5, FS_RemoveElement
<1> QED
  BY <1>1, <1>2, <1>4, <1>6

\* No ceremony succeeds, and none that is to be deleted loses its request.
LEMMA CeremoniesKept ==
    ASSUME IInv, NEW r \in Reqs, NEW q, Continue(r, q), Grows, UNCHANGED <<finished, flow>>,
           req[r].pc = "drop" => req[r].flow \in raced'
    PROVE  CeremoniesOK'
<1>0. "counter" \notin Flows
  BY FactorsAssumption
<1>1. DOMAIN req = Reqs /\ \A s \in Reqs \ {r} : req'[s] = req[s]
  BY DEF IInv, Typed, Continue
<1>2. SUFFICES ASSUME NEW f \in Flows \ raced'
               PROVE  /\ finished[f] <= 1
                      /\ finished[f] = 1 => /\ signed'[f] # Absent
                                            /\ \/ flow[f] = Absent
                                               \/ \E s \in Reqs : req'[s].flow = f /\ req'[s].pc = "drop"
  BY DEF CeremoniesOK
<1>3. f \notin raced
  BY <1>0, <1>2 DEF Grows
<1>4. finished[f] <= 1
  BY <1>3 DEF IInv, CeremoniesOK
<1>5. ASSUME finished[f] = 1, flow[f] # Absent
      PROVE  \E s \in Reqs : req'[s].flow = f /\ req'[s].pc = "drop"
  <2>1. PICK s \in Reqs : req[s].flow = f /\ req[s].pc = "drop"
    BY <1>3, <1>5 DEF IInv, CeremoniesOK
  <2>2. s # r
    BY <1>2, <2>1
  <2> QED
    BY <1>1, <2>1, <2>2
<1>6. finished[f] = 1 => signed'[f] # Absent
  BY <1>3 DEF IInv, CeremoniesOK, Grows
<1> QED
  BY <1>4, <1>5, <1>6

\* A step that writes no table and moves one request.
LEMMA QuietStep ==
    ASSUME IInv, NEW r \in Reqs, NEW q, Continue(r, q), ShapeOK(q), Separate(r, q),
           UNCHANGED <<driver, now, tables, intended, accepted, finished, overlapped>>, Accounted,
           calls' \in 0..MaxCalls, raced \subseteq raced',
           \A s \in Reqs \ {r} : s \in stale => s \in stale',
           req'[r] = q => HoldsCodeOK(r)' /\ HoldsCopyOK(r)' /\ HoldsFlowOK(r)',
           q.pc \in Late => req[r].pc \in Late \/ failed < MaxFailures,
           req[r].pc = "drop" => req[r].flow \in raced'
    PROVE  IInv'
<1> USE DEF tables
<1>1. Grows
  BY FactorsAssumption DEF Grows, IInv, Typed
<1>2. \A s \in Reqs \ {r} : Told(s)
  BY DEF Told
<1>3. DOMAIN req' = Reqs => Typed'
  BY DEF IInv, Typed, Retention, Accounted
<1>4. CodesOK'
  BY DEF IInv, CodesOK, Outdated
<1>5. CounterOK'
  BY CounterKept
<1>6. UserOK'
  BY DEF IInv, UserOK
<1>7. CeremoniesOK'
  BY <1>1, CeremoniesKept
<1> QED
  BY <1>1, <1>2, <1>3, <1>4, <1>5, <1>6, <1>7, RequestStep


-----------------------------------------------------------------------------
(* Requests that arrive.                                                   *)

\* A request without a ceremony takes a free slot.
LEMMA ReceiveStep ==
    ASSUME IInv, NEW r \in Reqs, NEW q, Receive(r, q), ShapeOK(q), q.flow = Absent,
           q.pc \notin Late \cup {"mark"}, req'[r] = q /\ r \notin stale' => HoldsCopyOK(r)'
    PROVE  IInv'
<1>0. Absent \notin Flows
  BY FactorsAssumption
<1>1. /\ Continue(r, q) /\ req[r].pc = "idle" /\ stale' = stale \ {r}
      /\ UNCHANGED <<driver, now, tables, intended, guesses, uncounted, accepted, finished, overlapped, raced>>
  BY DEF Receive
<1>2. calls' \in 0..MaxCalls
  BY FactorsAssumption DEF Receive, IInv, Typed
<1>3. Separate(r, q)
  BY <1>0 DEF Separate
<1>4. req'[r] = q => HoldsCodeOK(r)' /\ HoldsCopyOK(r)' /\ HoldsFlowOK(r)'
  BY <1>0, <1>1 DEF HoldsCodeOK, HoldsFlowOK, Late
<1> QED
  BY <1>1, <1>2, <1>3, <1>4, QuietStep DEF Accounted

\* The codes that clients send are codes.
LEMMA SentCodes == Code \subseteq TotpCodes
  BY DEF Code

\* Login with a code.
LEMMA LoginStep ==
    ASSUME IInv, NEW r \in Reqs, ReceiveLogin(r)
    PROVE  IInv'
<1>1. PICK b \in Browsers, c \in Code :
         Receive(r, [Idle EXCEPT !.pc = "limit", !.browser = b, !.code = c, !.copy = secret])
  BY DEF ReceiveLogin
<1> DEFINE q == [Idle EXCEPT !.pc = "limit", !.browser = b, !.code = c, !.copy = secret]
<1>2. /\ DOMAIN q = RequestFields /\ q.pc = "limit" /\ q.kind = "login" /\ q.browser = b /\ q.code = c
      /\ q.key = Absent /\ q.flow = Absent /\ q.count = 0
  BY DEF Idle, RequestFields
<1> HIDE DEF q
<1>3. c \in TotpCodes
  BY SentCodes
<1>4. ShapeOK(q)
  BY <1>1, <1>2, <1>3 DEF ShapeOK, PCs, Kinds, Places, Verifiers, Answers
<1>5. req'[r] = q => HoldsCopyOK(r)'
  BY <1>2 DEF HoldsCopyOK
<1>6. q.pc \notin Late \cup {"mark"}
  BY <1>2 DEF Late
<1> QED
  BY <1>1, <1>2, <1>4, <1>5, <1>6, ReceiveStep DEF q

\* DisableTOTP.
LEMMA DisableArrives ==
    ASSUME IInv, NEW r \in Reqs, ReceiveDisable(r)
    PROVE  IInv'
<1>1. PICK b \in sessions, c \in Code :
         Receive(r, [Idle EXCEPT !.kind = "disable", !.pc = "limit", !.browser = b, !.code = c,
                                 !.copy = secret])
  BY DEF ReceiveDisable
<1> DEFINE q == [Idle EXCEPT !.kind = "disable", !.pc = "limit", !.browser = b, !.code = c,
                             !.copy = secret]
<1>2. /\ DOMAIN q = RequestFields /\ q.pc = "limit" /\ q.kind = "disable" /\ q.browser = b /\ q.code = c
      /\ q.key = Absent /\ q.flow = Absent /\ q.count = 0
  BY DEF Idle, RequestFields
<1> HIDE DEF q
<1>3. c \in TotpCodes /\ b \in Browsers
  BY <1>1, SentCodes DEF IInv, Typed
<1>4. ShapeOK(q)
  BY <1>2, <1>3 DEF ShapeOK, PCs, Kinds, Places, Verifiers, Answers
<1>5. req'[r] = q => HoldsCopyOK(r)'
  BY <1>2 DEF HoldsCopyOK
<1>6. q.pc \notin Late \cup {"mark"}
  BY <1>2 DEF Late
<1> QED
  BY <1>1, <1>2, <1>4, <1>5, <1>6, ReceiveStep DEF q

\* ConfirmTOTP.
LEMMA ConfirmArrives ==
    ASSUME IInv, NEW r \in Reqs, ReceiveConfirm(r)
    PROVE  IInv'
<1>1. PICK b \in sessions, c \in Code :
         Receive(r, [Idle EXCEPT !.kind = "confirm", !.pc = "pending", !.browser = b, !.code = c])
  BY DEF ReceiveConfirm
<1> DEFINE q == [Idle EXCEPT !.kind = "confirm", !.pc = "pending", !.browser = b, !.code = c]
<1>2. /\ DOMAIN q = RequestFields /\ q.pc = "pending" /\ q.kind = "confirm" /\ q.browser = b
      /\ q.code = c /\ q.key = Absent /\ q.flow = Absent /\ q.count = 0
  BY DEF Idle, RequestFields
<1> HIDE DEF q
<1>3. c \in TotpCodes /\ b \in Browsers
  BY <1>1, SentCodes DEF IInv, Typed
<1>4. ShapeOK(q)
  BY <1>2, <1>3 DEF ShapeOK, PCs, Kinds, Places, Verifiers, Answers
<1>5. req'[r] = q => HoldsCopyOK(r)'
  BY <1>2 DEF HoldsCopyOK
<1>6. q.pc \notin Late \cup {"mark"}
  BY <1>2 DEF Late
<1> QED
  BY <1>1, <1>2, <1>4, <1>5, <1>6, ReceiveStep DEF q

\* UpdateUserProfile, which reads the user.
LEMMA ProfileArrives ==
    ASSUME IInv, NEW r \in Reqs, ReceiveProfile(r)
    PROVE  IInv'
<1> DEFINE q == [Idle EXCEPT !.kind = "profile", !.pc = "profile", !.copy = secret]
<1>1. Receive(r, q)
  BY DEF ReceiveProfile
<1>2. /\ DOMAIN q = RequestFields /\ q.pc = "profile" /\ q.kind = "profile" /\ q.copy = secret
      /\ q.key = Absent /\ q.flow = Absent /\ q.count = 0
  BY DEF Idle, RequestFields
<1> HIDE DEF q
<1>3. secret \in Secrets \cup {Absent} /\ secret' = secret
  BY <1>1 DEF IInv, Typed, Receive, tables
<1>4. ShapeOK(q)
  BY <1>2, <1>3 DEF ShapeOK, PCs, Kinds, Places, Verifiers, Answers
<1>5. req'[r] = q => HoldsCopyOK(r)'
  BY <1>2, <1>3 DEF HoldsCopyOK
<1>6. q.pc \notin Late \cup {"mark"}
  BY <1>2 DEF Late
<1> QED
  BY <1>1, <1>2, <1>4, <1>5, <1>6, ReceiveStep

\* UpdatePasskey, which reads the credential.
LEMMA RenameArrives ==
    ASSUME IInv, NEW r \in Reqs, ReceiveRename(r)
    PROVE  IInv'
<1>1. PICK k \in Keys :
         /\ passkeys[k] # Absent
         /\ Receive(r, [Idle EXCEPT !.kind = "rename", !.pc = "touch", !.key = k,
                                    !.copy = [passkeys[k] EXCEPT !.label = "new"]])
  BY DEF ReceiveRename
<1> DEFINE copy == [passkeys[k] EXCEPT !.label = "new"]
<1>2. passkeys[k] \in Passkey /\ passkeys' = passkeys
  BY <1>1 DEF IInv, Typed, Receive, tables
<1>3. copy \in Passkey /\ copy.count = passkeys[k].count /\ copy.count \in Nat
  BY <1>2 DEF Passkey
<1> HIDE DEF copy
<1> DEFINE q == [Idle EXCEPT !.kind = "rename", !.pc = "touch", !.key = k, !.copy = copy]
<1>4. /\ DOMAIN q = RequestFields /\ q.pc = "touch" /\ q.kind = "rename" /\ q.copy = copy
      /\ q.key = k /\ q.flow = Absent /\ q.count = 0
  BY DEF Idle, RequestFields
<1>5. Receive(r, q)
  BY <1>1 DEF copy
<1> HIDE DEF q
<1>6. ShapeOK(q)
  BY <1>1, <1>3, <1>4 DEF ShapeOK, PCs, Kinds, Places, Verifiers, Answers
<1>7. req'[r] = q => HoldsCopyOK(r)'
  BY <1>2, <1>3, <1>4 DEF HoldsCopyOK
<1>8. q.pc \notin Late \cup {"mark"}
  BY <1>4 DEF Late
<1> QED
  BY <1>4, <1>5, <1>6, <1>7, <1>8, ReceiveStep


\* An answer to a challenge, signed now or before.
LEMMA FinishArrives ==
    ASSUME IInv, NEW r \in Reqs, ReceiveFinish(r)
    PROVE  IInv'
<1> DEFINE n == Cardinality({g \in Flows : signed[g] # Absent}) + 1
<1>1. PICK f \in Flows, k \in Keys, b \in Browsers, type \in {"register", "passkey"} :
         /\ IF signed[f] # Absent THEN k = signed[f].key /\ UNCHANGED signed
            ELSE signed' = [signed EXCEPT ![f] = [key |-> k, count |-> n]]
         /\ Continue(r, [Idle EXCEPT !.kind = type, !.pc = "ceremony", !.flow = f, !.key = k,
                                     !.browser = b])
  BY DEF ReceiveFinish
<1>2. /\ req[r].pc = "idle" /\ stale' = stale \ {r}
      /\ calls < MaxCalls /\ calls' = calls + 1
      /\ UNCHANGED <<driver, now, secret, pending, marker, failed, sessions, passkeys, flow,
                     intended, guesses, uncounted, accepted, finished, raced, overlapped>>
  BY DEF ReceiveFinish
<1> DEFINE q == [Idle EXCEPT !.kind = type, !.pc = "ceremony", !.flow = f, !.key = k, !.browser = b]
<1>3. /\ DOMAIN q = RequestFields /\ q.pc = "ceremony" /\ q.kind = type /\ q.browser = b
      /\ q.key = k /\ q.flow = f /\ q.count = 0
  BY DEF Idle, RequestFields
<1>4. Continue(r, q)
  BY <1>1
<1> HIDE DEF q
<1>5. n \in Nat
  <2> DEFINE S == {g \in Flows : signed[g] # Absent}
  <2>1. IsFiniteSet(Flows) /\ S \subseteq Flows
    BY FactorsAssumption
  <2>2. IsFiniteSet(S)
    BY <2>1, FS_Subset
  <2> HIDE DEF S
  <2>3. Cardinality(S) \in Nat
    BY <2>2, FS_CardinalityType
  <2> QED
    BY <2>3 DEF S
<1> HIDE DEF n
<1>6. [key |-> k, count |-> n] \in Answered /\ Absent \notin Answered
  BY <1>1, <1>5, StartsAssumption DEF Answered
<1>7. /\ DOMAIN signed' = Flows /\ \A g \in Flows : signed'[g] \in Answered \cup {Absent}
      /\ \A g \in Flows : signed[g] # Absent => signed'[g] # Absent
      /\ signed'[f] # Absent
  BY <1>1, <1>6 DEF IInv, Typed
<1>8. ShapeOK(q)
  BY <1>1, <1>3 DEF ShapeOK, PCs, Kinds, Places, Verifiers, Answers
<1>9. Grows
  BY <1>2, <1>7, FactorsAssumption DEF Grows, IInv, Typed
<1>10. Separate(r, q)
  BY <1>3 DEF Separate
<1>11. req'[r] = q => HoldsCodeOK(r)' /\ HoldsCopyOK(r)' /\ HoldsFlowOK(r)'
  BY <1>3, <1>7 DEF HoldsCodeOK, HoldsCopyOK, HoldsFlowOK
<1>12. \A s \in Reqs \ {r} : Told(s)
  BY <1>2 DEF Told
<1>13. DOMAIN req' = Reqs => Typed'
  BY <1>2, <1>7, FactorsAssumption DEF IInv, Typed, Retention
<1>14. CodesOK' /\ UserOK'
  BY <1>2 DEF IInv, CodesOK, UserOK, Outdated
<1>15. CounterOK'
  BY <1>2, <1>3, <1>4, CounterKept DEF Accounted, Late
<1>16. CeremoniesOK'
  BY <1>2, <1>4, <1>9, CeremoniesKept
<1> QED
  BY <1>4, <1>8, <1>9, <1>10, <1>11, <1>12, <1>13, <1>14, <1>15, <1>16, RequestStep

-----------------------------------------------------------------------------
(* Verification of a code.                                                 *)

\* A request ends, and leaves no ceremony behind unless history says so.
LEMMA AnswerHolds ==
    ASSUME NEW r \in Reqs
    PROVE  /\ ShapeOK(Idle) /\ Separate(r, Idle) /\ Idle.pc \notin Late /\ Idle.pc # "drop"
           /\ req'[r] = Idle => HoldsCodeOK(r)' /\ HoldsCopyOK(r)' /\ HoldsFlowOK(r)'
<1>1. /\ ShapeOK(Idle) /\ Idle.pc = "idle" /\ Idle.flow = Absent /\ Absent \notin Flows
  BY IdleShape, FactorsAssumption
<1>2. req'[r] = Idle => HoldsCodeOK(r)' /\ HoldsCopyOK(r)' /\ HoldsFlowOK(r)'
  BY <1>1 DEF HoldsCodeOK, HoldsCopyOK, HoldsFlowOK
<1> QED
  BY <1>1, <1>2 DEF Separate, Late

\* A request of a kind without ceremonies goes on.
LEMMA PlainShape ==
    ASSUME IInv, NEW r \in Reqs, req[r].pc # "idle", req[r].kind \in Verifiers
    PROVE  /\ ShapeOK(req[r]) /\ DOMAIN req[r] = RequestFields /\ req[r].flow = Absent
           /\ req[r].flow \notin Flows /\ req[r].key = Absent
           /\ req[r].code \in TotpCodes /\ req[r].browser \in Browsers
           /\ req[r].pc \in Places[req[r].kind] /\ req[r].count \in Nat
  BY FactorsAssumption DEF IInv, RequestOK, ShapeOK, Verifiers, Answers

\* Where only verifications are.
LEMMA VerifierPlaces ==
    ASSUME NEW q, ShapeOK(q), q.pc # "idle"
    PROVE  /\ q.pc \in {"limit", "replay", "mark", "relax", "fail", "count", "disable", "revoke",
                        "pending", "unset", "enable", "unpend"} => q.kind \in Verifiers
           /\ q.pc \in {"pending", "unset", "enable", "unpend"} => q.kind = "confirm"
           /\ q.pc \in {"disable", "revoke"} => q.kind = "disable"
           /\ q.pc \in {"replay", "mark"} => q.kind \in {"login", "disable"}
           /\ q.pc = "profile" => q.kind = "profile"
           /\ q.pc \in {"ceremony", "create", "assert", "lookup", "drop"} => q.kind \in Answers
           /\ q.pc = "create" => q.kind = "register"
           /\ q.pc \in {"assert", "lookup"} => q.kind = "passkey"
           /\ q.pc = "touch" => q.kind \in {"passkey", "rename"}
           /\ q.pc = "session" => q.kind \in {"login", "passkey"}
  BY DEF ShapeOK, Kinds, Places, Verifiers, Answers

\* FailedTOTPCount: below the limit, a request comes to try.
LEMMA LimitStep ==
    ASSUME IInv, NEW r \in Reqs, CheckLimit(r)
    PROVE  IInv'
<1> DEFINE q == req[r]
<1>1. q.pc = "limit" /\ UNCHANGED <<driver, now, tables, calls, history>>
  BY DEF CheckLimit
<1>2. ShapeOK(q)
  BY DEF IInv, RequestOK
<1>3. q.kind \in Verifiers
  BY <1>1, <1>2, VerifierPlaces
<1>4. /\ DOMAIN q = RequestFields /\ q.flow = Absent /\ q.flow \notin Flows /\ q.count \in Nat
  BY <1>1, <1>3, PlainShape
<1>5. now \in Nat /\ failed \in Nat /\ MaxFailures \in Nat /\ calls \in 0..MaxCalls
  BY FactorsAssumption DEF IInv, Typed
<1>6. ASSUME NEW p, Continue(r, p), ShapeOK(p), p.flow = Absent,
             p.pc \in {"replay", "enable", "fail", "idle"},
             p.pc = "replay" => p.count = now, p.pc \in Late => failed < MaxFailures
      PROVE  IInv'
  <2>1. Absent \notin Flows
    BY FactorsAssumption
  <2>2. Separate(r, p)
    BY <1>6, <2>1 DEF Separate
  <2>3. req'[r] = p => HoldsCodeOK(r)' /\ HoldsCopyOK(r)' /\ HoldsFlowOK(r)'
    BY <1>1, <1>5, <1>6, <2>1 DEF HoldsCodeOK, HoldsCopyOK, HoldsFlowOK
  <2> QED
    BY <1>1, <1>5, <1>6, <2>2, <2>3, QuietStep DEF Accounted, history
<1>7. CASE Limited(failed)
  BY <1>1, <1>6, <1>7, IdleShape DEF CheckLimit, Answer, Late
<1>8. CASE ~Limited(failed) /\ q.kind # "confirm"
  <2> DEFINE p == [q EXCEPT !.pc = "replay", !.count = now]
  <2>1. Follows(p, q) /\ p.pc = "replay" /\ p.count = now
    BY <1>4 DEF Follows, RequestFields
  <2>2. Continue(r, p)
    BY <1>8 DEF CheckLimit
  <2> HIDE DEF p
  <2>3. ShapeOK(p)
    <3>1. "replay" \in Places[q.kind] /\ "replay" \in PCs
      BY <1>3, <1>8 DEF Places, Verifiers, PCs
    <3> QED
      BY <1>1, <1>2, <1>5, <2>1, <3>1, MovedShape
  <2>4. failed < MaxFailures
    BY <1>5, <1>8 DEF Limited
  <2> QED
    BY <1>4, <1>6, <2>1, <2>2, <2>3, <2>4 DEF Follows
<1>9. CASE ~Limited(failed) /\ q.kind = "confirm"
  <2> DEFINE pc == IF ValidTOTP(q.copy, q.code) THEN "enable" ELSE "fail"
             p == [q EXCEPT !.pc = pc]
  <2>1. Follows(p, q) /\ p.pc = pc /\ p.copy = q.copy /\ p.count = q.count
    BY <1>4, MovesOn
  <2>2. Continue(r, p)
    BY <1>9 DEF CheckLimit, Proceed
  <2>3. pc \in {"enable", "fail"}
    OBVIOUS
  <2> HIDE DEF p, pc
  <2>4. ShapeOK(p)
    <3>1. pc \in Places[q.kind] /\ pc \in PCs /\ pc # "idle" /\ pc # "profile" /\ pc # "touch"
      BY <1>9, <2>3 DEF Places, PCs
    <3>2. q.copy \in Secrets
      BY <1>1, <1>2, <1>9 DEF ShapeOK
    <3> QED
      BY <1>1, <1>2, <1>4, <2>1, <3>1, <3>2, MovedShape
  <2>5. failed < MaxFailures
    BY <1>5, <1>9 DEF Limited
  <2> QED
    BY <1>4, <1>6, <2>1, <2>2, <2>3, <2>4, <2>5 DEF Follows
<1> QED
  BY <1>7, <1>8, <1>9


\* TOTPReplayExists: a code that was accepted is found as long as it is valid,
\* and a marker that is dropped belongs to a code that is too old.
LEMMA ReplayStep ==
    ASSUME IInv, NEW r \in Reqs, CheckReplay(r)
    PROVE  IInv'
<1> DEFINE q == req[r]
           c == q.code
           used == marker[c] > q.count
           p == IF ~used /\ ValidTOTP(q.copy, c)
                THEN [q EXCEPT !.pc = "mark", !.count = now + Retention]
                ELSE [q EXCEPT !.pc = "fail", !.count = 0]
<1>1. /\ q.pc = "replay" /\ Continue(r, p)
      /\ marker' = IF used THEN marker ELSE [marker EXCEPT ![c] = 0]
      /\ overlapped' = IF \E s \in Reqs \ {r} : req[s].pc = "mark" /\ req[s].code = c
                       THEN overlapped \cup {c} ELSE overlapped
      /\ UNCHANGED <<driver, now, secret, pending, failed, sessions, passkeys, flow, signed, calls,
                     intended, guesses, uncounted, accepted, finished, stale, raced>>
  BY DEF CheckReplay
<1>2. ShapeOK(q) /\ q.count <= now
  BY <1>1 DEF IInv, RequestOK, HoldsCodeOK
<1>3. q.kind \in Verifiers /\ q.kind \in {"login", "disable"}
  BY <1>1, <1>2, VerifierPlaces
<1>4. DOMAIN q = RequestFields /\ q.flow \notin Flows /\ c \in TotpCodes /\ q.count \in Nat
  BY <1>1, <1>3, PlainShape
<1>5. /\ now \in Nat /\ now <= MaxTime /\ MaxTime \in Nat /\ Retention \in Nat
      /\ marker \in [TotpCodes -> Nat] /\ accepted \in [TotpCodes -> Nat]
  BY FactorsAssumption, RetentionCovers DEF IInv, Typed
<1>6. /\ Follows(p, q) /\ p.pc \in {"mark", "fail"} /\ p.count \in Nat
      /\ p.pc = "mark" => /\ ~used /\ ValidTOTP(q.copy, c) /\ p.count = now + Retention
  <2>1. CASE ~used /\ ValidTOTP(q.copy, c)
    <3>1. p = [q EXCEPT !.pc = "mark", !.count = now + Retention]
      BY <2>1
    <3> QED
      BY <1>4, <1>5, <2>1, <3>1 DEF Follows, RequestFields
  <2>2. CASE ~(~used /\ ValidTOTP(q.copy, c))
    <3>1. p = [q EXCEPT !.pc = "fail", !.count = 0]
      BY <2>2
    <3> QED
      BY <1>4, <3>1 DEF Follows, RequestFields
  <2> QED
    BY <2>1, <2>2
<1> HIDE DEF p
<1>7. ShapeOK(p)
  <2>1. p.pc \in Places[q.kind] /\ p.pc \in PCs /\ p.pc # "idle"
    BY <1>3, <1>6 DEF Places, PCs
  <2> QED
    BY <1>1, <1>2, <1>6, <2>1, MovedShape
<1>8. /\ p.pc = "mark" => now < Outdated(c) /\ now + Retention >= Outdated(c)
      /\ Outdated(c) \in Nat
  BY <1>4, <1>5, <1>6, ValidWindow, CodeTypes
<1>9. p.pc = "mark" /\ c \notin overlapped => accepted[c] = 0
  <2>1. SUFFICES ASSUME p.pc = "mark", c \notin overlapped, accepted[c] # 0
                 PROVE  FALSE
    OBVIOUS
  <2>2. accepted[c] <= 1 /\ (accepted[c] = 1 => marker[c] >= Outdated(c) \/ now >= Outdated(c))
    BY <1>4, <2>1 DEF IInv, CodesOK
  <2>3. accepted[c] = 1 /\ marker[c] \in Nat
    BY <1>4, <1>5, <2>1, <2>2
  <2>4. ~(marker[c] > q.count)
    BY <1>6, <2>1
  <2> QED
    BY <1>2, <1>4, <1>5, <1>8, <2>1, <2>2, <2>3, <2>4
<1>10. overlapped \subseteq overlapped'
  BY <1>1
<1>11. Grows
  BY <1>1, <1>5, <1>10 DEF Grows
<1>12. Separate(r, p)
  BY <1>1, <1>4, <1>6 DEF Separate, Follows
<1>13. req'[r] = p => HoldsCodeOK(r)' /\ HoldsCopyOK(r)' /\ HoldsFlowOK(r)'
  <2>1. SUFFICES ASSUME req'[r] = p
                 PROVE  HoldsCodeOK(r)' /\ HoldsCopyOK(r)' /\ HoldsFlowOK(r)'
    OBVIOUS
  <2>2. HoldsCopyOK(r)' /\ HoldsFlowOK(r)'
    BY <1>4, <1>6, <2>1 DEF HoldsCopyOK, HoldsFlowOK, Follows
  <2>3. p.code = c /\ (p.pc = "mark" => p.count >= Outdated(c) /\ p.count <= MaxTime + Retention)
    BY <1>5, <1>6, <1>8 DEF Follows
  <2>4. HoldsCodeOK(r)'
    BY <1>1, <1>6, <1>9, <1>10, <2>1, <2>3 DEF HoldsCodeOK, Outdated, Retention
  <2> QED
    BY <2>2, <2>4
<1>14. \A s \in Reqs \ {r} : Told(s)
  BY <1>1 DEF Told
<1>15. /\ marker' \in [TotpCodes -> Nat] /\ \A d \in TotpCodes : marker'[d] <= MaxTime + Retention
       /\ \A d \in TotpCodes : marker'[d] = marker[d] \/ (d = c /\ ~used)
  <2>1. \A d \in TotpCodes : marker[d] <= MaxTime + Retention
    BY DEF IInv, Typed
  <2>2. CASE used
    BY <1>1, <1>5, <2>1, <2>2
  <2>3. CASE ~used
    <3>1. marker' = [marker EXCEPT ![c] = 0]
      BY <1>1, <2>3
    <3> HIDE DEF used
    <3> QED
      BY <1>4, <1>5, <2>1, <2>3, <3>1
  <2> QED
    BY <2>2, <2>3
<1>16. DOMAIN req' = Reqs => Typed'
  BY <1>1, <1>15 DEF IInv, Typed, Retention
<1>17. CodesOK'
  <2>1. SUFFICES ASSUME NEW d \in TotpCodes, d \notin overlapped'
                 PROVE  /\ accepted[d] <= 1
                        /\ accepted[d] = 1 => marker'[d] >= Outdated(d) \/ now >= Outdated(d)
    BY <1>1 DEF CodesOK, Outdated
  <2>2. /\ accepted[d] <= 1
        /\ accepted[d] = 1 => marker[d] >= Outdated(d) \/ now >= Outdated(d)
    BY <1>10, <2>1 DEF IInv, CodesOK
  <2>3. d = c /\ ~used => marker[d] <= now
    BY <1>2, <1>4, <1>5
  <2>4. Outdated(d) \in Nat /\ marker[d] \in Nat
    BY <1>5, <2>1, CodeTypes
  <2> QED
    BY <1>5, <1>15, <2>1, <2>2, <2>3, <2>4
<1>18. CounterOK'
  BY <1>1, <1>6, CounterKept DEF Accounted, Late
<1>19. UserOK'
  BY <1>1 DEF IInv, UserOK
<1>20. CeremoniesOK'
  BY <1>1, <1>11, CeremoniesKept
<1> QED
  BY <1>1, <1>7, <1>11, <1>12, <1>13, <1>14, <1>16, <1>17, <1>18, <1>19, <1>20, RequestStep

\* StoreTOTPReplay: the code is accepted, for the first time unless another
\* request had found it unused as well.
LEMMA MarkStep ==
    ASSUME IInv, NEW r \in Reqs, StoreTOTPReplay(r)
    PROVE  IInv'
<1> DEFINE q == req[r]
           c == q.code
           p == [q EXCEPT !.pc = "relax", !.count = 0]
<1>1. /\ q.pc = "mark" /\ Continue(r, p)
      /\ marker' = [marker EXCEPT ![c] = q.count] /\ accepted' = [accepted EXCEPT ![c] = @ + 1]
      /\ UNCHANGED <<driver, now, secret, pending, failed, sessions, passkeys, flow, signed, calls,
                     intended, guesses, uncounted, finished, stale, raced, overlapped>>
  BY DEF StoreTOTPReplay
<1>2. /\ ShapeOK(q) /\ q.count >= Outdated(c) /\ q.count <= MaxTime + Retention
      /\ c \notin overlapped => accepted[c] = 0
  BY <1>1 DEF IInv, RequestOK, HoldsCodeOK
<1>3. q.kind \in Verifiers /\ q.kind \in {"login", "disable"}
  BY <1>1, <1>2, VerifierPlaces
<1>4. DOMAIN q = RequestFields /\ q.flow \notin Flows /\ c \in TotpCodes /\ q.count \in Nat
  BY <1>1, <1>3, PlainShape
<1>5. /\ now \in Nat /\ marker \in [TotpCodes -> Nat] /\ accepted \in [TotpCodes -> Nat]
  BY FactorsAssumption DEF IInv, Typed
<1>6. Follows(p, q) /\ p.pc = "relax" /\ p.count = 0
  BY <1>4 DEF Follows, RequestFields
<1> HIDE DEF p
<1>7. ShapeOK(p)
  <2>1. p.pc \in Places[q.kind] /\ p.pc \in PCs /\ p.pc # "idle"
    BY <1>3, <1>6 DEF Places, PCs
  <2> QED
    BY <1>1, <1>2, <1>6, <2>1, MovedShape
<1>8. Grows
  BY <1>1, <1>5 DEF Grows
<1>9. Separate(r, p)
  BY <1>4, <1>6 DEF Separate, Follows
<1>10. req'[r] = p => HoldsCodeOK(r)' /\ HoldsCopyOK(r)' /\ HoldsFlowOK(r)'
  BY <1>4, <1>6 DEF HoldsCodeOK, HoldsCopyOK, HoldsFlowOK, Follows
<1>11. \A s \in Reqs \ {r} : Told(s)
  <2>1. SUFFICES ASSUME NEW s \in Reqs \ {r} PROVE Told(s)
    OBVIOUS
  <2>2. req[s].pc = "mark" /\ req[s].code \notin overlapped => req[s].code # c
    BY <1>1, <2>1 DEF IInv, Apart
  <2>3. req[s].pc = "mark" /\ req[s].code \notin overlapped => accepted'[req[s].code] = accepted[req[s].code]
    BY <1>1, <1>5, <2>2
  <2> QED
    BY <1>1, <2>3 DEF Told
<1>12. /\ marker' \in [TotpCodes -> Nat] /\ accepted' \in [TotpCodes -> Nat]
       /\ \A d \in TotpCodes : marker'[d] <= MaxTime + Retention
  BY <1>1, <1>2, <1>4, <1>5 DEF IInv, Typed
<1>13. DOMAIN req' = Reqs => Typed'
  BY <1>1, <1>12 DEF IInv, Typed, Retention
<1>14. CodesOK'
  <2>1. SUFFICES ASSUME NEW d \in TotpCodes, d \notin overlapped
                 PROVE  /\ accepted'[d] <= 1
                        /\ accepted'[d] = 1 => marker'[d] >= Outdated(d) \/ now >= Outdated(d)
    BY <1>1 DEF CodesOK, Outdated
  <2>2. CASE d = c
    BY <1>1, <1>2, <1>4, <1>5, <2>1, <2>2
  <2>3. CASE d # c
    BY <1>1, <1>5, <2>1, <2>3 DEF IInv, CodesOK
  <2> QED
    BY <2>2, <2>3
<1>15. CounterOK'
  BY <1>1, <1>6, CounterKept DEF Accounted, Late
<1>16. UserOK'
  BY <1>1 DEF IInv, UserOK
<1>17. CeremoniesOK'
  BY <1>1, <1>8, CeremoniesKept
<1> QED
  BY <1>1, <1>7, <1>8, <1>9, <1>10, <1>11, <1>13, <1>14, <1>15, <1>16, <1>17, RequestStep


\* A write of the counter leaves the records of codes, of the user and of
\* ceremonies alone.
LEMMA CounterStep ==
    ASSUME IInv, NEW r \in Reqs, NEW q, Continue(r, q), ShapeOK(q), q.flow = Absent,
           q.pc \in {"idle", "session", "disable"}, req[r].pc # "drop",
           failed' \in Nat, guesses' \in Nat, uncounted' \in Nat, CounterOK',
           raced \ {"counter"} \subseteq raced',
           \A s \in Reqs \ {r} : s \in stale \/ req[s].pc = "count" => s \in stale',
           UNCHANGED <<driver, now, secret, pending, marker, sessions, passkeys, flow, signed, calls,
                       intended, accepted, finished, overlapped>>
    PROVE  IInv'
<1>0. Absent \notin Flows /\ "counter" # "user" /\ "counter" \notin Flows
  BY FactorsAssumption
<1>1. Grows
  BY FactorsAssumption DEF Grows, IInv, Typed
<1>2. Separate(r, q)
  BY <1>0 DEF Separate
<1>3. req'[r] = q => HoldsCodeOK(r)' /\ HoldsCopyOK(r)' /\ HoldsFlowOK(r)'
  BY <1>0 DEF HoldsCodeOK, HoldsCopyOK, HoldsFlowOK
<1>4. \A s \in Reqs \ {r} : Told(s)
  BY DEF Told
<1>5. DOMAIN req' = Reqs => Typed'
  BY DEF IInv, Typed, Retention
<1>6. CodesOK'
  BY DEF IInv, CodesOK, Outdated
<1>7. UserOK'
  BY <1>0 DEF IInv, UserOK
<1>8. CeremoniesOK'
  BY <1>1, CeremoniesKept
<1> QED
  BY <1>1, <1>2, <1>3, <1>4, <1>5, <1>6, <1>7, <1>8, RequestStep

\* The requests that hold a number read from the counter hold no credential,
\* so a write of the counter overtakes them all.
LEMMA CounterOvertakes ==
    ASSUME IInv, NEW r \in Reqs, stale' = Overtaken(r, {"count"}, Absent)
    PROVE  \A s \in Reqs \ {r} : s \in stale \/ req[s].pc = "count" => s \in stale'
<1>1. SUFFICES ASSUME NEW s \in Reqs \ {r}, req[s].pc = "count" PROVE req[s].key = Absent
  BY DEF Overtaken
<1>2. ShapeOK(req[s])
  BY DEF IInv, RequestOK
<1>3. req[s].kind \in Verifiers
  BY <1>1, <1>2, VerifierPlaces
<1> QED
  BY <1>1, <1>3, PlainShape

\* ResetFailedTOTP: the counter starts again, for those who try now too.
LEMMA ResetStep ==
    ASSUME IInv, NEW r \in Reqs, ResetFailedTOTP(r)
    PROVE  IInv'
<1> DEFINE q == req[r]
<1>1. /\ q.pc = "relax" /\ failed' = 0 /\ guesses' = 0 /\ uncounted' = 0
      /\ raced' = raced \ {"counter"} /\ stale' = Overtaken(r, {"count"}, Absent)
      /\ UNCHANGED <<driver, now, secret, pending, marker, sessions, passkeys, flow, signed, calls,
                     intended, accepted, finished, overlapped>>
  BY DEF ResetFailedTOTP
<1>2. ShapeOK(q)
  BY DEF IInv, RequestOK
<1>3. q.kind \in Verifiers
  BY <1>1, <1>2, VerifierPlaces
<1>4. DOMAIN q = RequestFields /\ q.flow = Absent /\ q.count \in Nat /\ DOMAIN req = Reqs
  BY <1>1, <1>3, PlainShape DEF IInv, Typed
<1>5. ASSUME NEW p, Continue(r, p), ShapeOK(p), p.flow = Absent, p.pc \in {"idle", "session", "disable"}
      PROVE  IInv'
  <2>1. Cardinality(Trying') \in Nat /\ Cardinality(Trying') <= Cardinality(Reqs)
    BY <1>4, <1>5, TryingMoves
  <2>2. Cardinality(Reqs) \in Nat /\ MaxFailures \in Nat /\ MaxFailures > 0
    BY <1>4, TryingFinite, FactorsAssumption
  <2>3. CounterOK'
    BY <1>1, <2>1, <2>2 DEF CounterOK
  <2>4. \A s \in Reqs \ {r} : s \in stale \/ req[s].pc = "count" => s \in stale'
    BY <1>1, CounterOvertakes
  <2> QED
    BY <1>1, <1>5, <2>3, <2>4, CounterStep
<1>6. CASE q.kind = "confirm"
  <2>1. Continue(r, Idle)
    BY <1>6 DEF ResetFailedTOTP, Answer
  <2> QED
    BY <1>5, <2>1, IdleShape
<1>7. CASE q.kind # "confirm"
  <2> DEFINE pc == IF q.kind = "login" THEN "session" ELSE "disable"
             p == [q EXCEPT !.pc = pc]
  <2>1. Continue(r, p)
    BY <1>7 DEF ResetFailedTOTP, Proceed
  <2>2. Follows(p, q) /\ p.pc = pc /\ p.copy = q.copy /\ p.count = q.count
    BY <1>4, MovesOn
  <2>3. pc \in Places[q.kind] /\ pc \in {"session", "disable"}
    BY <1>3, <1>7 DEF Verifiers, Places
  <2> HIDE DEF p, pc
  <2>4. ShapeOK(p)
    <3>1. p.pc \in PCs /\ p.pc # "idle"
      BY <2>2, <2>3 DEF PCs
    <3> QED
      BY <1>1, <1>2, <1>4, <2>2, <2>3, <3>1, MovedShape
  <2> QED
    BY <1>4, <1>5, <2>1, <2>2, <2>3, <2>4 DEF Follows
<1> QED
  BY <1>6, <1>7

\* IncrementFailedTOTP in one step: nobody else has read the counter.
LEMMA IncrementStep ==
    ASSUME IInv, NEW r \in Reqs, IncrementFailedTOTP(r)
    PROVE  IInv'
<1>1. /\ req[r].pc = "fail" /\ driver = "memory" /\ failed' = failed + 1 /\ guesses' = guesses + 1
      /\ Continue(r, Idle)
      /\ UNCHANGED <<driver, now, secret, pending, marker, sessions, passkeys, flow, signed, calls,
                     intended, uncounted, accepted, finished, stale, raced, overlapped>>
  BY DEF IncrementFailedTOTP, Answer
<1>2. ShapeOK(Idle) /\ Idle.pc = "idle" /\ Idle.flow = Absent
  BY IdleShape
<1>3. failed' \in Nat /\ guesses' \in Nat /\ uncounted' \in Nat
  BY <1>1 DEF IInv, Typed
<1>4. CounterOK'
  BY <1>1, <1>2, CounterSpent DEF Late
<1>5. \A s \in Reqs \ {r} : s \in stale \/ req[s].pc = "count" => s \in stale'
  BY <1>1 DEF IInv, RequestOK, HoldsCodeOK
<1> QED
  BY <1>1, <1>2, <1>3, <1>4, <1>5, CounterStep

\* IncrementCounter of PostgreSQL reads the counter ...
LEMMA ReadCounterStep ==
    ASSUME IInv, NEW r \in Reqs, ReadCounter(r)
    PROVE  IInv'
<1> DEFINE q == req[r]
           p == [q EXCEPT !.pc = "count", !.count = failed + 1]
<1>1. /\ q.pc = "fail" /\ driver = "postgres" /\ Continue(r, p) /\ stale' = stale \ {r}
      /\ UNCHANGED <<driver, now, tables, calls, intended, guesses, uncounted, accepted, finished, raced, overlapped>>
  BY DEF ReadCounter
<1>2. ShapeOK(q)
  BY DEF IInv, RequestOK
<1>3. q.kind \in Verifiers
  BY <1>1, <1>2, VerifierPlaces
<1>4. DOMAIN q = RequestFields /\ q.flow \notin Flows
  BY <1>1, <1>3, PlainShape
<1>5. Follows(p, q) /\ p.pc = "count" /\ p.count = failed + 1
  BY <1>4 DEF Follows, RequestFields
<1> HIDE DEF p
<1>6. failed \in Nat /\ calls \in 0..MaxCalls
  BY DEF IInv, Typed
<1>7. ShapeOK(p)
  <2>1. p.pc \in Places[q.kind] /\ p.pc \in PCs /\ p.pc # "idle"
    BY <1>3, <1>5 DEF Places, Verifiers, PCs
  <2> QED
    BY <1>1, <1>2, <1>5, <1>6, <2>1, MovedShape
<1>8. Separate(r, p)
  BY <1>4, <1>5 DEF Separate, Follows
<1>9. req'[r] = p => HoldsCodeOK(r)' /\ HoldsCopyOK(r)' /\ HoldsFlowOK(r)'
  BY <1>1, <1>4, <1>5 DEF HoldsCodeOK, HoldsCopyOK, HoldsFlowOK, Follows, tables
<1> QED
  BY <1>1, <1>5, <1>6, <1>7, <1>8, <1>9, QuietStep DEF Accounted, Late

\* ... and writes it: an increment is lost only over an overtaken number.
LEMMA WriteCounterStep ==
    ASSUME IInv, NEW r \in Reqs, WriteCounter(r)
    PROVE  IInv'
<1>1. /\ req[r].pc = "count" /\ failed' = req[r].count /\ guesses' = guesses + 1
      /\ stale' = Overtaken(r, {"count"}, Absent) /\ raced' = RacedWith(r, "counter")
      /\ Continue(r, Idle)
      /\ UNCHANGED <<driver, now, secret, pending, marker, sessions, passkeys, flow, signed, calls,
                     intended, uncounted, accepted, finished, overlapped>>
  BY DEF WriteCounter, Answer
<1>2. ShapeOK(Idle) /\ Idle.pc = "idle" /\ Idle.flow = Absent
  BY IdleShape
<1>3. req[r].count \in Nat /\ (r \notin stale => req[r].count = failed + 1)
  BY <1>1 DEF IInv, RequestOK, ShapeOK, HoldsCodeOK
<1>4. guesses' \in Nat /\ uncounted' \in Nat
  BY <1>1 DEF IInv, Typed
<1>5. raced \subseteq raced' /\ ("counter" \notin raced' => r \notin stale)
  BY <1>1 DEF RacedWith
<1>6. CounterOK'
  BY <1>1, <1>2, <1>3, <1>5, CounterSpent DEF Late
<1>7. \A s \in Reqs \ {r} : s \in stale \/ req[s].pc = "count" => s \in stale'
  BY <1>1, CounterOvertakes
<1> QED
  BY <1>1, <1>2, <1>3, <1>4, <1>5, <1>6, <1>7, CounterStep


-----------------------------------------------------------------------------
(* The secret, its setup and the sessions.                                 *)

\* A write of setups and sessions moves a request that has no ceremony.
LEMMA BrowserStep ==
    ASSUME IInv, NEW r \in Reqs, NEW q, Continue(r, q), ShapeOK(q), q.flow = Absent,
           q.pc \in {"idle", "relax"}, req[r].pc # "drop",
           DOMAIN pending' = Browsers, \A b \in Browsers : pending'[b] \in Setup \cup {Absent},
           sessions' \subseteq Browsers,
           UNCHANGED <<driver, now, secret, marker, failed, passkeys, flow, signed, calls, history>>
    PROVE  IInv'
<1> USE DEF history
<1>0. Absent \notin Flows
  BY FactorsAssumption
<1>1. Grows
  BY FactorsAssumption DEF Grows, IInv, Typed
<1>2. Separate(r, q)
  BY <1>0 DEF Separate
<1>3. req'[r] = q => HoldsCodeOK(r)' /\ HoldsCopyOK(r)' /\ HoldsFlowOK(r)'
  BY <1>0 DEF HoldsCodeOK, HoldsCopyOK, HoldsFlowOK
<1>4. \A s \in Reqs \ {r} : Told(s)
  BY DEF Told
<1>5. DOMAIN req' = Reqs => Typed'
  BY DEF IInv, Typed, Retention
<1>6. CodesOK' /\ UserOK'
  BY DEF IInv, CodesOK, UserOK, Outdated
<1>7. CounterOK'
  BY CounterKept DEF Accounted, Late
<1>8. CeremoniesOK'
  BY <1>1, CeremoniesKept
<1> QED
  BY <1>1, <1>2, <1>3, <1>4, <1>5, <1>6, <1>7, <1>8, RequestStep

\* DisableTOTP ends all sessions.
LEMMA RevokeStep ==
    ASSUME IInv, NEW r \in Reqs, RevokeSessions(r)
    PROVE  IInv'
<1>1. /\ req[r].pc = "revoke" /\ sessions' = {} /\ Continue(r, Idle)
      /\ UNCHANGED <<driver, now, secret, pending, marker, failed, passkeys, flow, signed, calls, history>>
  BY DEF RevokeSessions, Answer
<1>2. DOMAIN pending' = Browsers /\ \A b \in Browsers : pending'[b] \in Setup \cup {Absent}
  BY <1>1 DEF IInv, Typed
<1> QED
  BY <1>1, <1>2, IdleShape, BrowserStep

\* DeletePendingTOTP.
LEMMA UnpendStep ==
    ASSUME IInv, NEW r \in Reqs, DeletePendingSetup(r)
    PROVE  IInv'
<1> DEFINE q == req[r]
<1>1. /\ q.pc \in {"unset", "unpend"} /\ pending' = [pending EXCEPT ![q.browser] = Absent]
      /\ UNCHANGED <<driver, now, secret, marker, failed, sessions, passkeys, flow, signed, calls, history>>
  BY DEF DeletePendingSetup
<1>2. ShapeOK(q)
  BY DEF IInv, RequestOK
<1>3. q.kind = "confirm" /\ q.kind \in Verifiers
  BY <1>1, <1>2, VerifierPlaces
<1>4. DOMAIN q = RequestFields /\ q.flow = Absent /\ q.count \in Nat
  BY <1>1, <1>3, PlainShape
<1>5. /\ DOMAIN pending' = Browsers /\ \A b \in Browsers : pending'[b] \in Setup \cup {Absent}
      /\ sessions' \subseteq Browsers
  BY <1>1 DEF IInv, Typed
<1>6. CASE q.pc = "unset"
  <2>1. Continue(r, Idle)
    BY <1>6 DEF DeletePendingSetup, Answer
  <2> QED
    BY <1>1, <1>5, <2>1, IdleShape, BrowserStep
<1>7. CASE q.pc = "unpend"
  <2> DEFINE p == [q EXCEPT !.pc = "relax"]
  <2>1. Continue(r, p)
    BY <1>7 DEF DeletePendingSetup, Proceed
  <2>2. Follows(p, q) /\ p.pc = "relax" /\ p.count = q.count
    BY <1>4, MovesOn
  <2> HIDE DEF p
  <2>3. ShapeOK(p)
    <3>1. p.pc \in Places[q.kind] /\ p.pc \in PCs /\ p.pc # "idle"
      BY <1>3, <2>2 DEF Places, PCs
    <3> QED
      BY <1>1, <1>2, <1>4, <2>2, <3>1, MovedShape
  <2>4. p.flow = Absent
    BY <1>4, <2>2 DEF Follows
  <2> QED
    BY <1>1, <1>5, <2>1, <2>2, <2>3, <2>4, BrowserStep
<1> QED
  BY <1>1, <1>6, <1>7

\* GetPendingTOTP.
LEMMA PendingStep ==
    ASSUME IInv, NEW r \in Reqs, ReadPending(r)
    PROVE  IInv'
<1> DEFINE q == req[r]
           setup == pending[q.browser]
<1>1. q.pc = "pending" /\ UNCHANGED <<driver, now, tables, calls, history>>
  BY DEF ReadPending
<1>2. ShapeOK(q)
  BY DEF IInv, RequestOK
<1>3. q.kind = "confirm" /\ q.kind \in Verifiers
  BY <1>1, <1>2, VerifierPlaces
<1>4. /\ DOMAIN q = RequestFields /\ q.flow = Absent /\ q.count \in Nat /\ q.browser \in Browsers
      /\ calls \in 0..MaxCalls
  BY <1>1, <1>3, PlainShape DEF IInv, Typed
<1>5. ASSUME NEW p, Continue(r, p), ShapeOK(p), p.flow = Absent, p.pc \in {"idle", "unset", "limit"}
      PROVE  IInv'
  <2>1. Absent \notin Flows
    BY FactorsAssumption
  <2>2. Separate(r, p)
    BY <1>5, <2>1 DEF Separate
  <2>3. req'[r] = p => HoldsCodeOK(r)' /\ HoldsCopyOK(r)' /\ HoldsFlowOK(r)'
    BY <1>5, <2>1 DEF HoldsCodeOK, HoldsCopyOK, HoldsFlowOK
  <2> QED
    BY <1>1, <1>4, <1>5, <2>2, <2>3, QuietStep DEF Accounted, history, Late
<1>6. CASE setup = Absent
  <2>1. Continue(r, Idle)
    BY <1>6 DEF ReadPending, Answer
  <2> QED
    BY <1>5, <2>1, IdleShape
<1>7. CASE setup # Absent /\ setup.expires <= now
  <2> DEFINE p == [q EXCEPT !.pc = "unset"]
  <2>1. Continue(r, p)
    BY <1>7 DEF ReadPending, Proceed
  <2>2. Follows(p, q) /\ p.pc = "unset" /\ p.count = q.count
    BY <1>4, MovesOn
  <2> HIDE DEF p
  <2>3. ShapeOK(p)
    <3>1. p.pc \in Places[q.kind] /\ p.pc \in PCs /\ p.pc # "idle"
      BY <1>3, <2>2 DEF Places, PCs
    <3> QED
      BY <1>1, <1>2, <1>4, <2>2, <3>1, MovedShape
  <2> QED
    BY <1>4, <1>5, <2>1, <2>2, <2>3 DEF Follows
<1>8. CASE setup # Absent /\ ~(setup.expires <= now)
  <2> DEFINE p == [q EXCEPT !.pc = "limit", !.copy = setup.secret]
  <2>1. Continue(r, p)
    BY <1>8 DEF ReadPending
  <2>2. setup.secret \in Secrets
    BY <1>4, <1>8 DEF IInv, Typed, Setup
  <2> HIDE DEF setup
  <2>3. Follows(p, q) /\ p.pc = "limit" /\ p.copy = setup.secret /\ p.count = q.count
    BY <1>4 DEF Follows, RequestFields
  <2> HIDE DEF p
  <2>4. ShapeOK(p)
    <3>1. p.pc \in Places[q.kind] /\ p.pc \in PCs /\ p.pc # "idle"
      BY <1>3, <2>3 DEF Places, PCs
    <3> QED
      BY <1>1, <1>2, <1>4, <2>2, <2>3, <3>1, MovedShape
  <2> QED
    BY <1>4, <1>5, <2>1, <2>3, <2>4 DEF Follows
<1> QED
  BY <1>6, <1>7, <1>8

\* A write of the secret that overtakes the copies of the user.
LEMMA SecretStep ==
    ASSUME IInv, NEW r \in Reqs, NEW pc, NEW x \in Secrets \cup {Absent},
           req[r].kind \in Verifiers, req[r].pc \notin {"idle", "drop"}, pc \in Places[req[r].kind],
           pc \in {"revoke", "unpend"}, Proceed(r, pc),
           secret' = x, intended' = x, stale' = Overtaken(r, {"profile"}, Absent),
           UNCHANGED <<driver, now, pending, marker, failed, sessions, passkeys, flow, signed, calls,
                       guesses, uncounted, accepted, finished, overlapped, raced>>
    PROVE  IInv'
<1> DEFINE q == req[r]
           p == [q EXCEPT !.pc = pc]
<1>1. Continue(r, p)
  BY DEF Proceed
<1>2. ShapeOK(q)
  BY DEF IInv, RequestOK
<1>3. DOMAIN q = RequestFields /\ q.flow = Absent /\ q.flow \notin Flows /\ q.count \in Nat
  BY PlainShape
<1>4. Follows(p, q) /\ p.pc = pc /\ p.count = q.count
  BY <1>3, MovesOn
<1> HIDE DEF p
<1>5. ShapeOK(p)
  <2>1. p.pc \in PCs /\ p.pc # "idle"
    BY <1>4 DEF PCs
  <2> QED
    BY <1>2, <1>3, <1>4, <2>1, MovedShape
<1>6. Grows
  BY FactorsAssumption DEF Grows, IInv, Typed
<1>7. Separate(r, p)
  BY <1>3, <1>4 DEF Separate, Follows
<1>8. req'[r] = p => HoldsCodeOK(r)' /\ HoldsCopyOK(r)' /\ HoldsFlowOK(r)'
  BY <1>3, <1>4 DEF HoldsCodeOK, HoldsCopyOK, HoldsFlowOK, Follows
<1>9. \A s \in Reqs \ {r} : Told(s)
  <2>1. SUFFICES ASSUME NEW s \in Reqs \ {r} PROVE Told(s)
    OBVIOUS
  <2>2. s \in stale => s \in stale'
    BY DEF Overtaken
  <2>3. req[s].pc = "profile" => s \in stale'
    <3>1. ShapeOK(req[s])
      BY DEF IInv, RequestOK
    <3>2. req[s].pc = "profile" => req[s].key = Absent
      BY <3>1, VerifierPlaces DEF ShapeOK, Answers
    <3> QED
      BY <3>2 DEF Overtaken
  <2> QED
    BY <2>2, <2>3 DEF Told
<1>10. DOMAIN req' = Reqs => Typed'
  BY DEF IInv, Typed, Retention
<1>11. CodesOK' /\ UserOK'
  BY DEF IInv, CodesOK, UserOK, Outdated
<1>12. CounterOK'
  BY <1>1, <1>4, CounterKept DEF Accounted, Late
<1>13. CeremoniesOK'
  BY <1>1, <1>6, CeremoniesKept
<1> QED
  BY <1>1, <1>5, <1>6, <1>7, <1>8, <1>9, <1>10, <1>11, <1>12, <1>13, RequestStep

\* DisableTOTP.
LEMMA DisableStep ==
    ASSUME IInv, NEW r \in Reqs, DisableTOTP(r)
    PROVE  IInv'
<1>1. req[r].pc = "disable" /\ ShapeOK(req[r])
  BY DEF DisableTOTP, IInv, RequestOK
<1>2. req[r].kind = "disable" /\ req[r].kind \in Verifiers
  BY <1>1, VerifierPlaces
<1>3. "revoke" \in Places[req[r].kind]
  BY <1>2 DEF Places
<1> QED
  BY <1>1, <1>2, <1>3, SecretStep DEF DisableTOTP

\* ConfirmTOTP enables the factor.
LEMMA EnableStep ==
    ASSUME IInv, NEW r \in Reqs, EnableTOTP(r)
    PROVE  IInv'
<1>1. req[r].pc = "enable" /\ ShapeOK(req[r])
  BY DEF EnableTOTP, IInv, RequestOK
<1>2. req[r].kind = "confirm" /\ req[r].kind \in Verifiers
  BY <1>1, VerifierPlaces
<1>3. "unpend" \in Places[req[r].kind] /\ req[r].copy \in Secrets
  BY <1>1, <1>2 DEF Places, ShapeOK
<1> QED
  BY <1>1, <1>2, <1>3, SecretStep DEF EnableTOTP

\* UpdateUserProfile: a copy that nobody has overtaken is the stored one.
LEMMA ProfileStep ==
    ASSUME IInv, NEW r \in Reqs, UpdateProfile(r)
    PROVE  IInv'
<1>0. Absent \notin Flows
  BY FactorsAssumption
<1>1. /\ req[r].pc = "profile" /\ secret' = req[r].copy /\ raced' = RacedWith(r, "user")
      /\ Continue(r, Idle)
      /\ UNCHANGED <<driver, now, pending, marker, failed, sessions, passkeys, flow, signed, calls,
                     intended, guesses, uncounted, accepted, finished, stale, overlapped>>
  BY DEF UpdateProfile, Answer
<1>2. /\ ShapeOK(req[r]) /\ req[r].copy \in Secrets \cup {Absent}
      /\ r \notin stale /\ "user" \notin raced => req[r].copy = secret
  BY <1>1 DEF IInv, RequestOK, HoldsCopyOK, ShapeOK
<1>3. raced \subseteq raced' /\ ("user" \notin raced' => secret' = secret)
  BY <1>1, <1>2 DEF RacedWith
<1>4. Grows
  BY <1>1, <1>3, FactorsAssumption DEF Grows, IInv, Typed
<1>5. \A s \in Reqs \ {r} : Told(s)
  BY <1>1, <1>3 DEF Told
<1>6. DOMAIN req' = Reqs => Typed'
  BY <1>1, <1>2 DEF IInv, Typed, Retention
<1>7. CodesOK'
  BY <1>1 DEF IInv, CodesOK, Outdated
<1>8. UserOK'
  BY <1>1, <1>3 DEF IInv, UserOK
<1>9. CounterOK'
  BY <1>1, <1>3, AnswerHolds, CounterKept DEF Accounted
<1>10. CeremoniesOK'
  BY <1>1, <1>4, CeremoniesKept
<1> QED
  BY <1>1, <1>4, <1>5, <1>6, <1>7, <1>8, <1>9, <1>10, AnswerHolds, RequestStep


-----------------------------------------------------------------------------
(* Ceremonies.                                                             *)

\* What a request with a ceremony has.
LEMMA AnswerShape ==
    ASSUME IInv, NEW r \in Reqs, req[r].pc # "idle", req[r].kind \in Answers
    PROVE  /\ ShapeOK(req[r]) /\ DOMAIN req[r] = RequestFields /\ req[r].flow \in Flows
           /\ req[r].key \in Keys /\ req[r].browser \in Browsers /\ req[r].count \in Nat
           /\ signed[req[r].flow] \in Answered /\ signed[req[r].flow].count \in Nat
           /\ req[r].flow \notin raced /\ req[r].pc \notin {"ceremony", "drop"} => finished[req[r].flow] = 0
<1>1. ShapeOK(req[r]) /\ HoldsFlowOK(r)
  BY DEF IInv, RequestOK
<1>2. /\ DOMAIN req[r] = RequestFields /\ req[r].flow \in Flows
      /\ req[r].key \in Keys /\ req[r].browser \in Browsers /\ req[r].count \in Nat
  BY <1>1 DEF ShapeOK
<1>3. signed[req[r].flow] \in Answered
  BY <1>1, <1>2 DEF HoldsFlowOK, IInv, Typed
<1> QED
  BY <1>1, <1>2, <1>3 DEF HoldsFlowOK, Answered

\* The places after the check of a ceremony.
Passed == {"create", "assert", "lookup", "touch", "session", "drop"}

\* A request goes on with its ceremony.
LEMMA AnswerMoves ==
    ASSUME IInv, NEW r \in Reqs, req[r].pc # "idle", req[r].kind \in Answers,
           NEW p, Follows(p, req[r]), p.pc \in Passed, p.pc \in Places[req[r].kind], p.count \in Nat,
           p.pc = "touch" => p.copy \in Passkey
    PROVE  ShapeOK(p)
<1>1. ShapeOK(req[r])
  BY DEF IInv, RequestOK
<1>2. p.pc \in PCs /\ p.pc \notin {"idle", "profile", "limit", "enable"}
  BY DEF Passed, PCs
<1> QED
  BY <1>1, <1>2, MovedShape

\* ReadCeremony: two requests that both find it are known to history.
LEMMA CeremonyStep ==
    ASSUME IInv, NEW r \in Reqs, ReadCeremony(r)
    PROVE  IInv'
<1> DEFINE q == req[r]
           pc == IF ~FlowAccepted(q.kind, flow[q.flow]) THEN "drop"
                 ELSE IF q.kind = "register" THEN "create" ELSE "assert"
           p == [q EXCEPT !.pc = pc]
<1>1. /\ q.pc = "ceremony"
      /\ raced' = IF \E s \in Reqs \ {r} : req[s].flow = q.flow THEN raced \cup {q.flow} ELSE raced
      /\ UNCHANGED <<driver, now, tables, calls, intended, guesses, uncounted, accepted, finished, stale, overlapped>>
  BY DEF ReadCeremony
<1>2. q.kind \in Answers
  <2>1. ShapeOK(q)
    BY DEF IInv, RequestOK
  <2> QED
    BY <1>1, <2>1, VerifierPlaces
<1>3. /\ ShapeOK(q) /\ DOMAIN q = RequestFields /\ q.flow \in Flows /\ q.count \in Nat
      /\ calls \in 0..MaxCalls
  BY <1>1, <1>2, AnswerShape DEF IInv, Typed
<1>4. CASE flow[q.flow] = Absent
  <2>1. Continue(r, Idle)
    BY <1>4 DEF ReadCeremony, Answer
  <2> QED
    BY <1>1, <1>3, <2>1, AnswerHolds, QuietStep DEF Accounted
<1>5. CASE flow[q.flow] # Absent
  <2>1. Continue(r, p)
    BY <1>5 DEF ReadCeremony, Proceed
  <2>2. Follows(p, q) /\ p.pc = pc /\ p.copy = q.copy /\ p.count = q.count
    BY <1>3, MovesOn
  <2>3. pc \in {"drop", "create", "assert"} /\ pc \in Places[q.kind]
    BY <1>2 DEF Answers, Places
  <2> HIDE DEF p, pc
  <2>4. ShapeOK(p)
    BY <1>1, <1>2, <1>3, <2>2, <2>3, AnswerMoves DEF Passed
  <2>5. Separate(r, p)
    BY <1>1, <1>3, <2>2, <2>3 DEF Separate, Follows
  <2>6. q.flow \notin raced' => finished[q.flow] = 0
    <3>1. SUFFICES ASSUME q.flow \notin raced', finished[q.flow] # 0 PROVE FALSE
      OBVIOUS
    <3>2. q.flow \notin raced /\ \A s \in Reqs \ {r} : req[s].flow # q.flow
      BY <1>1, <3>1
    <3>3. /\ finished[q.flow] <= 1 /\ finished[q.flow] \in Nat
          /\ finished[q.flow] = 1 => \E s \in Reqs : req[s].flow = q.flow /\ req[s].pc = "drop"
      BY <1>3, <1>5, <3>2 DEF IInv, CeremoniesOK, Typed
    <3> QED
      BY <1>1, <3>1, <3>2, <3>3
  <2>7. signed[q.flow] # Absent
    BY <1>3 DEF IInv, RequestOK, HoldsFlowOK
  <2>8. req'[r] = p => HoldsCodeOK(r)' /\ HoldsCopyOK(r)' /\ HoldsFlowOK(r)'
    BY <1>1, <2>2, <2>3, <2>6, <2>7 DEF HoldsCodeOK, HoldsCopyOK, HoldsFlowOK, Follows, tables
  <2> QED
    BY <1>1, <1>3, <2>1, <2>2, <2>3, <2>4, <2>5, <2>8, QuietStep DEF Accounted, Late
<1> QED
  BY <1>4, <1>5

\* A ceremony succeeds: for the first time, unless two requests had it.
LEMMA SuccessStep ==
    ASSUME IInv, NEW r \in Reqs, req[r].kind \in Answers, req[r].pc \in {"create", "session"},
           Proceed(r, "drop"), finished' = [finished EXCEPT ![req[r].flow] = @ + 1],
           sessions' \subseteq Browsers,
           DOMAIN passkeys' = Keys, \A k \in Keys : passkeys'[k] \in Passkey \cup {Absent},
           \A s \in Reqs \ {r} : /\ s \in stale => s \in stale'
                                 /\ s \notin stale' /\ req[s].pc \in {"lookup", "touch"} =>
                                       passkeys'[req[s].key] \in {passkeys[req[s].key], Absent},
           UNCHANGED <<driver, now, secret, pending, marker, failed, flow, signed, calls,
                       intended, guesses, uncounted, accepted, raced, overlapped>>
    PROVE  IInv'
<1> DEFINE q == req[r]
           p == [q EXCEPT !.pc = "drop"]
           f == q.flow
<1>1. Continue(r, p)
  BY DEF Proceed
<1>2. /\ DOMAIN q = RequestFields /\ f \in Flows /\ q.count \in Nat
      /\ f \notin raced => finished[f] = 0
  BY AnswerShape
<1>3. signed[f] # Absent
  BY <1>2 DEF IInv, RequestOK, HoldsFlowOK
<1>4. Follows(p, q) /\ p.pc = "drop" /\ p.count = q.count
  BY <1>2 DEF Follows, RequestFields
<1> HIDE DEF p
<1>5. ShapeOK(p)
  BY <1>2, <1>4, AnswerMoves DEF Passed, Places, Answers
<1>6. Grows
  BY FactorsAssumption DEF Grows, IInv, Typed
<1>7. Separate(r, p)
  BY <1>4 DEF Separate, Follows
<1>8. req'[r] = p => HoldsCodeOK(r)' /\ HoldsCopyOK(r)' /\ HoldsFlowOK(r)'
  BY <1>3, <1>4 DEF HoldsCodeOK, HoldsCopyOK, HoldsFlowOK, Follows
<1>9. finished \in [Flows -> Nat] /\ DOMAIN req = Reqs /\ req'[r] = p /\ \A s \in Reqs \ {r} : req'[s] = req[s]
  BY <1>1 DEF IInv, Typed, Continue
<1>10. \A s \in Reqs \ {r} : Told(s)
  <2>1. SUFFICES ASSUME NEW s \in Reqs \ {r} PROVE Told(s)
    OBVIOUS
  <2>2. req[s].flow \in Flows /\ req[s].pc # "ceremony" /\ req[s].flow \notin raced => req[s].flow # f
    BY <1>2, <2>1 DEF IInv, Apart
  <2>3. req[s].flow \in Flows /\ req[s].pc # "ceremony" /\ req[s].flow \notin raced =>
           finished'[req[s].flow] = finished[req[s].flow]
    BY <1>9, <2>2
  <2> QED
    BY <2>1, <2>3 DEF Told
<1>11. finished' \in [Flows -> Nat]
  BY <1>2, <1>9
<1>12. DOMAIN req' = Reqs => Typed'
  BY <1>11 DEF IInv, Typed, Retention
<1>13. CodesOK' /\ UserOK'
  BY DEF IInv, CodesOK, UserOK, Outdated
<1>14. CounterOK'
  BY <1>1, <1>4, CounterKept DEF Accounted, Late
<1>15. CeremoniesOK'
  <2>1. SUFFICES ASSUME NEW g \in Flows \ raced
                 PROVE  /\ finished'[g] <= 1
                        /\ finished'[g] = 1 =>
                              /\ signed[g] # Absent
                              /\ \/ flow[g] = Absent
                                 \/ \E s \in Reqs : req'[s].flow = g /\ req'[s].pc = "drop"
    BY DEF CeremoniesOK
  <2>2. CASE g = f
    <3>1. finished'[g] = 1
      BY <1>2, <1>9, <2>1, <2>2
    <3>2. req'[r].flow = g /\ req'[r].pc = "drop"
      BY <1>4, <1>9, <2>2 DEF Follows
    <3> QED
      BY <1>3, <2>2, <3>1, <3>2
  <2>3. CASE g # f
    <3>1. finished'[g] = finished[g]
      BY <1>9, <2>1, <2>3
    <3>2. /\ finished[g] <= 1
          /\ finished[g] = 1 => /\ signed[g] # Absent
                                /\ \/ flow[g] = Absent
                                   \/ \E s \in Reqs : req[s].flow = g /\ req[s].pc = "drop"
      BY <2>1 DEF IInv, CeremoniesOK
    <3> QED
      BY <1>9, <3>1, <3>2
  <2> QED
    BY <2>2, <2>3
<1> QED
  BY <1>1, <1>5, <1>6, <1>7, <1>8, <1>10, <1>12, <1>13, <1>14, <1>15, RequestStep

\* The session of a login with a code or with a passkey.
LEMMA SessionStep ==
    ASSUME IInv, NEW r \in Reqs, StoreSession(r)
    PROVE  IInv'
<1> DEFINE q == req[r]
<1>1. /\ q.pc = "session" /\ sessions' = sessions \cup {q.browser}
      /\ UNCHANGED <<driver, now, secret, pending, marker, failed, passkeys, flow, signed, calls,
                     intended, guesses, uncounted, accepted, stale, raced, overlapped>>
  BY DEF StoreSession
<1>2. ShapeOK(q)
  BY DEF IInv, RequestOK
<1>3. q.kind \in {"login", "passkey"}
  BY <1>1, <1>2, VerifierPlaces
<1>4. sessions' \subseteq Browsers
  BY <1>1, <1>2, <1>3 DEF ShapeOK, Verifiers, Answers, IInv, Typed
<1>5. CASE q.kind = "passkey"
  <2>1. Proceed(r, "drop") /\ finished' = [finished EXCEPT ![q.flow] = @ + 1]
    BY <1>5 DEF StoreSession
  <2>2. DOMAIN passkeys' = Keys /\ \A k \in Keys : passkeys'[k] \in Passkey \cup {Absent}
    BY <1>1 DEF IInv, Typed
  <2>3. q.kind \in Answers /\ q.pc \in {"create", "session"}
    BY <1>1, <1>5 DEF Answers
  <2> QED
    BY <1>1, <1>4, <2>1, <2>2, <2>3, SuccessStep
<1>6. CASE q.kind = "login"
  <2>1. Continue(r, Idle) /\ finished' = finished
    BY <1>6 DEF StoreSession, Answer
  <2>2. DOMAIN pending' = Browsers /\ \A b \in Browsers : pending'[b] \in Setup \cup {Absent}
    BY <1>1 DEF IInv, Typed
  <2> QED
    BY <1>1, <1>4, <2>1, <2>2, IdleShape, BrowserStep DEF history
<1> QED
  BY <1>3, <1>5, <1>6


\* CreatePasskey, after which copies from before a deletion are overtaken.
LEMMA CreateStep ==
    ASSUME IInv, NEW r \in Reqs, CreatePasskey(r)
    PROVE  IInv'
<1> DEFINE q == req[r]
<1>1. /\ q.pc = "create" /\ Proceed(r, "drop")
      /\ UNCHANGED <<driver, now, secret, pending, marker, failed, sessions, flow, signed, calls,
                     intended, guesses, uncounted, accepted, raced, overlapped>>
  BY DEF CreatePasskey
<1>2. q.kind = "register" /\ q.kind \in Answers
  <2>1. ShapeOK(q)
    BY DEF IInv, RequestOK
  <2> QED
    BY <1>1, <2>1, VerifierPlaces
<1>3. /\ DOMAIN q = RequestFields /\ q.flow \in Flows /\ q.key \in Keys /\ q.count \in Nat
      /\ signed[q.flow].count \in Nat
      /\ q.flow \notin raced => finished[q.flow] = 0
  BY <1>1, <1>2, AnswerShape
<1>4. CASE passkeys[q.key] = Absent
  <2> DEFINE new == [count |-> signed[q.flow].count, label |-> "old"]
  <2>1. /\ passkeys' = [passkeys EXCEPT ![q.key] = new]
        /\ finished' = [finished EXCEPT ![q.flow] = @ + 1]
        /\ stale' = Overtaken(r, {"lookup", "touch"}, q.key)
    BY <1>4 DEF CreatePasskey
  <2>2. new \in Passkey
    BY <1>3 DEF Passkey
  <2> HIDE DEF new
  <2>3. DOMAIN passkeys' = Keys /\ \A k \in Keys : passkeys'[k] \in Passkey \cup {Absent}
    BY <2>1, <2>2 DEF IInv, Typed
  <2>4. \A s \in Reqs \ {r} : /\ s \in stale => s \in stale'
                              /\ s \notin stale' /\ req[s].pc \in {"lookup", "touch"} =>
                                    passkeys'[req[s].key] \in {passkeys[req[s].key], Absent}
    <3>1. SUFFICES ASSUME NEW s \in Reqs \ {r}
                   PROVE  /\ s \in stale => s \in stale'
                          /\ s \notin stale' /\ req[s].pc \in {"lookup", "touch"} =>
                                passkeys'[req[s].key] = passkeys[req[s].key]
      OBVIOUS
    <3>2. s \notin stale' /\ req[s].pc \in {"lookup", "touch"} => req[s].key # q.key
      BY <2>1, <3>1 DEF Overtaken
    <3>3. req[s].pc \in {"lookup", "touch"} => req[s].key \in Keys
      <4>1. ShapeOK(req[s])
        BY <3>1 DEF IInv, RequestOK
      <4> QED
        BY <4>1, VerifierPlaces DEF ShapeOK, Answers
    <3> QED
      BY <2>1, <3>1, <3>2, <3>3 DEF Overtaken, IInv, Typed
  <2>5. sessions' \subseteq Browsers
    BY <1>1 DEF IInv, Typed
  <2> QED
    BY <1>1, <1>2, <2>1, <2>3, <2>4, <2>5, SuccessStep
<1>5. CASE passkeys[q.key] # Absent
  <2>1. UNCHANGED <<passkeys, finished, stale>>
    BY <1>5 DEF CreatePasskey
  <2> DEFINE p == [q EXCEPT !.pc = "drop"]
  <2>2. Continue(r, p)
    BY <1>1 DEF Proceed
  <2>3. Follows(p, q) /\ p.pc = "drop" /\ p.count = q.count
    BY <1>3 DEF Follows, RequestFields
  <2> HIDE DEF p
  <2>4. ShapeOK(p)
    BY <1>1, <1>2, <1>3, <2>3, AnswerMoves DEF Passed, Places
  <2>5. Separate(r, p)
    BY <1>1, <2>3 DEF Separate, Follows
  <2>6. signed[q.flow] # Absent /\ calls \in 0..MaxCalls
    BY <1>3 DEF IInv, Typed, RequestOK, HoldsFlowOK
  <2>7. req'[r] = p => HoldsCodeOK(r)' /\ HoldsCopyOK(r)' /\ HoldsFlowOK(r)'
    BY <1>1, <2>3, <2>6 DEF HoldsCodeOK, HoldsCopyOK, HoldsFlowOK, Follows
  <2> QED
    BY <1>1, <2>1, <2>2, <2>3, <2>4, <2>5, <2>6, <2>7, QuietStep DEF Accounted, tables, Late
<1> QED
  BY <1>4, <1>5

\* A request goes on with its ceremony, and no table is written.
LEMMA AnswerStep ==
    ASSUME IInv, NEW r \in Reqs, req[r].kind \in Answers, req[r].pc \in Passed \ {"drop"},
           NEW p, Continue(r, p), Follows(p, req[r]), p.count \in Nat,
           p.pc \in Passed, p.pc \in Places[req[r].kind],
           p.pc = "touch" => p.copy \in Passkey, req'[r] = p => HoldsCopyOK(r)',
           \A s \in Reqs \ {r} : s \in stale => s \in stale',
           UNCHANGED <<driver, now, tables, calls, intended, guesses, uncounted, accepted, finished, raced, overlapped>>
    PROVE  IInv'
<1>1. /\ req[r].pc # "idle" /\ req[r].pc \notin {"ceremony", "drop"}
      /\ p.pc \notin Late \cup {"mark", "ceremony"}
  BY DEF Passed, Late
<1>2. ShapeOK(p)
  BY <1>1, AnswerMoves
<1>3. Separate(r, p)
  BY <1>1 DEF Separate, Follows
<1>4. req[r].flow \in Flows /\ (req[r].flow \notin raced => finished[req[r].flow] = 0)
  BY <1>1, AnswerShape
<1>5. signed[req[r].flow] # Absent /\ calls \in 0..MaxCalls
  BY <1>4 DEF IInv, Typed, RequestOK, HoldsFlowOK
<1>6. req'[r] = p => HoldsCodeOK(r)' /\ HoldsFlowOK(r)'
  BY <1>1, <1>4, <1>5 DEF HoldsCodeOK, HoldsFlowOK, Follows, Late, tables
<1> QED
  BY <1>1, <1>2, <1>3, <1>5, <1>6, QuietStep DEF Accounted

\* The counter of the library never falls.
LEMMA CounterForward ==
    ASSUME NEW m \in Nat, NEW n \in Nat
    PROVE  UpdateCounter(m, n) \in Nat /\ UpdateCounter(m, n) >= m
  BY DEF UpdateCounter

\* The first lookup of the credential, which takes its count.
LEMMA ValidateStep ==
    ASSUME IInv, NEW r \in Reqs, ValidateLogin(r)
    PROVE  IInv'
<1> DEFINE q == req[r]
           k == q.key
           n == UpdateCounter(passkeys[k].count, signed[q.flow].count)
<1>1. /\ q.pc = "assert" /\ stale' = stale \ {r}
      /\ UNCHANGED <<driver, now, tables, calls, intended, guesses, uncounted, accepted, finished, raced, overlapped>>
  BY DEF ValidateLogin
<1>2. q.kind = "passkey" /\ q.kind \in Answers
  <2>1. ShapeOK(q)
    BY DEF IInv, RequestOK
  <2> QED
    BY <1>1, <2>1, VerifierPlaces DEF Answers
<1>3. /\ DOMAIN q = RequestFields /\ q.flow \in Flows /\ k \in Keys /\ q.count \in Nat
      /\ signed[q.flow].count \in Nat
  BY <1>1, <1>2, AnswerShape
<1>4. q.pc \in Passed \ {"drop"} /\ \A s \in Reqs \ {r} : s \in stale => s \in stale'
  BY <1>1 DEF Passed
<1>5. CASE passkeys[k] = Absent
  <2> DEFINE p == [q EXCEPT !.pc = "drop"]
  <2>1. Continue(r, p)
    BY <1>5 DEF ValidateLogin, Proceed
  <2>2. Follows(p, q) /\ p.pc = "drop" /\ p.count = q.count
    BY <1>3 DEF Follows, RequestFields
  <2> HIDE DEF p
  <2>3. p.pc \in Passed /\ p.pc \in Places[q.kind]
    BY <1>2, <2>2 DEF Passed, Places
  <2>4. req'[r] = p => HoldsCopyOK(r)'
    BY <2>2 DEF HoldsCopyOK
  <2> QED
    BY <1>1, <1>2, <1>3, <1>4, <2>1, <2>2, <2>3, <2>4, AnswerStep
<1>6. CASE passkeys[k] # Absent
  <2> DEFINE p == [q EXCEPT !.pc = "lookup", !.count = n]
  <2>1. Continue(r, p)
    BY <1>6 DEF ValidateLogin
  <2>2. passkeys[k].count \in Nat
    BY <1>3, <1>6 DEF IInv, Typed, Passkey
  <2>3. n \in Nat /\ n >= passkeys[k].count
    BY <1>3, <2>2, CounterForward
  <2> HIDE DEF n
  <2>4. Follows(p, q) /\ p.pc = "lookup" /\ p.count = n
    BY <1>3 DEF Follows, RequestFields
  <2> HIDE DEF p
  <2>5. p.pc \in Passed /\ p.pc \in Places[q.kind]
    BY <1>2, <2>4 DEF Passed, Places
  <2>6. req'[r] = p => HoldsCopyOK(r)'
    BY <1>1, <2>3, <2>4 DEF HoldsCopyOK, Follows, tables
  <2> QED
    BY <1>1, <1>2, <1>3, <1>4, <2>1, <2>3, <2>4, <2>5, <2>6, AnswerStep
<1> QED
  BY <1>5, <1>6

\* The second lookup, whose copy gets the count.
LEMMA LookupStep ==
    ASSUME IInv, NEW r \in Reqs, LookupPasskey(r)
    PROVE  IInv'
<1> DEFINE q == req[r]
           k == q.key
<1>1. q.pc = "lookup" /\ UNCHANGED <<driver, now, tables, calls, history>>
  BY DEF LookupPasskey
<1>2. q.kind = "passkey" /\ q.kind \in Answers
  <2>1. ShapeOK(q)
    BY DEF IInv, RequestOK
  <2> QED
    BY <1>1, <2>1, VerifierPlaces DEF Answers
<1>3. DOMAIN q = RequestFields /\ q.flow \in Flows /\ k \in Keys /\ q.count \in Nat
  BY <1>1, <1>2, AnswerShape
<1>4. /\ q.pc \in Passed \ {"drop"} /\ \A s \in Reqs \ {r} : s \in stale => s \in stale'
      /\ UNCHANGED <<driver, now, tables, calls, intended, guesses, uncounted, accepted, finished, raced, overlapped>>
  BY <1>1 DEF Passed, history
<1>5. CASE passkeys[k] = Absent
  <2> DEFINE p == [q EXCEPT !.pc = "drop"]
  <2>1. Continue(r, p)
    BY <1>5 DEF LookupPasskey, Proceed
  <2>2. Follows(p, q) /\ p.pc = "drop" /\ p.count = q.count
    BY <1>3 DEF Follows, RequestFields
  <2> HIDE DEF p
  <2>3. p.pc \in Passed /\ p.pc \in Places[q.kind]
    BY <1>2, <2>2 DEF Passed, Places
  <2>4. req'[r] = p => HoldsCopyOK(r)'
    BY <2>2 DEF HoldsCopyOK
  <2> QED
    BY <1>2, <1>3, <1>4, <2>1, <2>2, <2>3, <2>4, AnswerStep
<1>6. CASE passkeys[k] # Absent
  <2> DEFINE c == [passkeys[k] EXCEPT !.count = q.count]
             p == [q EXCEPT !.pc = "touch", !.copy = c]
  <2>1. Continue(r, p)
    BY <1>6 DEF LookupPasskey
  <2>2. c \in Passkey /\ c.count = q.count
    BY <1>3, <1>6 DEF IInv, Typed, Passkey
  <2> HIDE DEF c
  <2>3. Follows(p, q) /\ p.pc = "touch" /\ p.copy = c /\ p.count = q.count
    BY <1>3 DEF Follows, RequestFields
  <2> HIDE DEF p
  <2>4. p.pc \in Passed /\ p.pc \in Places[q.kind]
    BY <1>2, <2>3 DEF Passed, Places
  <2>5. r \notin stale /\ passkeys[k] # Absent => q.count >= passkeys[k].count
    BY <1>1 DEF IInv, RequestOK, HoldsCopyOK
  <2>6. req'[r] = p => HoldsCopyOK(r)'
    BY <1>1, <2>2, <2>3, <2>5 DEF HoldsCopyOK, Follows, tables, history
  <2> QED
    BY <1>2, <1>3, <1>4, <2>1, <2>2, <2>3, <2>4, <2>6, AnswerStep
<1> QED
  BY <1>5, <1>6

\* A credential is written back: others that hold it are overtaken.
LEMMA TouchWrites ==
    ASSUME IInv, NEW r \in Reqs, NEW k \in Keys, NEW new \in Passkey, NEW p, Continue(r, p), ShapeOK(p),
           p.pc \in {"idle", "session"}, p.flow = req[r].flow \/ p.flow = Absent,
           req[r].pc = "touch",
           passkeys' = [passkeys EXCEPT ![k] = new], raced \subseteq raced',
           stale' = Overtaken(r, {"lookup", "touch"}, k),
           UNCHANGED <<driver, now, secret, pending, marker, failed, sessions, flow, signed, calls,
                       intended, guesses, uncounted, accepted, finished, overlapped>>
    PROVE  IInv'
<1>0. Absent \notin Flows
  BY FactorsAssumption
<1>1. Grows
  BY FactorsAssumption DEF Grows, IInv, Typed
<1>2. Separate(r, p)
  BY <1>0 DEF Separate
<1>3. req'[r] = p => HoldsCodeOK(r)' /\ HoldsCopyOK(r)' /\ HoldsFlowOK(r)'
  <2>1. HoldsFlowOK(r)
    BY DEF IInv, RequestOK
  <2> QED
    BY <1>0, <2>1 DEF HoldsCodeOK, HoldsCopyOK, HoldsFlowOK
<1>4. \A s \in Reqs \ {r} : Told(s)
  <2>1. SUFFICES ASSUME NEW s \in Reqs \ {r} PROVE Told(s)
    OBVIOUS
  <2>2. s \notin stale' /\ req[s].pc \in {"lookup", "touch"} => req[s].key # k
    BY <2>1 DEF Overtaken
  <2>3. req[s].pc \in {"lookup", "touch"} => req[s].key \in Keys
    <3>1. ShapeOK(req[s])
      BY <2>1 DEF IInv, RequestOK
    <3> QED
      BY <3>1, VerifierPlaces DEF ShapeOK, Answers
  <2>4. s \in stale => s \in stale'
    BY <2>1 DEF Overtaken
  <2>5. s \notin stale' /\ req[s].pc \in {"lookup", "touch"} =>
           passkeys'[req[s].key] = passkeys[req[s].key]
    BY <2>2, <2>3 DEF IInv, Typed
  <2> QED
    BY <2>4, <2>5 DEF Told
<1>5. DOMAIN passkeys' = Keys /\ \A j \in Keys : passkeys'[j] \in Passkey \cup {Absent}
  BY DEF IInv, Typed
<1>6. DOMAIN req' = Reqs => Typed'
  BY <1>5 DEF IInv, Typed, Retention
<1>7. CodesOK' /\ UserOK'
  BY DEF IInv, CodesOK, UserOK, Outdated
<1>8. CounterOK'
  BY CounterKept DEF Accounted, Late
<1>9. CeremoniesOK'
  BY <1>1, CeremoniesKept
<1> QED
  BY <1>1, <1>2, <1>3, <1>4, <1>6, <1>7, <1>8, <1>9, RequestStep

\* Store.UpdatePasskey, for a login and for a rename.
LEMMA TouchStep ==
    ASSUME IInv, NEW r \in Reqs, UpdatePasskey(r)
    PROVE  IInv'
<1> DEFINE q == req[r]
           k == q.key
           p(pc) == [q EXCEPT !.pc = pc]
<1>1. /\ q.pc = "touch"
      /\ UNCHANGED <<driver, now, secret, pending, marker, failed, sessions, flow, signed, calls,
                     intended, guesses, uncounted, accepted, finished, overlapped>>
  BY DEF UpdatePasskey
<1>2. /\ ShapeOK(q) /\ q.kind \in {"passkey", "rename"} /\ k \in Keys /\ q.copy \in Passkey
      /\ DOMAIN q = RequestFields /\ q.count \in Nat /\ calls \in 0..MaxCalls
  <2>1. ShapeOK(q) /\ calls \in 0..MaxCalls
    BY DEF IInv, RequestOK, Typed
  <2>2. q.kind \in {"passkey", "rename"}
    BY <1>1, <2>1, VerifierPlaces
  <2> QED
    BY <1>1, <2>1, <2>2 DEF ShapeOK, Answers
<1>3. \A pc : /\ Follows(p(pc), q) /\ p(pc).pc = pc /\ p(pc).count = q.count
              /\ p(pc).flow = q.flow
  BY <1>2 DEF Follows, RequestFields
<1>4. CASE passkeys[k] # Absent
  <2>1. /\ passkeys' = [passkeys EXCEPT ![k] = q.copy]
        /\ raced' = RacedWith(r, k) /\ stale' = Overtaken(r, {"lookup", "touch"}, k)
        /\ IF q.kind = "rename" THEN Continue(r, Idle) ELSE Continue(r, p("session"))
    BY <1>4 DEF UpdatePasskey, Answer, Proceed
  <2>2. raced \subseteq raced'
    BY <2>1 DEF RacedWith
  <2>3. CASE q.kind = "rename"
    <3>1. Continue(r, Idle)
      BY <2>1, <2>3
    <3> QED
      BY <1>1, <1>2, <2>1, <2>2, <3>1, IdleShape, TouchWrites
  <2>4. CASE q.kind = "passkey"
    <3>1. Continue(r, p("session"))
      BY <2>1, <2>4
    <3> HIDE DEF p
    <3>2. ShapeOK(p("session"))
      BY <1>1, <1>2, <1>3, <2>4, AnswerMoves DEF Passed, Places, Answers
    <3> QED
      BY <1>1, <1>2, <1>3, <2>1, <2>2, <3>1, <3>2, TouchWrites
  <2> QED
    BY <1>2, <2>3, <2>4
<1>5. CASE passkeys[k] = Absent
  <2>1. /\ UNCHANGED <<passkeys, raced, stale>>
        /\ IF q.kind = "rename" THEN Continue(r, Idle) ELSE Continue(r, p("drop"))
    BY <1>5 DEF UpdatePasskey, Answer, Proceed
  <2>2. CASE q.kind = "rename"
    <3>1. Continue(r, Idle)
      BY <2>1, <2>2
    <3> QED
      BY <1>1, <1>2, <2>1, <3>1, AnswerHolds, QuietStep DEF Accounted, tables
  <2>3. CASE q.kind = "passkey"
    <3>1. Continue(r, p("drop"))
      BY <2>1, <2>3
    <3> HIDE DEF p
    <3>2. p("drop").pc \in Passed /\ p("drop").pc \in Places[q.kind] /\ q.pc \in Passed \ {"drop"}
      BY <1>1, <1>3, <2>3 DEF Passed, Places
    <3>3. req'[r] = p("drop") => HoldsCopyOK(r)'
      BY <1>3 DEF HoldsCopyOK
    <3>4. Follows(p("drop"), q) /\ p("drop").count \in Nat /\ p("drop").pc = "drop" /\ q.kind \in Answers
      BY <1>2, <1>3, <2>3 DEF Answers
    <3> QED
      BY <1>1, <2>1, <3>1, <3>2, <3>3, <3>4, AnswerStep DEF tables
  <2> QED
    BY <1>2, <2>2, <2>3
<1> QED
  BY <1>4, <1>5

\* The deferred deletion of the ceremony.
LEMMA DropStep ==
    ASSUME IInv, NEW r \in Reqs, DropCeremony(r)
    PROVE  IInv'
<1> DEFINE q == req[r]
<1>1. /\ q.pc = "drop" /\ flow' = [flow EXCEPT ![q.flow] = Absent] /\ Continue(r, Idle)
      /\ UNCHANGED <<driver, now, secret, pending, marker, failed, sessions, passkeys, signed, calls,
                     intended, guesses, uncounted, accepted, finished, stale, overlapped, raced>>
  BY DEF DropCeremony, Answer, history
<1>2. Grows
  BY <1>1, FactorsAssumption DEF Grows, IInv, Typed
<1>3. \A s \in Reqs \ {r} : Told(s)
  BY <1>1 DEF Told
<1>4. DOMAIN flow' = Flows /\ \A f \in Flows : flow'[f] \in Ceremony \cup {Absent}
  BY <1>1 DEF IInv, Typed
<1>5. DOMAIN req' = Reqs => Typed'
  BY <1>1, <1>4 DEF IInv, Typed, Retention
<1>6. CodesOK' /\ UserOK'
  BY <1>1 DEF IInv, CodesOK, UserOK, Outdated
<1>7. CounterOK'
  BY <1>1, AnswerHolds, CounterKept DEF Accounted
<1>8. CeremoniesOK'
  <2>1. DOMAIN flow = Flows /\ DOMAIN req = Reqs /\ \A s \in Reqs \ {r} : req'[s] = req[s]
    BY <1>1 DEF IInv, Typed, Continue
  <2>2. SUFFICES ASSUME NEW f \in Flows \ raced
                 PROVE  /\ finished[f] <= 1
                        /\ finished[f] = 1 => /\ signed[f] # Absent
                                              /\ \/ flow'[f] = Absent
                                                 \/ \E s \in Reqs : req'[s].flow = f /\ req'[s].pc = "drop"
    BY <1>1 DEF CeremoniesOK
  <2>3. /\ finished[f] <= 1
        /\ finished[f] = 1 => /\ signed[f] # Absent
                              /\ \/ flow[f] = Absent
                                 \/ \E s \in Reqs : req[s].flow = f /\ req[s].pc = "drop"
    BY <2>2 DEF IInv, CeremoniesOK
  <2>4. CASE f = q.flow
    BY <1>1, <2>1, <2>2, <2>3, <2>4
  <2>5. CASE f # q.flow
    BY <1>1, <2>1, <2>3, <2>5
  <2> QED
    BY <2>4, <2>5
<1> QED
  BY <1>1, <1>2, <1>3, <1>5, <1>6, <1>7, <1>8, AnswerHolds, RequestStep

\* A store call fails.
LEMMA GiveUpStep ==
    ASSUME IInv, NEW r \in Reqs, GiveUp(r)
    PROVE  IInv'
<1> DEFINE q == req[r]
           p == [q EXCEPT !.pc = "drop"]
<1>1. /\ q.pc \notin {"idle", "fail", "count"}
      /\ UNCHANGED <<driver, now, tables, calls, intended, guesses, uncounted, accepted, finished, stale, overlapped>>
      /\ \/ Continue(r, Idle) /\ raced' = IF q.flow # Absent THEN raced \cup {q.flow} ELSE raced
         \/ /\ q.pc \in {"create", "assert", "lookup", "touch", "session"} /\ q.flow # Absent
            /\ Continue(r, p) /\ UNCHANGED raced
  BY DEF GiveUp, Answer, Proceed
<1>2. ShapeOK(q) /\ calls \in 0..MaxCalls /\ Absent \notin Flows
  BY FactorsAssumption DEF IInv, RequestOK, Typed
<1>3. CASE Continue(r, Idle) /\ raced' = IF q.flow # Absent THEN raced \cup {q.flow} ELSE raced
  <2>1. q.pc = "drop" => q.flow \in Flows
    BY <1>2, VerifierPlaces DEF ShapeOK
  <2>2. raced \subseteq raced' /\ (q.pc = "drop" => q.flow \in raced')
    BY <1>2, <1>3, <2>1
  <2> QED
    BY <1>1, <1>2, <1>3, <2>2, AnswerHolds, QuietStep DEF Accounted
<1>4. CASE /\ q.pc \in {"create", "assert", "lookup", "touch", "session"} /\ q.flow # Absent
           /\ Continue(r, p) /\ UNCHANGED raced
  <2>1. q.kind \in Answers /\ DOMAIN q = RequestFields /\ q.count \in Nat
    BY <1>2, <1>4 DEF ShapeOK
  <2>2. Follows(p, q) /\ p.pc = "drop" /\ p.count = q.count
    BY <2>1 DEF Follows, RequestFields
  <2> HIDE DEF p
  <2>3. p.pc \in Passed /\ p.pc \in Places[q.kind] /\ q.pc \in Passed \ {"drop"}
    BY <1>4, <2>1, <2>2 DEF Passed, Places, Answers
  <2>4. req'[r] = p => HoldsCopyOK(r)'
    BY <2>2 DEF HoldsCopyOK
  <2> QED
    BY <1>1, <1>4, <2>1, <2>2, <2>3, <2>4, AnswerStep
<1> QED
  BY <1>1, <1>3, <1>4

\* The store cannot count a failure.
LEMMA LoseFailureStep ==
    ASSUME IInv, NEW r \in Reqs, LoseFailure(r)
    PROVE  IInv'
<1>1. /\ req[r].pc \in {"fail", "count"} /\ Continue(r, Idle) /\ Accounted /\ raced' = raced
      /\ UNCHANGED <<driver, now, tables, calls, intended, accepted, finished, stale, overlapped>>
  BY DEF LoseFailure, Answer, Accounted
<1>2. calls \in 0..MaxCalls
  BY DEF IInv, Typed
<1> QED
  BY <1>1, <1>2, AnswerHolds, QuietStep

-----------------------------------------------------------------------------
(* Requests of a single store call, and the clock.                         *)

\* No request moves, and none relies on what is written.
LEMMA TableStep ==
    ASSUME IInv, req' = req, Grows, UNCHANGED <<failed, guesses, uncounted, raced, finished>>,
           \A s \in Reqs : Told(s), Typed', CodesOK', UserOK',
           \A f \in Flows \ raced : finished[f] = 1 /\ flow[f] = Absent => flow'[f] = Absent
    PROVE  IInv'
<1>1. \A s \in Reqs : RequestOK(s)'
  BY OthersHold DEF IInv
<1>2. ASSUME NEW s \in Reqs, NEW t \in Reqs, s # t PROVE Apart(s, t)'
  BY <1>2, OthersApart DEF IInv
<1>3. CounterOK'
  BY DEF IInv, CounterOK, Trying
<1>4. CeremoniesOK'
  BY DEF IInv, CeremoniesOK, Grows
<1> QED
  BY <1>1, <1>2, <1>3, <1>4 DEF IInv

\* SetupTOTP.
LEMMA SetupStep ==
    ASSUME IInv, NEW r \in Reqs, SetupTOTP(r)
    PROVE  IInv'
<1>1. /\ calls < MaxCalls /\ calls' = calls + 1 /\ req' = req
      /\ UNCHANGED <<driver, now, secret, marker, failed, sessions, passkeys, flow, signed,
                     intended, guesses, uncounted, accepted, finished, stale, overlapped, raced>>
  BY DEF SetupTOTP, history
<1>2. PICK b \in sessions, s \in Secrets :
         pending' = [pending EXCEPT ![b] = [secret |-> s, expires |-> now + SetupTTL]]
  BY DEF SetupTOTP
<1>3. now \in Nat /\ SetupTTL \in Nat
  BY FactorsAssumption DEF IInv, Typed
<1>4. [secret |-> s, expires |-> now + SetupTTL] \in Setup
  BY <1>3 DEF Setup
<1>5. DOMAIN pending' = Browsers /\ \A d \in Browsers : pending'[d] \in Setup \cup {Absent}
  BY <1>2, <1>4 DEF IInv, Typed
<1>6. Typed'
  BY <1>1, <1>5, FactorsAssumption DEF IInv, Typed, Retention
<1>7. CodesOK' /\ UserOK'
  BY <1>1 DEF IInv, CodesOK, UserOK, Outdated
<1>8. Grows /\ \A t \in Reqs : Told(t)
  BY <1>1, <1>3 DEF Grows, Told
<1> QED
  BY <1>1, <1>6, <1>7, <1>8, TableStep

\* BeginPasskeyRegistration and BeginPasskeyLogin, for a flow that was not
\* used before.
LEMMA BeginStep ==
    ASSUME IInv, NEW r \in Reqs, NEW type \in {"registration", "login"}, Begin(r, type)
    PROVE  IInv'
<1>1. /\ calls < MaxCalls /\ calls' = calls + 1 /\ req' = req
      /\ UNCHANGED <<driver, now, secret, pending, marker, failed, sessions, passkeys, signed,
                     intended, guesses, uncounted, accepted, finished, stale, overlapped, raced>>
  BY DEF Begin, history
<1>2. PICK f \in Flows :
         /\ flow[f] = Absent /\ signed[f] = Absent
         /\ flow' = [flow EXCEPT ![f] = [type |-> type, expires |-> now + FlowTTL]]
  BY DEF Begin
<1>3. now \in Nat /\ FlowTTL \in Nat
  BY FactorsAssumption DEF IInv, Typed
<1>4. [type |-> type, expires |-> now + FlowTTL] \in Ceremony
  BY <1>3 DEF Ceremony
<1>5. DOMAIN flow' = Flows /\ \A g \in Flows : flow'[g] \in Ceremony \cup {Absent}
  BY <1>2, <1>4 DEF IInv, Typed
<1>6. Typed'
  BY <1>1, <1>5, FactorsAssumption DEF IInv, Typed, Retention
<1>7. CodesOK' /\ UserOK'
  BY <1>1 DEF IInv, CodesOK, UserOK, Outdated
<1>8. Grows /\ \A s \in Reqs : Told(s)
  BY <1>1, <1>3 DEF Grows, Told
<1>9. \A g \in Flows \ raced : finished[g] = 1 /\ flow[g] = Absent => flow'[g] = Absent
  <2>1. \A g \in Flows \ raced : finished[g] = 1 => g # f
    BY <1>2 DEF IInv, CeremoniesOK
  <2> QED
    BY <1>2, <2>1 DEF IInv, Typed
<1> QED
  BY <1>1, <1>6, <1>7, <1>8, <1>9, TableStep

\* DeletePasskey: whoever holds the credential will find that it is gone.
LEMMA DeleteStep ==
    ASSUME IInv, NEW r \in Reqs, DeletePasskey(r)
    PROVE  IInv'
<1>1. /\ calls < MaxCalls /\ calls' = calls + 1 /\ req' = req
      /\ UNCHANGED <<driver, now, secret, pending, marker, failed, sessions, flow, signed,
                     intended, guesses, uncounted, accepted, finished, stale, overlapped, raced>>
  BY DEF DeletePasskey, history
<1>2. PICK k \in Keys : passkeys' = [passkeys EXCEPT ![k] = Absent]
  BY DEF DeletePasskey
<1>3. /\ DOMAIN passkeys' = Keys /\ \A j \in Keys : passkeys'[j] \in Passkey \cup {Absent}
      /\ \A j \in Keys : passkeys'[j] \in {passkeys[j], Absent}
  BY <1>2 DEF IInv, Typed
<1>4. Typed'
  BY <1>1, <1>3, FactorsAssumption DEF IInv, Typed, Retention
<1>5. CodesOK' /\ UserOK'
  BY <1>1 DEF IInv, CodesOK, UserOK, Outdated
<1>6. Grows
  BY <1>1, FactorsAssumption DEF Grows, IInv, Typed
<1>7. ASSUME NEW s \in Reqs PROVE Told(s)
  <2>1. req[s].pc \in {"lookup", "touch"} => req[s].key \in Keys
    <3>1. ShapeOK(req[s])
      BY DEF IInv, RequestOK
    <3> QED
      BY <3>1, VerifierPlaces DEF ShapeOK, Answers
  <2> QED
    BY <1>1, <1>3, <2>1 DEF Told
<1> QED
  BY <1>1, <1>4, <1>5, <1>6, <1>7, TableStep

\* Time passes.
LEMMA TickStep ==
    ASSUME IInv, Tick
    PROVE  IInv'
<1>1. /\ now < MaxTime /\ now' = now + 1 /\ req' = req
      /\ UNCHANGED <<driver, tables, calls, intended, guesses, uncounted, accepted, finished, stale, overlapped, raced>>
  BY DEF Tick, history
<1>2. now \in Nat /\ MaxTime \in Nat
  BY FactorsAssumption DEF IInv, Typed
<1>3. now' \in 0..MaxTime
  BY <1>1, <1>2
<1>4. Typed'
  BY <1>1, <1>3 DEF IInv, Typed, Retention, tables
<1>5. CodesOK'
  <2>1. \A c \in TotpCodes : now >= Outdated(c) => now' >= Outdated(c)
    BY <1>1, <1>2, CodeTypes
  <2>2. marker' = marker /\ accepted' = accepted /\ overlapped' = overlapped
    BY <1>1 DEF tables
  <2> QED
    BY <2>1, <2>2 DEF IInv, CodesOK, Outdated
<1>6. UserOK'
  BY <1>1 DEF IInv, UserOK, tables
<1>7. Grows /\ \A s \in Reqs : Told(s)
  BY <1>1, <1>2 DEF Grows, Told, tables
<1> QED
  BY <1>1, <1>4, <1>5, <1>6, <1>7, TableStep DEF tables

-----------------------------------------------------------------------------
(* The invariant, and what it says.                                        *)

\* The user starts with a factor, credentials and ceremonies, and no request.
LEMMA InitInv == Init => IInv
<1>1. SUFFICES ASSUME Init PROVE IInv
  OBVIOUS
<1>2. PICK s \in Starts : /\ driver = s.driver /\ secret = s.secret
                          /\ passkeys = s.passkeys /\ flow = s.flow
  BY <1>1 DEF Init
<1>3. \A r \in Reqs : req[r] = Idle
  BY <1>1 DEF Init
<1>4. ShapeOK(Idle) /\ Idle.pc = "idle" /\ Idle.flow = Absent /\ Absent \notin Flows
  BY IdleShape, FactorsAssumption
<1>5. Typed
  <2>1. MaxTime \in Nat /\ MaxCalls \in Nat /\ Retention \in Nat
    BY FactorsAssumption, RetentionCovers
  <2> QED
    BY <1>1, <1>2, <2>1, StartsAssumption DEF Init, Typed
<1>6. CodesOK /\ UserOK /\ CeremoniesOK
  BY <1>1 DEF Init, CodesOK, UserOK, CeremoniesOK
<1>7. CounterOK
  <2>1. Trying = {}
    BY <1>3, <1>4 DEF Trying
  <2>2. Cardinality(Trying) = 0
    BY <2>1, FS_EmptySet
  <2>3. Cardinality(Reqs) \in Nat /\ MaxFailures \in Nat /\ MaxFailures > 0
    BY FactorsAssumption, FS_CardinalityType
  <2> QED
    BY <1>1, <2>2, <2>3 DEF Init, CounterOK
<1>8. ASSUME NEW r \in Reqs PROVE RequestOK(r)
  BY <1>3, <1>4 DEF RequestOK, HoldsCodeOK, HoldsCopyOK, HoldsFlowOK
<1>9. ASSUME NEW r \in Reqs, NEW other \in Reqs PROVE Apart(r, other)
  BY <1>3, <1>4 DEF Apart
<1> QED
  BY <1>5, <1>6, <1>7, <1>8, <1>9 DEF IInv

\* A step that changes nothing.
LEMMA StutterInv ==
    ASSUME IInv, UNCHANGED vars
    PROVE  IInv'
<1>1. /\ req' = req /\ UNCHANGED <<driver, now, secret, pending, marker, failed, sessions, passkeys, flow,
            signed, calls, intended, guesses, uncounted, accepted, finished, stale, overlapped, raced>>
  BY DEF vars, tables, history
<1>2. Typed'
  BY <1>1 DEF IInv, Typed, Retention
<1>3. CodesOK' /\ UserOK'
  BY <1>1 DEF IInv, CodesOK, UserOK, Outdated
<1>4. Grows /\ \A s \in Reqs : Told(s)
  BY <1>1, FactorsAssumption DEF Grows, Told, IInv, Typed
<1> QED
  BY <1>1, <1>2, <1>3, <1>4, TableStep

\* Every step keeps the invariant.
LEMMA NextInv == IInv /\ [Next]_vars => IInv'
<1>1. SUFFICES ASSUME IInv, [Next]_vars PROVE IInv'
  OBVIOUS
<1>2. CASE UNCHANGED vars
  BY <1>1, <1>2, StutterInv
<1>3. CASE Tick
  BY <1>1, <1>3, TickStep
<1>4. CASE \E r \in Reqs : Arrive(r)
  <2>1. PICK r \in Reqs : Arrive(r)
    BY <1>4
  <2>2. CASE ReceiveLogin(r) \/ ReceiveDisable(r) \/ ReceiveConfirm(r) \/ ReceiveProfile(r)
    BY <1>1, <2>2, LoginStep, DisableArrives, ConfirmArrives, ProfileArrives
  <2>3. CASE ReceiveRename(r) \/ ReceiveFinish(r)
    BY <1>1, <2>3, RenameArrives, FinishArrives
  <2>4. CASE SetupTOTP(r) \/ DeletePasskey(r)
    BY <1>1, <2>4, SetupStep, DeleteStep
  <2>5. CASE BeginRegistration(r) \/ BeginLogin(r)
    BY <1>1, <2>5, BeginStep DEF BeginRegistration, BeginLogin
  <2> QED
    BY <2>1, <2>2, <2>3, <2>4, <2>5 DEF Arrive
<1>5. CASE \E r \in Reqs : Step(r)
  <2>1. PICK r \in Reqs : Step(r)
    BY <1>5
  <2>2. CASE CheckLimit(r) \/ CheckReplay(r) \/ StoreTOTPReplay(r) \/ ResetFailedTOTP(r)
    BY <1>1, <2>2, LimitStep, ReplayStep, MarkStep, ResetStep
  <2>3. CASE IncrementFailedTOTP(r) \/ ReadCounter(r) \/ WriteCounter(r) \/ StoreSession(r)
    BY <1>1, <2>3, IncrementStep, ReadCounterStep, WriteCounterStep, SessionStep
  <2>4. CASE DisableTOTP(r) \/ RevokeSessions(r) \/ ReadPending(r) \/ EnableTOTP(r)
    BY <1>1, <2>4, DisableStep, RevokeStep, PendingStep, EnableStep
  <2>5. CASE DeletePendingSetup(r) \/ UpdateProfile(r) \/ ReadCeremony(r) \/ CreatePasskey(r)
    BY <1>1, <2>5, UnpendStep, ProfileStep, CeremonyStep, CreateStep
  <2>6. CASE ValidateLogin(r) \/ LookupPasskey(r) \/ UpdatePasskey(r) \/ DropCeremony(r)
    BY <1>1, <2>6, ValidateStep, LookupStep, TouchStep, DropStep
  <2> QED
    BY <2>1, <2>2, <2>3, <2>4, <2>5, <2>6 DEF Step
<1>6. CASE \E r \in Reqs : GiveUp(r) \/ LoseFailure(r)
  BY <1>1, <1>6, GiveUpStep, LoseFailureStep
<1> QED
  BY <1>1, <1>2, <1>3, <1>4, <1>5, <1>6 DEF Next

\* What concurrent requests may rely on, and what the tables keep, holds in
\* every reachable state.
THEOREM FactorsInvariant == Spec => []IInv
  BY InitInv, NextInv, PTL DEF Spec

\* A code is accepted once unless two verifications of it overlapped: its
\* marker outlives the code, whatever the configured duration of the replay
\* cache is (verifyTOTPCode).
THEOREM CodesOnce == Spec => []CodesAcceptedOnce
<1>1. IInv => CodesAcceptedOnce
  <2>1. SUFFICES ASSUME IInv, NEW c \in TotpCodes, accepted[c] > 1, c \notin overlapped PROVE FALSE
    BY DEF CodesAcceptedOnce
  <2>2. accepted[c] <= 1 /\ accepted[c] \in Nat
    BY <2>1 DEF IInv, CodesOK, Typed
  <2> QED
    BY <2>1, <2>2
<1> QED
  BY <1>1, FactorsInvariant, PTL

\* Wrong codes are counted, and fewer guesses are made than the limit allows
\* plus one for each concurrent request, unless an increment was lost
\* (verifyTOTPCode, IncrementCounter).
THEOREM GuessesLimited == Spec => []GuessesBounded
<1>1. IInv => GuessesBounded
  <2>1. SUFFICES ASSUME IInv, "counter" \notin raced
                 PROVE  guesses = failed + uncounted /\ failed < MaxFailures + Cardinality(Reqs)
    BY DEF GuessesBounded
  <2>2. /\ guesses = failed + uncounted /\ failed \in Nat /\ DOMAIN req = Reqs
        /\ failed + Cardinality(Trying) < MaxFailures + Cardinality(Reqs)
    BY <2>1 DEF IInv, CounterOK, Typed
  <2>3. Cardinality(Trying) \in Nat /\ Cardinality(Reqs) \in Nat /\ MaxFailures \in Nat
    BY <2>2, TryingFinite, FactorsAssumption
  <2> QED
    BY <2>2, <2>3
<1> QED
  BY <1>1, FactorsInvariant, PTL

\* The records are well formed, and the secret is the one last confirmed, none
\* after a disable, unless a change of the user was written over an overtaken
\* copy (ConfirmTOTP, DisableTOTP, UpdateUserProfile).
THEOREM FactorKept == Spec => []FactorLostOnlyByRace
<1>1. IInv => FactorLostOnlyByRace
  <2>1. SUFFICES ASSUME IInv PROVE FactorLostOnlyByRace
    OBVIOUS
  <2>2. Typed /\ UserOK /\ \A r \in Reqs : ShapeOK(req[r])
    BY <2>1 DEF IInv, RequestOK
  <2>3. \A c \in TotpCodes : \/ marker[c] <= MaxTime + ReplayCache
                             \/ marker[c] <= MaxTime + Period * (2 * Skew + 1)
    BY <2>2, RetentionCovers DEF Typed
  <2>4. \A r \in Reqs : req[r].pc \in PCs /\ req[r].kind \in Kinds /\ req[r].count \in Nat
    BY <2>2 DEF ShapeOK
  <2>5. TypeOK
    BY <2>2, <2>3, <2>4 DEF Typed, TypeOK
  <2> QED
    BY <2>2, <2>5 DEF FactorLostOnlyByRace, UserOK
<1> QED
  BY <1>1, FactorsInvariant, PTL

\* A ceremony gives one passkey or one session, unless two answers overlapped
\* or the deletion failed (FinishPasskeyRegistration, FinishPasskeyLogin).
THEOREM CeremoniesOnce == Spec => []CeremonyUsedOnce
<1>1. IInv => CeremonyUsedOnce
  BY DEF IInv, CeremoniesOK, CeremonyUsedOnce
<1> QED
  BY <1>1, FactorsInvariant, PTL

\* Only a registration, a login, a rename and a deletion write credentials.
LEMMA PasskeysWritten ==
    ASSUME Next, passkeys' # passkeys
    PROVE  \E r \in Reqs : CreatePasskey(r) \/ UpdatePasskey(r) \/ DeletePasskey(r)
<1> USE DEF tables
<1>1. ~Tick
  BY DEF Tick
<1>2. PICK r \in Reqs : Arrive(r) \/ Step(r) \/ LoseFailure(r) \/ GiveUp(r)
  BY <1>1 DEF Next
<1>3. ~GiveUp(r) /\ ~LoseFailure(r)
  BY DEF GiveUp, LoseFailure
<1>4. Arrive(r) => DeletePasskey(r)
  <2>1. ~ReceiveLogin(r) /\ ~ReceiveDisable(r) /\ ~ReceiveConfirm(r)
    BY DEF ReceiveLogin, ReceiveDisable, ReceiveConfirm, Receive
  <2>2. ~ReceiveProfile(r) /\ ~ReceiveRename(r) /\ ~ReceiveFinish(r)
    BY DEF ReceiveProfile, ReceiveRename, ReceiveFinish, Receive
  <2>3. ~SetupTOTP(r) /\ ~BeginRegistration(r) /\ ~BeginLogin(r)
    BY DEF SetupTOTP, BeginRegistration, BeginLogin, Begin
  <2> QED
    BY <2>1, <2>2, <2>3 DEF Arrive
<1>5. Step(r) => CreatePasskey(r) \/ UpdatePasskey(r)
  <2>1. ~CheckLimit(r) /\ ~CheckReplay(r) /\ ~StoreTOTPReplay(r) /\ ~ResetFailedTOTP(r)
    BY DEF CheckLimit, CheckReplay, StoreTOTPReplay, ResetFailedTOTP
  <2>2. ~IncrementFailedTOTP(r) /\ ~ReadCounter(r) /\ ~WriteCounter(r) /\ ~StoreSession(r)
    BY DEF IncrementFailedTOTP, ReadCounter, WriteCounter, StoreSession
  <2>3. ~DisableTOTP(r) /\ ~RevokeSessions(r) /\ ~ReadPending(r) /\ ~EnableTOTP(r)
    BY DEF DisableTOTP, RevokeSessions, ReadPending, EnableTOTP
  <2>4. ~DeletePendingSetup(r) /\ ~UpdateProfile(r) /\ ~ReadCeremony(r)
    BY DEF DeletePendingSetup, UpdateProfile, ReadCeremony
  <2>5. ~ValidateLogin(r) /\ ~LookupPasskey(r) /\ ~DropCeremony(r)
    BY DEF ValidateLogin, LookupPasskey, DropCeremony
  <2> QED
    BY <2>1, <2>2, <2>3, <2>4, <2>5 DEF Step
<1> QED
  BY <1>2, <1>3, <1>4, <1>5

\* The sign count of a passkey never falls unless it was written over an
\* overtaken copy, and a deleted passkey comes back only by a registration
\* (FinishPasskeyLogin, UpdatePasskey).
THEOREM PasskeysForward == Spec => PasskeysMoveForward
<1> DEFINE Forward(k) ==
      passkeys'[k] # Absent =>
         IF passkeys[k] = Absent
         THEN \E r \in Reqs : req[r].kind = "register" /\ req[r].pc = "create" /\ req'[r].pc = "drop"
         ELSE passkeys'[k].count >= passkeys[k].count \/ k \in raced'
<1>1. ASSUME IInv, [Next]_vars, NEW k \in Keys PROVE Forward(k)
  <2>1. DOMAIN passkeys = Keys /\ (passkeys[k] # Absent => passkeys[k].count \in Nat)
    BY <1>1 DEF IInv, Typed, Passkey
  <2>2. CASE passkeys' = passkeys
    BY <2>1, <2>2
  <2>3. CASE passkeys' # passkeys
    <3>1. Next
      BY <1>1, <2>3 DEF vars, tables
    <3>2. PICK r \in Reqs : CreatePasskey(r) \/ UpdatePasskey(r) \/ DeletePasskey(r)
      BY <2>3, <3>1, PasskeysWritten
    <3>3. ShapeOK(req[r]) /\ HoldsCopyOK(r) /\ DOMAIN req = Reqs
      BY <1>1 DEF IInv, RequestOK, Typed
    <3>4. CASE CreatePasskey(r)
      <4>1. req[r].pc = "create" /\ Proceed(r, "drop")
        BY <3>4 DEF CreatePasskey
      <4>2. req[r].kind = "register" /\ DOMAIN req[r] = RequestFields
        BY <3>3, <4>1, VerifierPlaces DEF ShapeOK
      <4> DEFINE p == [req[r] EXCEPT !.pc = "drop"]
      <4>3. p.pc = "drop"
        BY <4>2 DEF RequestFields
      <4>4. req'[r] = p
        BY <3>3, <4>1 DEF Proceed, Continue
      <4> HIDE DEF p
      <4>5. passkeys[k] # Absent => passkeys'[k] = passkeys[k]
        BY <2>1, <3>4 DEF CreatePasskey
      <4> QED
        BY <2>1, <4>1, <4>2, <4>3, <4>4, <4>5
    <3>5. CASE UpdatePasskey(r)
      <4>1. /\ req[r].pc = "touch" /\ passkeys[req[r].key] # Absent
            /\ passkeys' = [passkeys EXCEPT ![req[r].key] = req[r].copy]
            /\ raced' = RacedWith(r, req[r].key)
        BY <2>3, <3>5 DEF UpdatePasskey
      <4>2. CASE k # req[r].key
        BY <2>1, <4>1, <4>2
      <4>3. CASE k = req[r].key /\ r \in stale
        BY <4>1, <4>3 DEF RacedWith
      <4>4. CASE k = req[r].key /\ r \notin stale
        BY <2>1, <3>3, <4>1, <4>4 DEF HoldsCopyOK
      <4> QED
        BY <4>2, <4>3, <4>4
    <3>6. CASE DeletePasskey(r)
      BY <2>1, <3>6 DEF DeletePasskey
    <3> QED
      BY <3>2, <3>4, <3>5, <3>6
  <2> QED
    BY <2>2, <2>3
<1>2. IInv /\ [Next]_vars => [\A k \in Keys : Forward(k)]_vars
  BY <1>1
<1> QED
  BY <1>2, FactorsInvariant, PTL DEF Spec, PasskeysMoveForward

-----------------------------------------------------------------------------
(* Without the races.                                                      *)

\* The conditions under which the properties above speak, and who meets them.
OneByOne == \A r, s \in Reqs : r = s
NoRace == stale = {} /\ overlapped = {} /\ raced \subseteq Flows

\* A handler that is alone overtakes no copy.
LEMMA AloneOvertakesNone ==
    ASSUME OneByOne, NEW r \in Reqs, NEW x, NEW pcs, NEW key, stale = {}
    PROVE  RacedWith(r, x) = raced /\ Overtaken(r, pcs, key) = {} /\ Reqs \ {r} = {}
  BY DEF OneByOne, RacedWith, Overtaken

\* What arrives overtakes nothing.
LEMMA AloneArrives ==
    ASSUME OneByOne, NoRace, NEW r \in Reqs, Arrive(r)
    PROVE  NoRace'
<1> USE DEF NoRace
<1>1. CASE ReceiveLogin(r) \/ ReceiveDisable(r) \/ ReceiveConfirm(r)
  BY <1>1 DEF ReceiveLogin, ReceiveDisable, ReceiveConfirm, Receive
<1>2. CASE ReceiveProfile(r) \/ ReceiveRename(r) \/ ReceiveFinish(r)
  BY <1>2 DEF ReceiveProfile, ReceiveRename, ReceiveFinish, Receive
<1>3. CASE SetupTOTP(r) \/ BeginRegistration(r) \/ BeginLogin(r) \/ DeletePasskey(r)
  BY <1>3 DEF SetupTOTP, BeginRegistration, BeginLogin, Begin, DeletePasskey, history
<1> QED
  BY <1>1, <1>2, <1>3 DEF Arrive

\* Neither does a step of the only handler.
LEMMA AloneSteps ==
    ASSUME OneByOne, NoRace, NEW r \in Reqs, Step(r)
    PROVE  NoRace'
<1> USE DEF NoRace
<1>0. /\ Reqs \ {r} = {} /\ \A x : RacedWith(r, x) = raced
      /\ \A pcs, key : Overtaken(r, pcs, key) = {}
  BY AloneOvertakesNone
<1>1. CASE CheckLimit(r) \/ CheckReplay(r) \/ StoreTOTPReplay(r) \/ ResetFailedTOTP(r)
  BY <1>0, <1>1 DEF CheckLimit, CheckReplay, StoreTOTPReplay, ResetFailedTOTP, history
<1>2. CASE IncrementFailedTOTP(r) \/ ReadCounter(r) \/ WriteCounter(r) \/ StoreSession(r)
  BY <1>0, <1>2 DEF IncrementFailedTOTP, ReadCounter, WriteCounter, StoreSession
<1>3. CASE DisableTOTP(r) \/ RevokeSessions(r) \/ ReadPending(r) \/ EnableTOTP(r)
  BY <1>0, <1>3 DEF DisableTOTP, RevokeSessions, ReadPending, EnableTOTP, history
<1>4. CASE DeletePendingSetup(r) \/ UpdateProfile(r) \/ ReadCeremony(r) \/ CreatePasskey(r)
  BY <1>0, <1>4 DEF DeletePendingSetup, UpdateProfile, ReadCeremony, CreatePasskey, history
<1>5. CASE ValidateLogin(r) \/ LookupPasskey(r) \/ UpdatePasskey(r) \/ DropCeremony(r)
  BY <1>0, <1>5 DEF ValidateLogin, LookupPasskey, UpdatePasskey, DropCeremony, history
<1> QED
  BY <1>1, <1>2, <1>3, <1>4, <1>5 DEF Step

\* With one handler no write is lost and no code is verified twice at a time;
\* only a ceremony whose deletion failed can be marked as raced.
LEMMA AloneInv ==
    ASSUME OneByOne
    PROVE  Spec => []NoRace
<1>1. Init => NoRace
  BY DEF Init, NoRace
<1>2. IInv /\ NoRace /\ [Next]_vars => NoRace'
  <2>1. SUFFICES ASSUME IInv, NoRace, [Next]_vars PROVE NoRace'
    OBVIOUS
  <2>2. CASE UNCHANGED vars \/ Tick
    BY <2>1, <2>2 DEF NoRace, vars, Tick, history
  <2>4. ASSUME NEW r \in Reqs, LoseFailure(r) PROVE NoRace'
    BY <2>1, <2>4 DEF NoRace, LoseFailure
  <2>3. ASSUME NEW r \in Reqs, GiveUp(r) PROVE NoRace'
    <3>1. req[r].flow # Absent => req[r].flow \in Flows
      BY <2>1 , <2>3 DEF IInv, RequestOK, ShapeOK, GiveUp
    <3> QED
      BY <2>1, <2>3, <3>1 DEF NoRace, GiveUp
  <2> QED
    BY <2>1, <2>2, <2>3, <2>4, AloneArrives, AloneSteps DEF Next
<1> QED
  BY <1>1, <1>2, FactorsInvariant, PTL DEF Spec

\* A handler that is alone accepts a code once, counts every failure that the
\* store can count, none of them beyond the limit, and leaves the secret that was last confirmed: what
\* the properties except is the work of concurrent requests only.
THEOREM AloneLosesNothing ==
    ASSUME OneByOne
    PROVE  Spec => [](/\ \A c \in TotpCodes : accepted[c] <= 1
                      /\ guesses = failed + uncounted /\ failed <= MaxFailures
                      /\ secret = intended)
<1>1. IInv /\ NoRace => /\ \A c \in TotpCodes : accepted[c] <= 1
                        /\ guesses = failed + uncounted /\ failed <= MaxFailures
                        /\ secret = intended
  <2>1. SUFFICES ASSUME IInv, NoRace
                 PROVE  /\ \A c \in TotpCodes : accepted[c] <= 1
                        /\ guesses = failed + uncounted /\ failed <= MaxFailures
                        /\ secret = intended
    OBVIOUS
  <2>2. "counter" \notin raced /\ "user" \notin raced /\ overlapped = {}
    BY <2>1, FactorsAssumption DEF NoRace
  <2>3. /\ \A c \in TotpCodes : accepted[c] <= 1
        /\ secret = intended /\ guesses = failed + uncounted
    BY <2>1, <2>2 DEF IInv, CodesOK, UserOK, CounterOK
  <2>4. Cardinality(Reqs) \in Nat /\ Cardinality(Reqs) <= 1
    <3>1. CASE Reqs = {}
      BY <3>1, FS_EmptySet
    <3>2. CASE Reqs # {}
      <4>1. PICK r : r \in Reqs
        BY <3>2
      <4>2. Reqs = {r}
        BY <4>1 DEF OneByOne
      <4> QED
        BY <4>2, FS_Singleton
    <3> QED
      BY <3>1, <3>2
  <2>5. /\ failed + Cardinality(Trying) < MaxFailures + Cardinality(Reqs)
        /\ failed \in Nat /\ MaxFailures \in Nat /\ DOMAIN req = Reqs
    BY <2>1, <2>2, FactorsAssumption DEF IInv, CounterOK, Typed
  <2>6. Cardinality(Trying) \in Nat
    BY <2>5, TryingFinite
  <2>7. failed <= MaxFailures
    BY <2>4, <2>5, <2>6
  <2> QED
    BY <2>3, <2>7
<1> QED
  BY <1>1, AloneInv, FactorsInvariant, PTL

\* An increment is lost only by the transaction that PostgreSQL runs without
\* locking the row.
LEMMA CounterRacedBy ==
    ASSUME Next, "counter" \in raced', "counter" \notin raced, IInv
    PROVE  driver = "postgres" /\ driver' = "postgres"
<1>0. "counter" \notin Flows /\ "counter" \notin Keys
  BY FactorsAssumption
<1> USE DEF history
<1>1. ~Tick
  BY DEF Tick
<1>2. PICK r \in Reqs : Arrive(r) \/ Step(r) \/ LoseFailure(r) \/ GiveUp(r)
  BY <1>1 DEF Next
<1>3. ShapeOK(req[r]) /\ HoldsCodeOK(r)
  BY DEF IInv, RequestOK
<1>4. ~Arrive(r)
  <2>1. ~ReceiveLogin(r) /\ ~ReceiveDisable(r) /\ ~ReceiveConfirm(r)
    BY DEF ReceiveLogin, ReceiveDisable, ReceiveConfirm, Receive
  <2>2. ~ReceiveProfile(r) /\ ~ReceiveRename(r) /\ ~ReceiveFinish(r)
    BY DEF ReceiveProfile, ReceiveRename, ReceiveFinish, Receive
  <2>3. ~SetupTOTP(r) /\ ~BeginRegistration(r) /\ ~BeginLogin(r) /\ ~DeletePasskey(r)
    BY DEF SetupTOTP, BeginRegistration, BeginLogin, Begin, DeletePasskey
  <2> QED
    BY <2>1, <2>2, <2>3 DEF Arrive
<1>5. ~GiveUp(r) /\ ~LoseFailure(r)
  BY <1>0, <1>3 DEF GiveUp, LoseFailure, ShapeOK
<1>6. WriteCounter(r)
  <2>1. ~CheckLimit(r) /\ ~CheckReplay(r) /\ ~StoreTOTPReplay(r) /\ ~ResetFailedTOTP(r)
    BY DEF CheckLimit, CheckReplay, StoreTOTPReplay, ResetFailedTOTP
  <2>2. ~IncrementFailedTOTP(r) /\ ~ReadCounter(r) /\ ~StoreSession(r)
    BY DEF IncrementFailedTOTP, ReadCounter, StoreSession
  <2>3. ~DisableTOTP(r) /\ ~RevokeSessions(r) /\ ~ReadPending(r) /\ ~EnableTOTP(r)
    BY DEF DisableTOTP, RevokeSessions, ReadPending, EnableTOTP
  <2>4. ~DeletePendingSetup(r) /\ ~UpdateProfile(r) /\ ~CreatePasskey(r)
    BY DEF DeletePendingSetup, UpdateProfile, CreatePasskey, RacedWith
  <2>5. ~ReadCeremony(r)
    BY <1>0, <1>3, VerifierPlaces DEF ReadCeremony, ShapeOK
  <2>6. ~ValidateLogin(r) /\ ~LookupPasskey(r) /\ ~DropCeremony(r)
    BY DEF ValidateLogin, LookupPasskey, DropCeremony
  <2>7. ~UpdatePasskey(r)
    BY <1>0, <1>3, VerifierPlaces DEF UpdatePasskey, RacedWith, ShapeOK, Answers
  <2> QED
    BY <1>2, <1>4, <1>5, <2>1, <2>2, <2>3, <2>4, <2>5, <2>6, <2>7 DEF Step
<1> QED
  BY <1>3, <1>6 DEF WriteCounter, HoldsCodeOK

\* No step changes the driver.
LEMMA DriverStays ==
    ASSUME [Next]_vars
    PROVE  driver' = driver
<1>1. CASE UNCHANGED vars \/ Tick
  BY <1>1 DEF vars, Tick
<1>2. ASSUME NEW r \in Reqs, Arrive(r) PROVE driver' = driver
  BY <1>2 DEF Arrive, ReceiveLogin, ReceiveDisable, ReceiveConfirm, ReceiveProfile, ReceiveRename,
              ReceiveFinish, Receive, SetupTOTP, BeginRegistration, BeginLogin, Begin, DeletePasskey
<1>3. ASSUME NEW r \in Reqs, Step(r) PROVE driver' = driver
  BY <1>3 DEF Step, CheckLimit, CheckReplay, StoreTOTPReplay, ResetFailedTOTP, IncrementFailedTOTP,
              ReadCounter, WriteCounter, StoreSession, DisableTOTP, RevokeSessions, ReadPending,
              EnableTOTP, DeletePendingSetup, UpdateProfile, ReadCeremony, CreatePasskey,
              ValidateLogin, LookupPasskey, UpdatePasskey, DropCeremony
<1>4. ASSUME NEW r \in Reqs, GiveUp(r) \/ LoseFailure(r) PROVE driver' = driver
  BY <1>4 DEF GiveUp, LoseFailure
<1> QED
  BY <1>1, <1>2, <1>3, <1>4 DEF Next

\* With the file driver and with SQLite every failure is counted unless the
\* store call fails, and the bound holds whatever requests overlap
\* (IncrementFailedTOTP).
THEOREM MemoryCountsEveryGuess ==
    Spec => [](driver = "memory" => guesses = failed + uncounted /\ failed < MaxFailures + Cardinality(Reqs))
<1> DEFINE Counted == driver = "memory" => "counter" \notin raced
<1>1. Init => Counted
  BY DEF Init
<1>2. IInv /\ Counted /\ [Next]_vars => Counted'
  <2>1. SUFFICES ASSUME IInv, Counted, [Next]_vars, driver' = "memory", "counter" \in raced' PROVE FALSE
    OBVIOUS
  <2>2. driver = "memory" /\ "counter" \notin raced
    BY <2>1, DriverStays
  <2>3. Next
    BY <2>1, <2>2 DEF vars, history
  <2> QED
    BY <2>1, <2>2, <2>3, CounterRacedBy
<1>3. Counted /\ GuessesBounded =>
         (driver = "memory" => guesses = failed + uncounted /\ failed < MaxFailures + Cardinality(Reqs))
  BY DEF GuessesBounded
<1> QED
  BY <1>1, <1>2, <1>3, FactorsInvariant, GuessesLimited, PTL DEF Spec
=============================================================================
