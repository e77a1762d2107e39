------------------------------- MODULE Factors -------------------------------
(***************************************************************************)
(* Authenticator codes (auth/totp.go) and passkeys (auth/passkeys.go) of   *)
(* one user: all their records are kept by user, and the calls of others   *)
(* touch none of them.  As in Logins every store call is a step, with the  *)
(* clock readings that follow it, and nothing is held in between.          *)
(*                                                                         *)
(* Time is counted in parts of the 30 second period of the codes.  The     *)
(* code of a secret for a period is the pair of both, and encryption of    *)
(* the stored secret is left out.  What the WebAuthn library verifies is   *)
(* an input: an authenticator signs the challenge of a flow once, with its *)
(* next sign count, and the browser may send that answer more than once.   *)
(***************************************************************************)
EXTENDS Integers, FiniteSets

CONSTANTS Secrets, Browsers, Keys, Flows, Reqs,
          Absent,
          Starts,        \* driver, secret, passkeys and flows at start
          Period, Skew,  \* totpPeriodSeconds, totpSkew
          ReplayCache,   \* TOTPReplayCacheDuration
          SetupTTL, FlowTTL,
          MaxFailures,   \* totpMaxFailures
          MaxTime, MaxCalls  \* bounds on the clock and on the requests served

ASSUME FactorsAssumption ==
    /\ {Period, SetupTTL, FlowTTL, MaxFailures} \subseteq Nat \ {0}
    /\ {Skew, ReplayCache, MaxTime, MaxCalls} \subseteq Nat
    /\ IsFiniteSet(Reqs) /\ IsFiniteSet(Flows)
    /\ Absent \notin Secrets \cup Keys \cup Flows
    /\ Flows \cap Keys = {} /\ {"counter", "user"} \cap (Flows \cup Keys) = {}

VARIABLES driver,     \* "memory" (file and SQLite alike) or "postgres"
          now,
          secret,     \* the user's TOTP secret, Absent when disabled
          pending,    \* browser session -> setup that waits for its code
          marker,     \* code -> until when it counts as used, 0 for never
          failed,     \* the failure counter
          sessions,   \* browsers with a session
          passkeys,   \* credential -> sign count and label
          flow,       \* ceremony records
          signed,     \* what the authenticator has signed for a flow
          req, calls,
          intended,   \* history: the secret that writes following one another leave
          guesses,    \* history: failures since the counter was last reset
          uncounted,  \* history: those of them that the store failed to count
          accepted,   \* history: how often a code was accepted
          finished,   \* history: how often a ceremony succeeded
          stale,      \* history: requests holding a copy that a write has overtaken
          overlapped, \* history: codes that two requests verified at the same time
          raced       \* history: flows that overlapped, records written over an overtaken copy

tables == <<secret, pending, marker, failed, sessions, passkeys, flow, signed>>
history == <<intended, guesses, uncounted, accepted, finished, stale, overlapped, raced>>
vars == <<driver, now, tables, req, calls, history>>

Periods == 0..(MaxTime \div Period + Skew)
TotpCodes == Secrets \X Periods
Setup == [secret: Secrets, expires: Nat]
Passkey == [count: Nat, label: {"old", "new"}]
Ceremony == [type: {"registration", "login"}, expires: Nat]
Answered == [key: Keys, count: Nat]

ASSUME StartsAssumption ==
    /\ Absent \notin Setup \cup Passkey \cup Ceremony \cup Answered
    /\ \A s \in Starts :
          /\ s.driver \in {"memory", "postgres"} /\ s.secret \in Secrets \cup {Absent}
          /\ DOMAIN s.passkeys = Keys /\ \A k \in Keys : s.passkeys[k] \in Passkey \cup {Absent}
          /\ DOMAIN s.flow = Flows /\ \A f \in Flows : s.flow[f] \in Ceremony \cup {Absent}

Idle == [pc |-> "idle", kind |-> "login", browser |-> Absent, code |-> Absent, key |-> Absent,
         flow |-> Absent, copy |-> Absent, count |-> 0]
Kinds == {"login", "disable", "confirm", "profile", "register", "passkey", "rename"}
PCs == {"idle", "limit", "replay", "mark", "relax", "fail", "count", "session", "disable",
        "revoke", "pending", "unset", "enable", "unpend", "profile", "ceremony", "create",
        "assert", "lookup", "touch", "drop"}

TypeOK ==
    /\ driver \in {"memory", "postgres"} /\ now \in 0..MaxTime /\ calls \in 0..MaxCalls
    /\ secret \in Secrets \cup {Absent}
    /\ DOMAIN pending = Browsers /\ \A b \in Browsers : pending[b] \in Setup \cup {Absent}
    /\ marker \in [TotpCodes -> Nat]
    /\ \A c \in TotpCodes : \/ marker[c] <= MaxTime + ReplayCache
                            \/ marker[c] <= MaxTime + Period * (2 * Skew + 1)
    /\ failed \in Nat
    /\ sessions \subseteq Browsers
    /\ DOMAIN passkeys = Keys /\ \A k \in Keys : passkeys[k] \in Passkey \cup {Absent}
    /\ DOMAIN flow = Flows /\ \A f \in Flows : flow[f] \in Ceremony \cup {Absent}
    /\ DOMAIN signed = Flows /\ \A f \in Flows : signed[f] \in Answered \cup {Absent}
    /\ DOMAIN req = Reqs /\ \A r \in Reqs : req[r].pc \in PCs /\ req[r].kind \in Kinds /\ req[r].count \in Nat

Init ==
    /\ now = 0 /\ calls = 0
    /\ \E s \in Starts : /\ driver = s.driver /\ secret = s.secret
                          /\ passkeys = s.passkeys /\ flow = s.flow
    /\ pending = [b \in Browsers |-> Absent]
    /\ marker = [c \in TotpCodes |-> 0]
    /\ failed = 0
    /\ sessions = Browsers
    /\ signed = [f \in Flows |-> Absent]
    /\ req = [r \in Reqs |-> Idle]
    /\ intended = secret
    /\ guesses = 0 /\ uncounted = 0
    /\ accepted = [c \in TotpCodes |-> 0]
    /\ finished = [f \in Flows |-> 0]
    /\ stale = {} /\ overlapped = {} /\ raced = {}

-----------------------------------------------------------------------------
Continue(r, q) == req' = [req EXCEPT ![r] = q]
Proceed(r, pc) == Continue(r, [req[r] EXCEPT !.pc = pc])
Answer(r) == Continue(r, Idle)

\* History: a write overtakes the copies that other requests hold.
Overtaken(r, pcs, key) == (stale \ {r}) \cup {s \in Reqs \ {r} : req[s].pc \in pcs /\ req[s].key = key}
RacedWith(r, x) == IF r \in stale THEN raced \cup {x} ELSE raced

Receive(r, q) ==
    /\ req[r].pc = "idle" /\ calls < MaxCalls /\ calls' = calls + 1
    /\ Continue(r, q)
    /\ stale' = stale \ {r}
    /\ UNCHANGED <<driver, now, tables, intended, guesses, uncounted, accepted, finished, raced, overlapped>>

\* A code that a client may send now: of a secret it was given, valid or just
\* out of date, or a wrong one.
Code == LET t == now \div Period
            given == {secret} \cup {pending[b].secret : b \in {d \in Browsers : pending[d] # Absent}}
        IN {c \in TotpCodes : c[2] \in IF c[1] \in given THEN (t - Skew - 1)..(t + Skew) ELSE {t}}

\* Login after the password was checked, with the user as read there; the
\* challenge of a login without code is in Logins.
ReceiveLogin(r) ==
    \E b \in Browsers, c \in Code :
       /\ secret # Absent
       /\ Receive(r, [Idle EXCEPT !.pc = "limit", !.browser = b, !.code = c, !.copy = secret])

\* DisableTOTP, which reads the user first.
ReceiveDisable(r) ==
    \E b \in sessions, c \in Code :
       /\ secret # Absent
       /\ Receive(r, [Idle EXCEPT !.kind = "disable", !.pc = "limit", !.browser = b, !.code = c,
                                  !.copy = secret])
ReceiveConfirm(r) ==
    \E b \in sessions, c \in Code :
       Receive(r, [Idle EXCEPT !.kind = "confirm", !.pc = "pending", !.browser = b, !.code = c])

\* Any other change of the user, such as of the profile: the record is read.
ReceiveProfile(r) ==
    Receive(r, [Idle EXCEPT !.kind = "profile", !.pc = "profile", !.copy = secret])

\* UpdatePasskey reads the credential that it renames.
ReceiveRename(r) ==
    \E k \in Keys :
       /\ sessions # {} /\ passkeys[k] # Absent
       /\ Receive(r, [Idle EXCEPT !.kind = "rename", !.pc = "touch", !.key = k,
                                  !.copy = [passkeys[k] EXCEPT !.label = "new"]])

\* An answer to the challenge of a flow, signed now or sent again.
ReceiveFinish(r) ==
    \E f \in Flows, k \in Keys, b \in Browsers :
       /\ req[r].pc = "idle" /\ calls < MaxCalls /\ calls' = calls + 1
       /\ flow[f] # Absent \/ signed[f] # Absent
       /\ IF signed[f] # Absent THEN k = signed[f].key /\ UNCHANGED signed
          ELSE signed' = [signed EXCEPT ![f] =
                  [key |-> k, count |-> Cardinality({g \in Flows : signed[g] # Absent}) + 1]]
       /\ \E type \in {"register", "passkey"} :
             /\ type = "register" => b \in sessions
             /\ Continue(r, [Idle EXCEPT !.kind = type, !.pc = "ceremony", !.flow = f, !.key = k,
                                         !.browser = b])
       /\ stale' = stale \ {r}
       /\ UNCHANGED <<driver, now, secret, pending, marker, failed, sessions, passkeys, flow,
                      intended, guesses, uncounted, accepted, finished, raced, overlapped>>

-----------------------------------------------------------------------------
\* SetupTOTP stores a fresh secret for the browser session.
SetupTOTP(r) ==
    /\ req[r].pc = "idle" /\ calls < MaxCalls /\ calls' = calls + 1
    /\ \E b \in sessions, s \in Secrets :
          /\ s # secret /\ \A d \in Browsers : pending[d] # Absent => pending[d].secret # s
          /\ pending' = [pending EXCEPT ![b] = [secret |-> s, expires |-> now + SetupTTL]]
    /\ UNCHANGED <<driver, now, secret, marker, failed, sessions, passkeys, flow, signed, req, history>>

\* validateTOTPValue: the periods around the present one.
ValidTOTP(s, c) ==
    LET t == now \div Period IN c[1] = s /\ c[2] \in (t - Skew)..(t + Skew)

LimitedLate(n) == n > MaxFailures
Limited(n) == n >= MaxFailures

\* FailedTOTPCount, after which verifyTOTPCode reads the clock to look for the
\* marker and ConfirmTOTP validates the code.
CheckLimit(r) ==
    LET q == req[r] IN
    /\ q.pc = "limit"
    /\ IF Limited(failed) THEN Answer(r)
       ELSE IF q.kind # "confirm" THEN Continue(r, [q EXCEPT !.pc = "replay", !.count = now])
       ELSE Proceed(r, IF ValidTOTP(q.copy, q.code) THEN "enable" ELSE "fail")
    /\ UNCHANGED <<driver, now, tables, calls, history>>

\* The marker is kept at least as long as the code is valid.
ConfiguredRetention == ReplayCache
Retention == LET window == Period * (2 * Skew + 1) IN
             IF ReplayCache < window THEN window ELSE ReplayCache

\* TOTPReplayExists, which drops a marker that has expired, and the validation
\* of a code that was not used.
CheckReplay(r) ==
    LET q == req[r] c == q.code used == marker[c] > q.count IN
    /\ q.pc = "replay"
    /\ Continue(r, IF ~used /\ ValidTOTP(q.copy, c)
                   THEN [q EXCEPT !.pc = "mark", !.count = now + Retention]
                   ELSE [q EXCEPT !.pc = "fail", !.count = 0])
    /\ marker' = IF used THEN marker ELSE [marker EXCEPT ![c] = 0]
    /\ overlapped' = IF \E s \in Reqs \ {r} : req[s].pc = "mark" /\ req[s].code = c
                     THEN overlapped \cup {c} ELSE overlapped
    /\ UNCHANGED <<driver, now, secret, pending, failed, sessions, passkeys, flow, signed, calls,
                   intended, guesses, uncounted, accepted, finished, stale, raced>>

StoreTOTPReplay(r) ==
    LET q == req[r] IN
    /\ q.pc = "mark"
    /\ marker' = [marker EXCEPT ![q.code] = q.count]
    /\ accepted' = [accepted EXCEPT ![q.code] = @ + 1]
    /\ Continue(r, [q EXCEPT !.pc = "relax", !.count = 0])
    /\ UNCHANGED <<driver, now, secret, pending, failed, sessions, passkeys, flow, signed, calls,
                   intended, guesses, uncounted, finished, stale, raced, overlapped>>

\* ResetFailedTOTP
ResetFailedTOTP(r) ==
    LET q == req[r] IN
    /\ q.pc = "relax"
    /\ failed' = 0 /\ guesses' = 0 /\ uncounted' = 0
    /\ raced' = raced \ {"counter"}
    /\ stale' = Overtaken(r, {"count"}, Absent)
    /\ IF q.kind = "confirm" THEN Answer(r)
       ELSE Proceed(r, IF q.kind = "login" THEN "session" ELSE "disable")
    /\ UNCHANGED <<driver, now, secret, pending, marker, sessions, passkeys, flow, signed, calls,
                   intended, accepted, finished, overlapped>>

\* IncrementFailedTOTP under the lock of the memory store or the only
\* connection of SQLite ...
IncrementFailedTOTP(r) ==
    /\ req[r].pc = "fail" /\ driver = "memory"
    /\ failed' = failed + 1 /\ guesses' = guesses + 1
    /\ Answer(r)
    /\ UNCHANGED <<driver, now, secret, pending, marker, sessions, passkeys, flow, signed, calls,
                   intended, uncounted, accepted, finished, stale, raced, overlapped>>

\* ... and in PostgreSQL, where the transaction of IncrementCounter reads the
\* counter without locking it and then writes it.
ReadCounter(r) ==
    /\ req[r].pc = "fail" /\ driver = "postgres"
    /\ Continue(r, [req[r] EXCEPT !.pc = "count", !.count = failed + 1])
    /\ stale' = stale \ {r}
    /\ UNCHANGED <<driver, now, tables, calls, intended, guesses, uncounted, accepted, finished, raced, overlapped>>
WriteCounter(r) ==
    /\ req[r].pc = "count"
    /\ failed' = req[r].count /\ guesses' = guesses + 1
    /\ stale' = Overtaken(r, {"count"}, Absent)
    /\ raced' = RacedWith(r, "counter")
    /\ Answer(r)
    /\ UNCHANGED <<driver, now, secret, pending, marker, sessions, passkeys, flow, signed, calls,
                   intended, uncounted, accepted, finished, overlapped>>

\* The failure cannot be counted: the request ends with the store's error.
LoseFailure(r) ==
    /\ req[r].pc \in {"fail", "count"}
    /\ guesses' = guesses + 1 /\ uncounted' = uncounted + 1
    /\ Answer(r)
    /\ UNCHANGED <<driver, now, tables, calls, intended, accepted, finished, stale, raced, overlapped>>

\* The session of a login; the throttle that is reset after it is Logins'.
StoreSession(r) ==
    LET q == req[r] IN
    /\ q.pc = "session"
    /\ sessions' = sessions \cup {q.browser}
    /\ finished' = IF q.kind = "passkey" THEN [finished EXCEPT ![q.flow] = @ + 1] ELSE finished
    /\ IF q.kind = "passkey" THEN Proceed(r, "drop") ELSE Answer(r)
    /\ UNCHANGED <<driver, now, secret, pending, marker, failed, passkeys, flow, signed, calls,
                   intended, guesses, uncounted, accepted, stale, raced, overlapped>>

\* DisableTOTP, once the code is verified: the user, then all the sessions.
DisableTOTP(r) ==
    /\ req[r].pc = "disable"
    /\ secret' = Absent /\ intended' = Absent
    /\ stale' = Overtaken(r, {"profile"}, Absent)
    /\ Proceed(r, "revoke")
    /\ UNCHANGED <<driver, now, pending, marker, failed, sessions, passkeys, flow, signed, calls,
                   guesses, uncounted, accepted, finished, overlapped, raced>>
RevokeSessions(r) ==
    /\ req[r].pc = "revoke"
    /\ sessions' = {}
    /\ Answer(r)
    /\ UNCHANGED <<driver, now, secret, pending, marker, failed, passkeys, flow, signed, calls, history>>

\* ConfirmTOTP: the pending setup, dropped when it has expired ...
ReadPending(r) ==
    LET q == req[r] setup == pending[q.browser] IN
    /\ q.pc = "pending"
    /\ IF setup = Absent THEN Answer(r)
       ELSE IF setup.expires <= now THEN Proceed(r, "unset")
       ELSE Continue(r, [q EXCEPT !.pc = "limit", !.copy = setup.secret])
    /\ UNCHANGED <<driver, now, tables, calls, history>>

\* ... whose secret becomes the user's after a valid code, whatever the record
\* held (what else the record holds is in Logins) ...
EnableTOTP(r) ==
    LET q == req[r] IN
    /\ q.pc = "enable"
    /\ secret' = q.copy /\ intended' = q.copy
    /\ stale' = Overtaken(r, {"profile"}, Absent)
    /\ Proceed(r, "unpend")
    /\ UNCHANGED <<driver, now, pending, marker, failed, sessions, passkeys, flow, signed, calls,
                   guesses, uncounted, accepted, finished, overlapped, raced>>

\* ... and which is deleted then.
DeletePendingSetup(r) ==
    LET q == req[r] IN
    /\ q.pc \in {"unset", "unpend"}
    /\ pending' = [pending EXCEPT ![q.browser] = Absent]
    /\ IF q.pc = "unpend" THEN Proceed(r, "relax") ELSE Answer(r)
    /\ UNCHANGED <<driver, now, secret, marker, failed, sessions, passkeys, flow, signed, calls, history>>

\* UpdateUserProfile writes the user back as it was read.
BlankSecret(r) ==
    /\ req[r].pc = "profile"
    /\ secret' = Absent
    /\ raced' = RacedWith(r, "user")
    /\ Answer(r)
    /\ UNCHANGED <<driver, now, pending, marker, failed, sessions, passkeys, flow, signed, calls,
                   intended, guesses, uncounted, accepted, finished, stale, overlapped>>
UpdateProfile(r) ==
    /\ req[r].pc = "profile"
    /\ secret' = req[r].copy
    /\ raced' = RacedWith(r, "user")
    /\ Answer(r)
    /\ UNCHANGED <<driver, now, pending, marker, failed, sessions, passkeys, flow, signed, calls,
                   intended, guesses, uncounted, accepted, finished, stale, overlapped>>

-----------------------------------------------------------------------------
\* BeginPasskeyRegistration, BeginPasskeyLogin: a new ceremony.
Begin(r, type) ==
    /\ req[r].pc = "idle" /\ calls < MaxCalls /\ calls' = calls + 1
    /\ \E f \in Flows :
          /\ flow[f] = Absent /\ signed[f] = Absent
          /\ flow' = [flow EXCEPT ![f] = [type |-> type, expires |-> now + FlowTTL]]
    /\ UNCHANGED <<driver, now, secret, pending, marker, failed, sessions, passkeys, signed, req, history>>
BeginRegistration(r) == sessions # {} /\ Begin(r, "registration")
BeginLogin(r) == Begin(r, "login")

\* FinishPasskeyRegistration, FinishPasskeyLogin: from here on the ceremony
\* is deleted whatever the outcome, as the last store call.
FlowAccepted(kind, ceremony) ==
    /\ ceremony.type = IF kind = "register" THEN "registration" ELSE "login"
    /\ ceremony.expires > now
ReadCeremony(r) ==
    LET q == req[r] IN
    /\ q.pc = "ceremony"
    /\ IF flow[q.flow] = Absent THEN Answer(r)
       ELSE Proceed(r, IF ~FlowAccepted(q.kind, flow[q.flow]) THEN "drop"
                       ELSE IF q.kind = "register" THEN "create" ELSE "assert")
    /\ raced' = IF \E s \in Reqs \ {r} : req[s].flow = q.flow THEN raced \cup {q.flow} ELSE raced
    /\ UNCHANGED <<driver, now, tables, calls, intended, guesses, uncounted, accepted, finished, stale, overlapped>>

\* passkeyFromCredential takes over the count of the authenticator;
\* Store.CreatePasskey refuses a credential that is known.  One that is
\* registered again overtakes the copies read before it was deleted.
CreatePasskey(r) ==
    LET q == req[r] IN
    /\ q.pc = "create"
    /\ IF passkeys[q.key] = Absent
       THEN /\ passkeys' = [passkeys EXCEPT ![q.key] = [count |-> signed[q.flow].count,
                                                       label |-> "old"]]
            /\ finished' = [finished EXCEPT ![q.flow] = @ + 1]
            /\ stale' = Overtaken(r, {"lookup", "touch"}, q.key)
       ELSE UNCHANGED <<passkeys, finished, stale>>
    /\ Proceed(r, "drop")
    /\ UNCHANGED <<driver, now, secret, pending, marker, failed, sessions, flow, signed, calls,
                   intended, guesses, uncounted, accepted, raced, overlapped>>

\* Authenticator.UpdateCounter of the library: a count that does not grow is
\* noted and ignored.
LastCount(stored, count) == count
UpdateCounter(stored, count) == IF count <= stored THEN stored ELSE count

\* The handler that looks up the credential for the assertion, ...
ValidateLogin(r) ==
    LET q == req[r] k == q.key IN
    /\ q.pc = "assert"
    /\ IF passkeys[k] = Absent THEN Proceed(r, "drop")
       ELSE Continue(r, [q EXCEPT !.pc = "lookup",
                                  !.count = UpdateCounter(passkeys[k].count, signed[q.flow].count)])
    /\ stale' = stale \ {r}
    /\ UNCHANGED <<driver, now, tables, calls, intended, guesses, uncounted, accepted, finished, raced, overlapped>>

\* ... its second lookup, refreshed with the count, ...
LookupPasskey(r) ==
    LET q == req[r] IN
    /\ q.pc = "lookup"
    /\ IF passkeys[q.key] = Absent THEN Proceed(r, "drop")
       ELSE Continue(r, [q EXCEPT !.pc = "touch", !.copy = [passkeys[q.key] EXCEPT !.count = q.count]])
    /\ UNCHANGED <<driver, now, tables, calls, history>>

\* ... and Store.UpdatePasskey, for a login and for a rename: the record is
\* replaced if there still is one.
UpdatePasskey(r) ==
    LET q == req[r] IN
    /\ q.pc = "touch"
    /\ \/ /\ passkeys[q.key] # Absent
          /\ passkeys' = [passkeys EXCEPT ![q.key] = q.copy]
          /\ raced' = RacedWith(r, q.key)
          /\ stale' = Overtaken(r, {"lookup", "touch"}, q.key)
          /\ IF q.kind = "rename" THEN Answer(r) ELSE Proceed(r, "session")
       \/ /\ passkeys[q.key] = Absent
          /\ IF q.kind = "rename" THEN Answer(r) ELSE Proceed(r, "drop")
          /\ UNCHANGED <<passkeys, raced, stale>>
    /\ UNCHANGED <<driver, now, secret, pending, marker, failed, sessions, flow, signed, calls,
                   intended, guesses, uncounted, accepted, finished, overlapped>>

DeletePasskey(r) ==
    /\ req[r].pc = "idle" /\ calls < MaxCalls /\ calls' = calls + 1
    /\ sessions # {}
    /\ \E k \in Keys : passkeys[k] # Absent /\ passkeys' = [passkeys EXCEPT ![k] = Absent]
    /\ UNCHANGED <<driver, now, secret, pending, marker, failed, sessions, flow, signed, req, history>>

\* The deferred DeletePasskeyCeremony.
KeepUnlessExpired(r) ==
    LET q == req[r] IN
    /\ q.pc = "drop"
    /\ flow' = [flow EXCEPT ![q.flow] = IF @ # Absent /\ @.expires > now THEN @ ELSE Absent]
    /\ Answer(r)
    /\ UNCHANGED <<driver, now, secret, pending, marker, failed, sessions, passkeys, signed, calls, history>>
DropCeremony(r) ==
    LET q == req[r] IN
    /\ q.pc = "drop"
    /\ flow' = [flow EXCEPT ![q.flow] = Absent]
    /\ Answer(r)
    /\ UNCHANGED <<driver, now, secret, pending, marker, failed, sessions, passkeys, signed, calls, history>>

\* Another store call fails and the request ends; the context of a request that was
\* cancelled also keeps the ceremony from being deleted.
GiveUp(r) ==
    LET q == req[r] IN
    /\ q.pc \notin {"idle", "fail", "count"}
    /\ \/ Answer(r) /\ raced' = IF q.flow # Absent THEN raced \cup {q.flow} ELSE raced
       \/ /\ q.pc \in {"create", "assert", "lookup", "touch", "session"} /\ q.flow # Absent
          /\ Proceed(r, "drop") /\ UNCHANGED raced
    /\ UNCHANGED <<driver, now, tables, calls, intended, guesses, uncounted, accepted, finished, stale, overlapped>>

Tick == now < MaxTime /\ now' = now + 1 /\ UNCHANGED <<driver, tables, req, calls, history>>

Arrive(r) == \/ ReceiveLogin(r) \/ ReceiveDisable(r) \/ ReceiveConfirm(r) \/ ReceiveProfile(r)
             \/ ReceiveRename(r) \/ ReceiveFinish(r) \/ SetupTOTP(r) \/ BeginRegistration(r)
             \/ BeginLogin(r) \/ DeletePasskey(r)
Step(r) == \/ CheckLimit(r) \/ CheckReplay(r) \/ StoreTOTPReplay(r) \/ ResetFailedTOTP(r)
           \/ IncrementFailedTOTP(r) \/ ReadCounter(r) \/ WriteCounter(r) \/ StoreSession(r)
           \/ DisableTOTP(r) \/ RevokeSessions(r) \/ ReadPending(r) \/ EnableTOTP(r)
           \/ DeletePendingSetup(r) \/ UpdateProfile(r) \/ ReadCeremony(r) \/ CreatePasskey(r)
           \/ ValidateLogin(r) \/ LookupPasskey(r) \/ UpdatePasskey(r) \/ DropCeremony(r)
Next == Tick \/ \E r \in Reqs : Arrive(r) \/ Step(r) \/ LoseFailure(r) \/ GiveUp(r)

Spec == Init /\ [][Next]_vars

-----------------------------------------------------------------------------
\* A code of the authenticator logs in, or disables the factor, once: its
\* marker outlives every moment at which the code is still valid, unless two
\* verifications of it overlapped (verifyTOTPCode).
CodesAcceptedOnce == \A c \in TotpCodes : accepted[c] > 1 => c \in overlapped

\* Every failed guess since the last reset is in the counter or met a failing
\* store, and no more than one guess per concurrent request is counted beyond
\* the limit, unless PostgreSQL lost an increment (verifyTOTPCode,
\* IncrementCounter).
GuessesBounded ==
    "counter" \notin raced =>
       /\ guesses = failed + uncounted
       /\ failed < MaxFailures + Cardinality(Reqs)

\* The records are well formed, and the secret in use is the one last
\* confirmed, and none after a disable, unless another change of the user was
\* written over an overtaken copy (ConfirmTOTP, DisableTOTP,
\* UpdateUserProfile).
FactorLostOnlyByRace == /\ TypeOK
                        /\ "user" \notin raced => secret = intended

\* A ceremony gives one passkey or one session, however often and however
\* late its answer is sent, unless two answers overlapped or the deletion
\* after the first one failed (FinishPasskeyRegistration, FinishPasskeyLogin).
CeremonyUsedOnce == \A f \in Flows \ raced : finished[f] <= 1

\* A passkey only moves forward.  Its sign count never falls, whatever order
\* logins finish in, unless a login or a rename was written over a copy that
\* another write, or a new registration, had overtaken; and a deleted one only comes back by a registration, never by a login
\* or a rename that had read it before (FinishPasskeyLogin, UpdatePasskey).
PasskeysMoveForward ==
    [][\A k \in Keys : passkeys'[k] # Absent =>
          IF passkeys[k] = Absent
          THEN \E r \in Reqs : req[r].kind = "register" /\ req[r].pc = "create" /\ req'[r].pc = "drop"
          ELSE passkeys'[k].count >= passkeys[k].count \/ k \in raced']_vars
=============================================================================
