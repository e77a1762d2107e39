------------------------------- MODULE Logins -------------------------------
(***************************************************************************)
(* Users, sessions, the login throttle and one-time email codes            *)
(* (auth/service.go, auth/email_codes.go and their stores) under           *)
(* concurrent handlers.  Every store call is one step and nothing is held  *)
(* between two of them: a user, a throttle or a code record is read,       *)
(* changed in memory and written back whole.                               *)
(*                                                                         *)
(* A clock reading belongs to the store call before it.  A password hash   *)
(* is the password and whether its parameters are outdated; a code or a    *)
(* session token is drawn afresh; the verdict of Turnstile and of the      *)
(* second factor is an input (see Factors).  Addresses are normalized, and *)
(* a user is verified exactly when active, as the code sets both together. *)
(* A failing store call ends the request, whether it has taken effect or   *)
(* not, except for the lookups of a login, where any error means that      *)
(* there is no such user.  The limiter in front is RateLimiter's and the   *)
(* audit event after it AuditChain's.                                      *)
(***************************************************************************)
EXTENDS Integers, FiniteSets

CONSTANTS Ids, Subjects,  \* user ids, and those that the SSO provider gave
          Emails, Passwords, Codes, Reqs,
          Absent,         \* no record, an empty field
          Starts,         \* stored users and codes at start
          CodeTTL, SessionTTL,
          FreeFailures, LockBase, LockMax,  \* loginLockFreeFailures, ...BaseDuration, ...MaxDuration
          MaxAttempts,    \* maxEmailCodeAttempts
          VerificationRequired, AutoProvision, TurnstileAfterFailure, \* settings
          MaxTime, MaxCalls  \* bounds on the clock and on the requests served

ASSUME LoginsAssumption ==
    /\ Subjects \subseteq Ids
    /\ {CodeTTL, SessionTTL, LockBase, LockMax, MaxAttempts} \subseteq Nat \ {0}
    /\ LockMax % 2 = 0
    /\ {FreeFailures, MaxTime, MaxCalls} \subseteq Nat
    /\ {VerificationRequired, AutoProvision, TurnstileAfterFailure} \subseteq BOOLEAN
    /\ Ids \cap Emails = {} /\ Ids \cap Codes = {} /\ Emails \cap Codes = {}

VARIABLES now,
          users,     \* id -> record
          sessions,  \* the stored sessions
          throttle,  \* email -> failures counted, end of the lock, time of the last one
          codes,     \* <<email, purpose>> -> code record
          req, calls,
          intended,  \* history: users as writes following one another leave them
          failures,  \* history: failed logins since the last reset
          used, wrong, \* history: how often a code was accepted and refused
          halfway,   \* history: users with a new password and sessions not yet revoked
          stale,     \* history: requests holding a copy that a write has overtaken
          raced      \* history: what was written over an overtaken copy

tables == <<users, sessions, throttle, codes>>
history == <<intended, failures, used, wrong, halfway, stale, raced>>
vars == <<now, tables, req, calls, history>>

Purposes == {"verification", "reset"}
Slots == Emails \X Purposes
UserRecord == [email: Emails, status: {"pending", "active"}, pass: Passwords \cup {Absent},
               old: BOOLEAN, subject: Subjects \cup {Absent}, base: {"USD", "CNY"}, totp: BOOLEAN]
Session == [id: Ids, expires: Nat, pass: Passwords \cup {Absent},
            subject: Subjects \cup {Absent}, late: BOOLEAN]
Throttle == [count: Nat, until: Nat, at: Nat]
CodeRecord == [code: Codes, attempts: Nat, expires: Nat]
NoThrottle == [count |-> 0, until |-> 0, at |-> 0]

\* The stored users have different emails; the stored codes are different
\* and nobody has guessed at them yet.
ASSUME StartsAssumption ==
    /\ Absent \notin UserRecord \cup CodeRecord
    /\ \A s \in Starts :
          /\ s.users \in [Ids -> UserRecord \cup {Absent}]
          /\ s.codes \in [Slots -> CodeRecord \cup {Absent}]
          /\ \A i, j \in Ids : s.users[i] # Absent /\ s.users[j] # Absent /\ i # j =>
                s.users[i].email # s.users[j].email
          /\ \A k \in Slots : s.codes[k] # Absent => s.codes[k].attempts = 0
          /\ \A k, m \in Slots : s.codes[k] # Absent /\ s.codes[m] # Absent /\ k # m =>
                s.codes[k].code # s.codes[m].code

Idle == [pc |-> "idle", kind |-> "login", email |-> Absent, purpose |-> Absent,
         pass |-> Absent, code |-> Absent, id |-> Absent, copy |-> Absent]
Kinds == {"login", "sso", "passkey", "profile", "logout", "ask", "confirm"}
UserWrites == {"rehash", "bind", "profile", "verify", "newpass"}
CodeWrites == {"expire", "exhaust", "guess", "spend"}
PCs == {"idle", "lock", "turnstile", "user", "failed", "count", "challenge", "session", "unlock",
        "byid", "byemail", "provision", "load", "asker", "issue", "code", "owner", "clear", "revoke"}
       \cup UserWrites \cup CodeWrites

TypeOK ==
    /\ now \in 0..MaxTime /\ calls \in 0..MaxCalls
    /\ DOMAIN users = Ids /\ \A i \in Ids : users[i] \in UserRecord \cup {Absent}
    /\ \A s \in sessions : s \in Session
    /\ DOMAIN throttle = Emails /\ \A e \in Emails : throttle[e] \in Throttle
    /\ DOMAIN codes = Slots /\ \A k \in Slots : codes[k] \in CodeRecord \cup {Absent}
    /\ DOMAIN req = Reqs /\ \A r \in Reqs : req[r].pc \in PCs /\ req[r].kind \in Kinds
    /\ stale \subseteq Reqs

Init ==
    /\ now = 0 /\ calls = 0
    /\ \E s \in Starts : users = s.users /\ codes = s.codes
    /\ sessions = {}
    /\ throttle = [e \in Emails |-> NoThrottle]
    /\ req = [r \in Reqs |-> Idle]
    /\ intended = users
    /\ failures = [e \in Emails |-> 0]
    /\ used = [c \in Codes |-> 0]
    /\ wrong = [c \in Codes |-> 0]
    /\ halfway = {} /\ stale = {} /\ raced = {}

-----------------------------------------------------------------------------
Continue(r, q) == req' = [req EXCEPT ![r] = q]
Proceed(r, pc) == Continue(r, [req[r] EXCEPT !.pc = pc])
Answer(r) == Continue(r, Idle)

\* A step that only reads.
Reading(r) == UNCHANGED <<now, tables, calls, intended, failures, used, wrong, halfway, stale, raced>>

\* History: a write of a record overtakes the copies that others hold.
UserHolders(i) == {s \in Reqs : req[s].id = i /\ req[s].pc \in UserWrites \cup {"session"}}
CodeHolders(k) == {s \in Reqs : req[s].pc \in CodeWrites /\ <<req[s].email, req[s].purpose>> = k}
CountHolders(e) == {s \in Reqs : req[s].pc = "count" /\ req[s].email = e}
Overtaken(r, holders) == (stale \cup holders) \ {r}
RacedWith(r, x) == IF r \in stale THEN raced \cup {x} ELSE raced

Receive(r, q) ==
    /\ req[r].pc = "idle" /\ calls < MaxCalls /\ calls' = calls + 1
    /\ Continue(r, q)
    /\ UNCHANGED <<now, tables, history>>

\* POST /auth/login, with a code of the second factor or without.
ReceiveLogin(r) ==
    \E e \in Emails, p \in Passwords, t \in {"none", "good", "bad"} :
       Receive(r, [Idle EXCEPT !.pc = "lock", !.email = e, !.pass = p, !.code = t])

\* The SSO callback with a token that the provider has signed.
ReceiveSSO(r) ==
    \E s \in Subjects, e \in Emails :
       Receive(r, [Idle EXCEPT !.kind = "sso", !.pc = "byid", !.id = s, !.email = e])

\* FinishPasskeyLogin, once the answer of a passkey of an active user is
\* verified and its count stored (see Factors).
ReceivePasskeyLogin(r) ==
    \E i \in Ids : /\ users[i] # Absent /\ users[i].status = "active"
                  /\ Receive(r, [Idle EXCEPT !.kind = "passkey", !.pc = "session", !.id = i,
                                             !.email = users[i].email])

\* SessionFromToken, for the requests that need a session.
Authenticated(s) == s \in sessions /\ s.expires > now
ReceiveProfile(r) ==
    \E s \in sessions : /\ Authenticated(s)
                        /\ Receive(r, [Idle EXCEPT !.kind = "profile", !.pc = "load", !.id = s.id])
ReceiveLogoutAll(r) ==
    \E s \in sessions : /\ Authenticated(s)
                        /\ Receive(r, [Idle EXCEPT !.kind = "logout", !.pc = "revoke", !.id = s.id])

\* The requests for a code, and those that bring one back.
ReceiveCodeRequest(r) ==
    \E e \in Emails, k \in Purposes :
       Receive(r, [Idle EXCEPT !.kind = "ask", !.pc = "asker", !.email = e, !.purpose = k])
ReceiveConfirmation(r) ==
    \E e \in Emails, k \in Purposes, c \in Codes, p \in Passwords :
       Receive(r, [Idle EXCEPT !.kind = "confirm", !.pc = "code", !.email = e, !.pass = p,
                               !.purpose = k, !.code = c])

-----------------------------------------------------------------------------
\* Store.UserByEmail: emails are unique.
UserByEmail(e) == {i \in Ids : users[i] # Absent /\ users[i].email = e}

\* Store.CreateUser refuses an id or an email that is taken.
IdFree(i, e) == users[i] = Absent
CreatesUser(i, e) == users[i] = Absent /\ UserByEmail(e) = {}

\* Register makes one store call.
Register(r) ==
    \E i \in Ids \ Subjects, e \in Emails, p \in Passwords :
       LET new == [email |-> e, status |-> IF VerificationRequired THEN "pending" ELSE "active",
                   pass |-> p, old |-> FALSE, subject |-> Absent, base |-> "USD", totp |-> FALSE]
       IN /\ req[r].pc = "idle" /\ calls < MaxCalls /\ calls' = calls + 1
          /\ CreatesUser(i, e)
          /\ users' = [users EXCEPT ![i] = new]
          /\ intended' = [intended EXCEPT ![i] = new]
          /\ UNCHANGED <<now, sessions, throttle, codes, req, failures, used, wrong, halfway,
                         stale, raced>>

\* Logout of a single session, expired or not.
Logout(r) ==
    /\ req[r].pc = "idle" /\ calls < MaxCalls /\ calls' = calls + 1
    /\ \E s \in sessions : sessions' = sessions \ {s}
    /\ UNCHANGED <<now, users, throttle, codes, req, history>>

\* rejectLockedLogin
RejectLockedLogin(r) ==
    LET q == req[r] IN
    /\ q.pc = "lock"
    /\ IF throttle[q.email].until > now THEN Answer(r) ELSE Proceed(r, "turnstile")
    /\ Reading(r)

\* requireLoginTurnstile; a token that is refused ends the request.
RequireLoginTurnstile(r) ==
    LET q == req[r] IN
    /\ q.pc = "turnstile"
    /\ \/ Proceed(r, "user")
       \/ ~(TurnstileAfterFailure /\ throttle[q.email].count = 0) /\ Answer(r)
    /\ Reading(r)

\* Login: the user and the password, then the second factor.  A user without
\* a password hash makes VerifyPassword fail, which is not counted.
CheckCredentials(r) ==
    LET q == req[r]
        found == UserByEmail(q.email)
        i == CHOOSE x \in found : TRUE
        u == users[i]
        known == [q EXCEPT !.id = i, !.copy = u]
    IN
    /\ q.pc = "user"
    /\ \/ Proceed(r, "failed")     \* no such user, or the lookup failed
       \/ found # {} /\ u.pass = Absent /\ Answer(r)
       \/ /\ found # {} /\ u.pass # Absent
          /\ \/ (u.pass # q.pass \/ u.status # "active") /\ Proceed(r, "failed")
             \/ /\ u.pass = q.pass /\ u.status = "active"
                /\ \/ u.totp /\ q.code = "none" /\ Proceed(r, "challenge")
                   \/ u.totp /\ q.code = "bad" /\ Answer(r)
                   \/ /\ u.totp => q.code = "good"
                      /\ Continue(r, [known EXCEPT !.pc = IF u.old THEN "rehash" ELSE "session"])
    /\ stale' = stale \ {r}
    /\ UNCHANGED <<now, tables, calls, intended, failures, used, wrong, halfway, raced>>

\* loginLockDuration: doubled once per failure beyond the free ones.
Doubled[n \in Nat] == IF n = 0 THEN LockBase
                      ELSE IF Doubled[n - 1] >= LockMax \div 2 THEN LockMax ELSE 2 * Doubled[n - 1]
LockAtOnce(count) == IF count < FreeFailures THEN 0 ELSE LockBase
LoginLockDuration(count) ==
    IF count <= FreeFailures THEN 0
    ELSE LET d == Doubled[count - FreeFailures - 1] IN IF d > LockMax THEN LockMax ELSE d

\* recordFailedLogin reads the throttle ...
CountFailedLogin(r) ==
    LET q == req[r]
        n == throttle[q.email].count + 1
        d == LoginLockDuration(n)
    IN
    /\ q.pc = "failed"
    /\ Continue(r, [q EXCEPT !.pc = "count",
                             !.copy = [count |-> n, at |-> now,
                                       until |-> IF d > 0 THEN now + d ELSE 0]])
    /\ stale' = stale \ {r}
    /\ UNCHANGED <<now, tables, calls, intended, failures, used, wrong, halfway, raced>>

\* ... and stores it.
StoreLoginThrottle(r) ==
    LET q == req[r] e == q.email IN
    /\ q.pc = "count"
    /\ throttle' = [throttle EXCEPT ![e] = q.copy]
    /\ failures' = [failures EXCEPT ![e] = @ + 1]
    /\ stale' = Overtaken(r, CountHolders(e))
    /\ raced' = RacedWith(r, e)
    /\ Answer(r)
    /\ UNCHANGED <<now, users, sessions, codes, calls, intended, used, wrong, halfway>>

\* ResetLoginThrottle: after a login, for a challenge, and in a password reset.
ResetLoginThrottle(r) ==
    LET q == req[r] e == q.email IN
    /\ q.pc \in {"challenge", "unlock", "clear"}
    /\ throttle' = [throttle EXCEPT ![e] = NoThrottle]
    /\ failures' = [failures EXCEPT ![e] = 0]
    /\ stale' = Overtaken(r, CountHolders(e))
    /\ raced' = raced \ {e}
    /\ IF q.pc = "clear" THEN Proceed(r, "revoke") ELSE Answer(r)
    /\ UNCHANGED <<now, users, sessions, codes, calls, intended, used, wrong, halfway>>

\* createSession; late says that the user has changed since it was read.
CreateSession(r) ==
    LET q == req[r] IN
    /\ q.pc = "session"
    /\ sessions' = sessions \cup
          {[id |-> q.id, expires |-> now + SessionTTL, late |-> r \in stale,
            pass |-> IF q.kind = "login" THEN q.pass ELSE Absent,
            subject |-> IF q.kind = "sso" THEN q.code ELSE Absent]}
    /\ IF q.kind = "sso" THEN Answer(r) ELSE Proceed(r, "unlock")
    /\ UNCHANGED <<now, users, throttle, codes, calls, history>>

-----------------------------------------------------------------------------
\* createExternalSSOSession: what becomes of a user that was found.
AnyBinding(u, subject) ==
    IF u.status # "active" THEN "idle" ELSE IF u.subject = Absent THEN "bind" ELSE "session"
NoStatusCheck(u, subject) ==
    IF u.subject = Absent THEN "bind" ELSE IF u.subject = subject THEN "session" ELSE "idle"
SSOStep(u, subject) ==
    IF u.status # "active" THEN "idle"
    ELSE IF u.subject = Absent THEN "bind"
    ELSE IF u.subject = subject THEN "session" ELSE "idle"

SSOUser(r, i) ==
    LET q == req[r] pc == SSOStep(users[i], q.code) IN
    IF pc = "idle" THEN Answer(r) ELSE Continue(r, [q EXCEPT !.pc = pc, !.id = i, !.copy = users[i]])

\* LoginWithExternalSSO looks for the id and then for the email, and takes a
\* lookup that fails for a user that is not there; the subject of the token
\* is kept as the code.
FindByID(r) ==
    LET q == [req[r] EXCEPT !.code = req[r].id] pc == SSOStep(users[q.id], q.id) IN
    /\ req[r].pc = "byid"
    /\ \/ Continue(r, [q EXCEPT !.pc = "byemail"])
       \/ users[q.id] # Absent /\ pc = "idle" /\ Answer(r)
       \/ users[q.id] # Absent /\ pc # "idle" /\ Continue(r, [q EXCEPT !.pc = pc, !.copy = users[q.id]])
    /\ stale' = stale \ {r}
    /\ UNCHANGED <<now, tables, calls, intended, failures, used, wrong, halfway, raced>>
FindByEmail(r) ==
    LET found == UserByEmail(req[r].email) IN
    /\ req[r].pc = "byemail"
    /\ \/ found # {} /\ SSOUser(r, CHOOSE i \in found : TRUE)
       \/ IF AutoProvision THEN Proceed(r, "provision") ELSE Answer(r)
    /\ stale' = stale \ {r}
    /\ UNCHANGED <<now, tables, calls, intended, failures, used, wrong, halfway, raced>>

Provision(r) ==
    LET q == req[r]
        new == [email |-> q.email, status |-> "active", pass |-> Absent, old |-> FALSE,
                subject |-> q.code, base |-> "USD", totp |-> FALSE]
    IN
    /\ q.pc = "provision"
    /\ \/ /\ CreatesUser(q.code, q.email)
          /\ users' = [users EXCEPT ![q.code] = new]
          /\ intended' = [intended EXCEPT ![q.code] = new]
          /\ Continue(r, [q EXCEPT !.pc = "session", !.copy = new])
       \/ ~CreatesUser(q.code, q.email) /\ Answer(r) /\ UNCHANGED <<users, intended>>
    /\ UNCHANGED <<now, sessions, throttle, codes, calls, failures, used, wrong, halfway, stale, raced>>

\* UpdateUserProfile, first half.
LoadProfile(r) ==
    LET q == req[r] IN
    /\ q.pc = "load"
    /\ Continue(r, [q EXCEPT !.pc = "profile", !.copy = users[q.id]])
    /\ stale' = stale \ {r}
    /\ UNCHANGED <<now, tables, calls, intended, failures, used, wrong, halfway, raced>>

\* The change that each of the calls makes to the user it has read, and
\* where it goes on.
ChangedUser(q, u) ==
    CASE q.pc \in {"rehash", "newpass"} -> [u EXCEPT !.pass = q.pass, !.old = FALSE]
      [] q.pc = "bind" -> [u EXCEPT !.subject = q.code]
      [] q.pc = "profile" -> [u EXCEPT !.base = "CNY"]
      [] q.pc = "verify" -> [u EXCEPT !.status = "active"]
AfterUpdate(q) == CASE q.pc \in {"rehash", "bind"} -> "session"
                    [] q.pc = "newpass" -> "clear"
                    [] OTHER -> "idle"

\* Store.UpdateUser replaces the record.
UpdatePublicUser(r) ==
    LET q == req[r]
        new == [ChangedUser(q, q.copy) EXCEPT !.subject = IF q.pc = "bind" THEN q.code ELSE Absent]
        pc == AfterUpdate(q)
    IN
    /\ q.pc \in UserWrites
    /\ users' = [users EXCEPT ![q.id] = new]
    /\ intended' = [intended EXCEPT ![q.id] = ChangedUser(q, @)]
    /\ stale' = Overtaken(r, UserHolders(q.id))
    /\ raced' = RacedWith(r, q.id)
    /\ halfway' = IF q.pc = "newpass" THEN halfway \cup {q.id} ELSE halfway
    /\ IF pc = "idle" THEN Answer(r) ELSE Continue(r, [q EXCEPT !.pc = pc, !.copy = new])
    /\ UNCHANGED <<now, sessions, throttle, codes, calls, failures, used, wrong>>
UpdateUser(r) ==
    LET q == req[r]
        new == ChangedUser(q, q.copy)
        pc == AfterUpdate(q)
    IN
    /\ q.pc \in UserWrites
    /\ users' = [users EXCEPT ![q.id] = new]
    /\ intended' = [intended EXCEPT ![q.id] = ChangedUser(q, @)]
    /\ stale' = Overtaken(r, UserHolders(q.id))
    /\ raced' = RacedWith(r, q.id)
    /\ halfway' = IF q.pc = "newpass" THEN halfway \cup {q.id} ELSE halfway
    /\ IF pc = "idle" THEN Answer(r) ELSE Continue(r, [q EXCEPT !.pc = pc, !.copy = new])
    /\ UNCHANGED <<now, sessions, throttle, codes, calls, failures, used, wrong>>

\* Store.DeleteSessionsByUser
RevokeExpired(r) ==
    LET q == req[r] IN
    /\ q.pc = "revoke"
    /\ sessions' = {s \in sessions : s.id # q.id \/ s.expires > now}
    /\ halfway' = halfway \ {q.id}
    /\ Answer(r)
    /\ UNCHANGED <<now, users, throttle, codes, calls, intended, failures, used, wrong, stale, raced>>
RevokeSessions(r) ==
    LET q == req[r] IN
    /\ q.pc = "revoke"
    /\ sessions' = {s \in sessions : s.id # q.id}
    /\ halfway' = halfway \ {q.id}
    /\ Answer(r)
    /\ UNCHANGED <<now, users, throttle, codes, calls, intended, failures, used, wrong, stale, raced>>

-----------------------------------------------------------------------------
\* RequestEmailVerification, RequestPasswordReset: who gets a code.
MayRequest(purpose, e) ==
    \E i \in UserByEmail(e) : users[i].status = IF purpose = "reset" THEN "active" ELSE "pending"
ReadRequester(r) ==
    LET q == req[r] IN
    /\ q.pc = "asker"
    /\ IF MayRequest(q.purpose, q.email) THEN Proceed(r, "issue") ELSE Answer(r)
    /\ Reading(r)

\* createEmailCode replaces the code before it; the mail may be lost after it.
CreateEmailCode(r) ==
    LET q == req[r] k == <<q.email, q.purpose>> IN
    /\ q.pc = "issue"
    /\ \E c \in Codes :
          /\ \A s \in Slots : codes[s] # Absent => codes[s].code # c
          /\ used[c] = 0 /\ wrong[c] = 0 /\ c \notin raced
          /\ codes' = [codes EXCEPT ![k] = [code |-> c, attempts |-> 0, expires |-> now + CodeTTL]]
    /\ stale' = Overtaken(r, CodeHolders(k))
    /\ Answer(r)
    /\ UNCHANGED <<now, users, sessions, throttle, calls, intended, failures, used, wrong, halfway, raced>>

\* consumeEmailCode, up to the write that follows from the comparison.
AttemptsUnlimited(record, c) ==
    IF record.expires <= now THEN "expire" ELSE IF record.code = c THEN "spend" ELSE "guess"
CodeStep(record, c) ==
    IF record.expires <= now THEN "expire"
    ELSE IF record.code = c THEN "spend"
    ELSE IF record.attempts + 1 >= MaxAttempts THEN "exhaust" ELSE "guess"
ReadEmailCode(r) ==
    LET q == req[r] record == codes[<<q.email, q.purpose>>] IN
    /\ q.pc = "code"
    /\ IF record = Absent THEN Answer(r)
       ELSE Continue(r, [q EXCEPT !.pc = CodeStep(record, q.code),
                                  !.copy = [record EXCEPT !.attempts = @ + 1]])
    /\ stale' = stale \ {r}
    /\ UNCHANGED <<now, tables, calls, intended, failures, used, wrong, halfway, raced>>

\* A wrong guess is counted in the copy that was read.
StoreGuess(r) ==
    LET q == req[r] k == <<q.email, q.purpose>> c == q.copy.code IN
    /\ q.pc = "guess"
    /\ codes' = [codes EXCEPT ![k] = q.copy]
    /\ wrong' = [wrong EXCEPT ![c] = @ + 1]
    /\ stale' = Overtaken(r, CodeHolders(k))
    /\ raced' = RacedWith(r, c)
    /\ Answer(r)
    /\ UNCHANGED <<now, users, sessions, throttle, calls, intended, failures, used, halfway>>

\* DeleteEmailCode of an expired, an exhausted or an accepted code.
DeleteEmailCode(r) ==
    LET q == req[r] k == <<q.email, q.purpose>> c == q.copy.code IN
    /\ q.pc \in {"expire", "exhaust", "spend"}
    /\ codes' = [codes EXCEPT ![k] = Absent]
    /\ used' = IF q.pc = "spend" THEN [used EXCEPT ![c] = @ + 1] ELSE used
    /\ wrong' = IF q.pc = "exhaust" THEN [wrong EXCEPT ![c] = @ + 1] ELSE wrong
    /\ stale' = Overtaken(r, CodeHolders(k))
    /\ raced' = RacedWith(r, c)
    /\ IF q.pc = "spend" THEN Continue(r, [q EXCEPT !.pc = "owner", !.copy = Absent]) ELSE Answer(r)
    /\ UNCHANGED <<now, users, sessions, throttle, calls, intended, failures, halfway>>

\* ConfirmEmailVerification, ConfirmPasswordReset: the user behind the code.
LoadOwner(r) ==
    LET q == req[r] found == UserByEmail(q.email) IN
    /\ q.pc = "owner"
    /\ \/ \E i \in found :
             /\ q.purpose = "reset" => users[i].status = "active"
             /\ Continue(r, [q EXCEPT !.pc = IF q.purpose = "reset" THEN "newpass" ELSE "verify",
                                      !.id = i, !.copy = users[i]])
       \/ /\ \A i \in found : q.purpose = "reset" /\ users[i].status # "active"
          /\ Answer(r)
    /\ stale' = stale \ {r}
    /\ UNCHANGED <<now, tables, calls, intended, failures, used, wrong, halfway, raced>>

\* Another store call fails, or mail cannot be sent: the request ends.
GiveUp(r) ==
    /\ req[r].pc \notin {"idle", "user", "byid", "byemail"}
    /\ Answer(r)
    /\ UNCHANGED <<now, tables, calls, history>>

Tick == now < MaxTime /\ now' = now + 1 /\ UNCHANGED <<tables, req, calls, history>>

Arrive(r) == \/ ReceiveLogin(r) \/ ReceiveSSO(r) \/ ReceivePasskeyLogin(r) \/ ReceiveProfile(r)
             \/ ReceiveLogoutAll(r) \/ ReceiveCodeRequest(r) \/ ReceiveConfirmation(r) \/ Register(r) \/ Logout(r)
Step(r) == \/ RejectLockedLogin(r) \/ RequireLoginTurnstile(r) \/ CheckCredentials(r)
           \/ CountFailedLogin(r) \/ StoreLoginThrottle(r) \/ ResetLoginThrottle(r)
           \/ CreateSession(r) \/ FindByID(r) \/ FindByEmail(r) \/ Provision(r) \/ LoadProfile(r)
           \/ UpdateUser(r) \/ RevokeSessions(r) \/ ReadRequester(r) \/ CreateEmailCode(r)
           \/ ReadEmailCode(r) \/ StoreGuess(r) \/ DeleteEmailCode(r) \/ LoadOwner(r)
Next == Tick \/ \E r \in Reqs : Arrive(r) \/ Step(r) \/ GiveUp(r)

Spec == Init /\ [][Next]_vars

-----------------------------------------------------------------------------
\* A user is what the changes of password, profile, status and binding make
\* of it one after the other, unless one of them was written over a copy
\* that another had overtaken (UpdateUser of a whole record).
UserEditsLostOnlyByRace == \A i \in Ids \ raced : users[i] = intended[i]

\* Whatever is written over whatever, a verified user stays verified: no
\* call reads a pending user and writes it back pending (UpdateUser).
VerifiedStaysVerified ==
    [][\A i \in Ids : users[i] # Absent /\ users[i].status = "active" =>
          users'[i].status = "active"]_vars

\* The tables are well formed, and two registrations, or one and an SSO login,
\* never make two users of one email, however their checks and writes
\* interleave (CreateUser).
OneUserPerEmail == TypeOK /\ \A e \in Emails : Cardinality(UserByEmail(e)) <= 1

\* Powers of two.
Power[n \in Nat] == IF n = 0 THEN 1 ELSE 2 * Power[n - 1]

\* The throttle counts every failed login since the last success and locks
\* for twice as long each time up to the maximum, unless two failures, or a
\* failure and a reset, overlapped (recordFailedLogin).
ThrottleCountsFailures ==
    \A e \in Emails \ raced : LET t == throttle[e] IN
       /\ t.count = failures[e]
       /\ IF t.count <= FreeFailures THEN t.until = 0
          ELSE LET d == LockBase * Power[t.count - FreeFailures - 1] IN
               t.until = t.at + IF d < LockMax THEN d ELSE LockMax

\* An email code is accepted once, survives fewer than maxEmailCodeAttempts
\* wrong guesses, and is gone after either, unless two confirmations of it
\* overlapped (consumeEmailCode).
CodesAreSpent ==
    \A c \in Codes \ raced :
       /\ used[c] <= 1
       /\ used[c] = 1 \/ wrong[c] >= MaxAttempts =>
             \A k \in Slots : codes[k] = Absent \/ codes[k].code # c

\* After a password reset no session of the old password is left, except
\* those of logins that had checked it before the reset wrote the new one,
\* and as long as the reset has not revoked the sessions, or failed to
\* (ConfirmPasswordReset, Login).
ResetRevokesSessions ==
    \A s \in sessions : s.pass # Absent /\ s.pass # users[s.id].pass =>
       s.late \/ s.id \in halfway \cup raced

\* An SSO session belongs to the user its subject is bound to, also when two
\* subjects of the same email log in at once, unless the binding was lost to
\* a race (createExternalSSOSession).
SSOSessionsMatchBinding ==
    \A s \in sessions : s.subject # Absent =>
       users[s.id].subject = s.subject \/ s.late \/ s.id \in raced
=============================================================================
