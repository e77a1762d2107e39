------------------------------- MODULE MCLogins -------------------------------
\* TLC instance of Logins: one address, a local user and two SSO subjects that
\* claim it.  The address is free, waits for verification with a code sent, or
\* belongs to an active user with an outdated hash and a reset code sent, or to
\* one with a second factor.
EXTENDS Logins, TLC

CONSTANTS own, s1, s2, mail, p1, p2, c1, c2

Known(status, old, totp) ==
    [email |-> mail, status |-> status, pass |-> p1, old |-> old, subject |-> Absent,
     base |-> "USD", totp |-> totp]
Only(record) == [i \in Ids |-> IF i = own THEN record ELSE Absent]
Sent(purpose) == [k \in Slots |-> IF k[2] = purpose
                                  THEN [code |-> c1, attempts |-> 0, expires |-> CodeTTL] ELSE Absent]
NoCodes == [k \in Slots |-> Absent]
MCStarts == {[users |-> Only(Absent), codes |-> NoCodes],
             [users |-> Only(Known("pending", FALSE, FALSE)), codes |-> Sent("verification")],
             [users |-> Only(Known("active", TRUE, FALSE)), codes |-> Sent("reset")],
             [users |-> Only(Known("active", FALSE, TRUE)), codes |-> NoCodes]}

Symmetric == Permutations(Reqs)
===============================================================================
