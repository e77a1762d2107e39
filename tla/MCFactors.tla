------------------------------ MODULE MCFactors ------------------------------
\* TLC instance of Factors: a user with a secret or without, one browser, one
\* authenticator that is registered or not, and open ceremonies of both types.
EXTENDS Factors, TLC

CONSTANTS s1, s2, k1, f1, f2

Known == [count |-> 0, label |-> "old"]
Flow(type1, type2) == (f1 :> [type |-> type1, expires |-> FlowTTL]
                       @@ f2 :> [type |-> type2, expires |-> FlowTTL])
MCStarts == {[driver |-> d, secret |-> s1, passkeys |-> (k1 :> Absent), flow |-> [f \in Flows |-> Absent]] :
                d \in {"memory", "postgres"}}
            \cup
            {[driver |-> "memory", secret |-> Absent, passkeys |-> (k1 :> Absent),
              flow |-> Flow("registration", "login")],
             [driver |-> "memory", secret |-> Absent, passkeys |-> (k1 :> Known),
              flow |-> Flow("login", "login")],
             [driver |-> "memory", secret |-> Absent, passkeys |-> (k1 :> Known),
              flow |-> Flow("registration", "login")]}

Symmetric == Permutations(Reqs)
==============================================================================
