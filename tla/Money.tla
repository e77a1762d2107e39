-------------------------------- MODULE Money --------------------------------
(***************************************************************************)
(* Amounts, exchange rates and their conversion (ledger/money.go and the   *)
(* rate tables of ledger/rates.go).                                        *)
(*                                                                         *)
(* A rational number (big.Rat) is a numerator over a positive denominator. *)
(* An amount is a number of cents in an integer of Modulus values (2^64 in *)
(* the code), so that overflow is the code's.  The exchange-rate text of   *)
(* an entry is NoText or what parseExchangeRate makes of it; a text that   *)
(* does not parse names no currency.                                       *)
(***************************************************************************)
EXTENDS Integers

CONSTANTS Modulus,    \* values of an int64
          Currencies, \* supportedCurrencies
          USD, EUR,   \* the base of the stored rates, and of the fetched ones
          NoText,     \* an empty exchange-rate text
          Unknown     \* what stands for a currency in a text that does not parse

ASSUME MoneyAssumption == /\ Modulus \in Nat \ {0} /\ Modulus % 2 = 0
                          /\ {USD, EUR} \subseteq Currencies
                          /\ Unknown \notin Currencies

Magnitude(n) == IF n < 0 THEN -n ELSE n

\* Conversion to int64 keeps the low bits.
ToInt64(n) == ((n + Modulus \div 2) % Modulus) - Modulus \div 2

\* The quotient big.Int.QuoRem rounds towards zero, moved away from zero when
\* the remainder is at least half.
RoundDown(n, d) == IF n < 0 THEN -(Magnitude(n) \div d) ELSE n \div d
RoundHalf(n, d) ==
    LET up == IF 2 * (Magnitude(n) % d) >= d THEN 1 ELSE 0 IN
    IF n < 0 THEN -(Magnitude(n) \div d + up) ELSE n \div d + up

\* roundRatToInt64
RoundRatDown(n, d) == ToInt64(RoundDown(n, d))
RoundRatToInt64(n, d) == ToInt64(RoundHalf(n, d))

\* A text converts in both directions between the two currencies it names.
Names(text, source, target) ==
    \/ text.from = source /\ text.to = target
    \/ text.from = target /\ text.to = source

\* convertAmountCents returns no error.  The text of an entry takes precedence
\* over the table, and is not even parsed when the currencies are the same.
Converts(source, target, text, known) ==
    /\ {source, target} \subseteq Currencies
    /\ \/ source = target
       \/ text # NoText /\ Names(text, source, target)
       \/ text = NoText /\ {source, target} \subseteq known

\* What it returns then; rates maps a currency to units per USD.
ConvertAmountCents(cents, source, target, text, rates) ==
    IF source = target THEN cents
    ELSE IF text # NoText
         THEN IF text.from = source THEN RoundRatToInt64(cents * text.num, text.den)
              ELSE RoundRatToInt64(cents * text.den, text.num)
         ELSE RoundRatToInt64(cents * rates[target].num * rates[source].den,
                              rates[target].den * rates[source].num)
==============================================================================
