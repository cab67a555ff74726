---------------------------- MODULE BlackScholes ----------------------------
(***************************************************************************)
(* price_and_greeks (cpp/src/black_scholes.cpp): the closed form is        *)
(* real-valued arithmetic and stays a parameter; the branch for expired or *)
(* degenerate inputs, and when it is taken, are the code's.  The rate is   *)
(* one constant of the book and is left to ClosedForm.                     *)
(***************************************************************************)
EXTENDS Integers, FiniteSetsExt

CONSTANT
  ClosedForm(_, _, _, _)  \* Greeks of a contract at a spot, volatility, maturity

\* A contract is what a request line says of it: option_type and strike.  Any
\* option_type but "C" is a put (attribution_main.cpp).
IsCall(contract) == contract.option_type = "C"

Degenerate(sigma, t) == t <= 0 \/ sigma <= 0

Intrinsic(contract, s) ==
  Max({0, IF IsCall(contract) THEN s - contract.strike ELSE contract.strike - s})

\* Faulty: at the strike the option counts as exercised.
DeltaAtStrike(contract, s) ==
  IF IsCall(contract) THEN IF s >= contract.strike THEN 1 ELSE 0
                      ELSE IF s <= contract.strike THEN -1 ELSE 0

ExpiryDelta(contract, s) ==
  IF IsCall(contract) THEN IF s > contract.strike THEN 1 ELSE 0
                      ELSE IF s < contract.strike THEN -1 ELSE 0

\* `Greeks g{}` zeroes what the branch does not set, vanna and volga included.
Expired(contract, s) ==
  [price |-> Intrinsic(contract, s), delta |-> ExpiryDelta(contract, s),
   gamma |-> 0, vega |-> 0, theta |-> 0, vanna |-> 0, volga |-> 0]

PriceAndGreeks(contract, s, sigma, t) ==
  IF Degenerate(sigma, t) THEN Expired(contract, s) ELSE ClosedForm(contract, s, sigma, t)

Price(contract, s, sigma, t) == PriceAndGreeks(contract, s, sigma, t).price
=============================================================================
