---------------------------- MODULE TaylorTerms ----------------------------
(***************************************************************************)
(* What the engine's figures and the order check's rows say about a price: *)
(* how far they are from an expansion by hand.  The closed form may be any *)
(* smooth price.  Part of it can be given as a polynomial of third order   *)
(* in spot and volatility, which the statements then follow exactly; what  *)
(* it does beyond that is bounded by its Roughness.                        *)
(***************************************************************************)
EXTENDS SequentialOrderCheck

CONSTANTS
  Coefficient(_, _, _, _),  \* of spot^i * sigma^j, by contract and maturity
  Theta(_, _, _, _),        \* what the polynomial says of time
  Roughness(_, _)           \* bound for a contract, up to a volatility

Abs(x) == IF x < 0 THEN -x ELSE x

\* May be zero throughout: then everything about the price is in its Roughness.
CubicForm(c, s, v, t) ==
  LET a(i, j) == Coefficient(c, t, i, j)
  IN  [price |-> a(0, 0) + a(1, 0) * s + a(0, 1) * v
                 + a(2, 0) * s * s + a(1, 1) * s * v + a(0, 2) * v * v
                 + a(3, 0) * s * s * s + a(2, 1) * s * s * v
                 + a(1, 2) * s * v * v + a(0, 3) * v * v * v,
       delta |-> a(1, 0) + 2 * a(2, 0) * s + a(1, 1) * v
                 + 3 * a(3, 0) * s * s + 2 * a(2, 1) * s * v + a(1, 2) * v * v,
       vega |-> a(0, 1) + a(1, 1) * s + 2 * a(0, 2) * v
                + a(2, 1) * s * s + 2 * a(1, 2) * s * v + 3 * a(0, 3) * v * v,
       gamma |-> 2 * (a(2, 0) + 3 * a(3, 0) * s + a(2, 1) * v),
       vanna |-> a(1, 1) + 2 * a(2, 1) * s + 2 * a(1, 2) * v,
       volga |-> 2 * (a(0, 2) + a(1, 2) * s + 3 * a(0, 3) * v),
       theta |-> Theta(c, s, v, t)]

\* What is left of the closed form, its price and its Greeks.
Rest(c, s, v, t) ==
  LET f == ClosedForm(c, s, v, t)
      g == CubicForm(c, s, v, t)
  IN  [price |-> f.price - g.price, delta |-> f.delta - g.delta,
       vega |-> f.vega - g.vega, gamma |-> f.gamma - g.gamma,
       vanna |-> f.vanna - g.vanna, volga |-> f.volga - g.volga,
       theta |-> f.theta - g.theta]

\* The estimates a differentiable price satisfies in one variable at a time, with
\* its third derivatives (in time, the second) for a bound: every change is
\* what the Greeks at the beginning say, and a term of the next order.
SmoothBetween(c, s, u, v, w, t, z) ==
  LET bound == Roughness(c, Max({v, w}))
      ds == u - s
      dv == w - v
      dt == z - t
      r(p, q) == Rest(c, p, q, t)
      now == r(s, v)
      later == r(u, w)
  IN  /\ Abs(r(u, v).price - now.price - now.delta * ds - (now.gamma \div 2) * ds * ds)
           <= bound * Abs(ds * ds * ds)
      /\ Abs(r(s, w).price - now.price - now.vega * dv - (now.volga \div 2) * dv * dv)
           <= bound * Abs(dv * dv * dv)
      /\ Abs((later.price - r(u, v).price) - (r(s, w).price - now.price)
             - (r(s, w).delta - now.delta) * ds) <= bound * ds * ds * Abs(dv)
      /\ Abs(r(s, w).delta - now.delta - now.vanna * dv) <= bound * dv * dv
      /\ Abs(Rest(c, u, w, z).price - later.price - later.theta * dt) <= bound * dt * dt
      /\ Abs(later.theta - now.theta) <= bound * (Abs(ds) + Abs(dv))

SmoothOn(c, Spots, Vols, Times) ==
  \A s, u \in Spots, v, w \in Vols, t, z \in Times : SmoothBetween(c, s, u, v, w, t, z)

\* The interaction of the two moves beyond their product.
ThirdOrderCross(c, t, ds, dv) ==
  Coefficient(c, t, 2, 1) * ds * ds * dv + Coefficient(c, t, 1, 2) * ds * dv * dv

\* What an expansion of the polynomial to second order in spot and volatility
\* and to first order in time leaves out: the third order, and what the passing
\* of time does to the closing price beyond the opening state's theta.
Omitted(q) ==
  LET c == q.contract
      ds == q.to.s - q.from.s
      dv == q.to.sigma - q.from.sigma
      closing(t) == CubicForm(c, q.to.s, q.to.sigma, t).price
  IN  Coefficient(c, q.from.t, 3, 0) * ds * ds * ds
      + ThirdOrderCross(c, q.from.t, ds, dv)
      + Coefficient(c, q.from.t, 0, 3) * dv * dv * dv
      + closing(q.to.t) - closing(q.from.t)
      - Theta(c, q.from.s, q.from.sigma, q.from.t) * (q.to.t - q.from.t)

\* The terms that occur in a bound on what is left out of the rest.
MixedSize(ds, dv) == ds * ds * Abs(dv) + Abs(ds) * dv * dv
MoveSize(ds, dv, dt) ==
  Abs(ds * ds * ds) + Abs(dv * dv * dv) + MixedSize(ds, dv)
  + dt * dt + (Abs(ds) + Abs(dv)) * Abs(dt)

\* Where the closed form is a number: it takes a logarithm of spot over strike.
HasPrice(c, state) == c.strike > 0 /\ state.s > 0 /\ ~Degenerate(state.sigma, state.t)

-----------------------------------------------------------------------------

\* Nothing is counted twice or left to the wrong bucket: with all six terms the
\* engine's residual is what a second-order expansion leaves out and nothing
\* else, and without the two cross terms it is that and exactly those two.
\* A term of lower order in the moves would show however smooth the price is.
ResidualIsWhatTaylorOmits ==
  engine = "exited" =>
    \A k \in DOMAIN input :
      LET q == input[k]
          answer == results[k]
          slack == Roughness(q.contract, Max({q.from.sigma, q.to.sigma}))
                   * MoveSize(q.to.s - q.from.s, q.to.sigma - q.from.sigma, q.to.t - q.from.t)
      IN  HasPrice(q.contract, q.from) /\ HasPrice(q.contract, q.to)
          => /\ Abs(answer.residual_full - Omitted(q)) <= slack
             /\ Abs(answer.residual - (Omitted(q) + answer.vanna_pnl + answer.volga_pnl)) <= slack

\* What a sequential repricing hands to whichever factor comes second is the
\* interaction of the two: the discrepancy between the two orders, put together
\* from four prices of two batches, is the vanna_pnl of a third but for terms of
\* third order in which both moves occur.
DiscrepancyIsVanna ==
  \A k \in DOMAIN out :
    LET m == market[k]
        ds == m.close.s - m.open.s
        dv == m.close.sigma - m.open.sigma
    IN  Abs(out[k].discrepancy
            - (out[k].vanna_pnl + ThirdOrderCross(m.contract, m.open.t, ds, dv)))
          <= Roughness(m.contract, Max({m.open.sigma, m.close.sigma})) * MixedSize(ds, dv)
=============================================================================
