-------------------------------- MODULE Policy --------------------------------
(***************************************************************************)
(* The decision rule of verified caching (internal/policy): explore below  *)
(* the cold-start floor and on a fit that says nothing, otherwise explore  *)
(* with the probability tau_hat, the least over a grid of confidence       *)
(* levels of 1 - delta / (1 - alpha).                                      *)
(*                                                                         *)
(* The numerics of the fit and of its confidence band are abstract: a fit  *)
(* has a shape, and for each level of the grid a lower bound alpha of the  *)
(* probability that the entry is correct.  A bound is a fraction of Scale  *)
(* or, when the band blows up, NaN.                                        *)
(***************************************************************************)
EXTENDS Floats, FiniteSets, SequencesExt

CONSTANTS
  GridSize,  \* confidence levels tried
  Scale,     \* denominator of the bounds
  Faces      \* the coin is one of 0/Faces, ..., (Faces - 1)/Faces

ASSUME PolicyAssumption == GridSize \in Nat \ {0} /\ Scale \in Nat \ {0} /\ Faces \in Nat \ {0}

Grid  == 1 .. GridSize
Coins == {<<j, Faces>> : j \in 0 .. Faces - 1}

\* alpha = (1 - eps) * L(...) with eps = (k - 1/2) / GridSize and 0 <= L <= 1.
MayBound(k, a) == 2 * GridSize * a <= Scale * (2 * GridSize - 2 * k + 1)

Bands == {[k \in Grid |-> <<a[k], Scale>>] :
             a \in {f \in [Grid -> 0 .. Scale - 1] : \A k \in Grid : MayBound(k, f[k])}}
         \cup {[k \in Grid |-> NaN]}

\* What Fit can make of n observations; only a rising, finite curve is usable.
ShapesOf(n) == IF n = 0 THEN {"empty"} ELSE {"flat", "notFinite", "rising"}
Fits(n)     == {[usable |-> shape = "rising", alpha |-> band] : shape \in ShapesOf(n), band \in Bands}

Tau(alpha, delta) ==
  IF NaN \in {alpha, delta} THEN NaN
  ELSE <<(Scale - alpha[1]) * delta[2] - delta[1] * Scale, (Scale - alpha[1]) * delta[2]>>

\* The grid and the coin are fine enough for a delta: some bound lets a face serve.
Resolves(delta) ==
  /\ Faces > 1
  /\ \E a \in 0 .. Scale - 1 :
        MayBound(1, a) /\ Less(Tau(<<a, Scale>>, delta), <<Faces - 1, Faces>>)

Smaller(best, tau) == IF Less(tau, best) THEN tau ELSE best

\* Mutant: the search starts from 0 instead of +Inf.
BugTauHat(alpha, delta) ==
  Clamp(FoldLeft(Smaller, Zero, [k \in Grid |-> Tau(alpha[k], delta)]))

TauHat(alpha, delta) ==
  Clamp(FoldLeft(Smaller, Inf, [k \in Grid |-> Tau(alpha[k], delta)]))

Forced == [explore |-> TRUE, tau |-> One, forced |-> TRUE]

\* Mutant: the floor is tested with <=.
BugDecide(delta, nmin, n, fit, u) ==
  IF n <= nmin \/ ~fit.usable THEN Forced
  ELSE LET tau == TauHat(fit.alpha, delta)
       IN  [explore |-> AtMost(u, tau), tau |-> tau, forced |-> FALSE]

\* Decide for an entry with n observations and their fit, when the coin shows u.
Decide(delta, nmin, n, fit, u) ==
  IF n < nmin \/ ~fit.usable THEN Forced
  ELSE LET tau == TauHat(fit.alpha, delta)
       IN  IF tau = NaN THEN Forced
           ELSE [explore |-> AtMost(u, tau), tau |-> tau, forced |-> FALSE]

\* What Decide may answer for such an entry, whatever its labels and the coin.
Decisions(delta, nmin, n) == {Decide(delta, nmin, n, fit, u) : fit \in Fits(n), u \in Coins}

MayServe(delta, nmin, n) == \E decision \in Decisions(delta, nmin, n) : ~decision.explore
=============================================================================
