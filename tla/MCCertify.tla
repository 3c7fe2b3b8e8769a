----------------------------- MODULE MCCertify -----------------------------
(***************************************************************************)
(* The certificate's gate on policies with every kind of ceiling and       *)
(* bound, and a window of the smallest length the contract installs.       *)
(***************************************************************************)
EXTENDS Certify

p(ceiling, bound, text) ==
  [ceiling |-> ceiling, bound |-> bound, text |-> text]

MCPolicy ==
  {p(2, 2, 1), p(2, 2, 2), p(3, 2, 1), p(1, 1, 1), p(1, 2, 1),
   p(3, 3, 1), p(2, 1, 1), p(None, 2, 1), p(0, 2, 1)}

\* The ends of the stretches that the model's conditions tell apart.
MCElapsed == {0, 1, 30, 59, 60, 119, 120}
=============================================================================
