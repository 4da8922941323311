---------------------------- MODULE MCDeployment ----------------------------
(***************************************************************************)
(* Small instances of Deployment.                                          *)
(***************************************************************************)
EXTENDS Deployment, MCRadar

\* The talk of Soon, moved to another day and venue, with an open end: a row
\* that has stored this answer first is given the end of the other one.
Later == Answer(Talk, 2, None, Loft, quote)

SoonOrLater == {Soon, Later}
=============================================================================
