----------------------------- MODULE MCWorkbench -----------------------------
(***************************************************************************)
(* Workbench with payload lists of different lengths, one of which repeats *)
(* a payload.                                                              *)
(***************************************************************************)
EXTENDS Workbench

CONSTANTS a, b, c

\* An attack that comes and goes from view while requests are sent to it, or a row of tabs.
TwoPanels == {{"Traffic", "BruteForce"}, {"Traffic", "Intercept", "Repeater"}}

ShortAndLong == {<<a, a>>, <<b, c, a>>}
=============================================================================
