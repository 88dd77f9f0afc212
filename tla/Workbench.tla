------------------------------ MODULE Workbench ------------------------------
(***************************************************************************)
(* The window (app.rs): one panel is drawn at a time, requests are sent    *)
(* from the history and the interceptor to the repeater and the intruder,  *)
(* and from the repeater to the intruder.  A panel that is not drawn       *)
(* stands still, a running attack included.                                *)
(***************************************************************************)
EXTENDS Intruder, HttpRepeater

CONSTANT Views         \* bound: sets of panels, one of which the user keeps to

VARIABLES
    active_tab,        \* "Traffic" stands for the other tabs of the top bar
    views              \* the panels the user turns to

vars == <<intruder, repeater, active_tab, views>>

Tabs == {"Traffic", "Intercept", "Repeater", "BruteForce"}

ASSUME ViewsAssumption == Views \subseteq SUBSET Tabs

Init == InitIntruder /\ InitRepeater /\ active_tab = "Traffic" /\ views \in Views

-----------------------------------------------------------------------------
Turn(tab) == tab \in views /\ active_tab' = tab /\ UNCHANGED views

SwitchTab(tab) == Turn(tab) /\ UNCHANGED <<intruder, repeater>>

\* A captured request comes with its response, a paused one without.
SendToRepeater ==
    /\ \E request \in Requests :
          \/ active_tab = "Traffic" /\ OpenTab(request, "captured")
          \/ active_tab = "Intercept" /\ OpenTab(request, "none")
    /\ Turn("Repeater")
    /\ UNCHANGED intruder

\* Only the template is replaced; a running attack keeps its queue.
SendToIntruder ==
    /\ active_tab \in {"Traffic", "Intercept", "Repeater"}
    /\ \E marks \in 0 .. MaxMarks : SetTemplate(marks)
    /\ Turn("BruteForce")
    /\ UNCHANGED repeater

UseRepeater == active_tab = "Repeater" /\ RepeaterStep /\ UNCHANGED <<intruder, active_tab, views>>

RunAttack == active_tab = "BruteForce" /\ Advance /\ UNCHANGED <<repeater, active_tab, views>>

UseIntruder ==
    /\ active_tab = "BruteForce"
    /\ Pad \/ ClickStart \/ ClickStop \/ ChangeSettings
    /\ UNCHANGED <<repeater, active_tab, views>>

\* "Add" slices the template's bytes at the characters selected: behind a mark, which is
\* one character of two bytes, the slice may split it, and the program ends.
AddMarksPanics ==
    /\ active_tab = "BruteForce" /\ Drawn /\ body_template > 0
    /\ body_template' = 4
    /\ payload_sets' = <<>> /\ active_set_index' = 1
    /\ position_set_indices' = <<>>
    /\ attack_type' = "Sniper" /\ concurrency' = 1
    /\ running' = FALSE /\ pending_queue' = <<>> /\ results' = <<>> /\ plan' = <<>>
    /\ repeater_tabs' = <<[id |-> 1, request |-> Blank, response |-> "none"]>>
    /\ active_repeater_tab' = 1
    /\ active_tab' = "Traffic" /\ UNCHANGED views

Next ==
    \/ \E tab \in Tabs : SwitchTab(tab)
    \/ SendToRepeater \/ SendToIntruder
    \/ UseRepeater \/ UseIntruder \/ RunAttack
    \/ AddMarksPanics

Spec == Init /\ [][Next]_vars

\* A running attack asks for the next frame itself, whatever the user does, and the delay
\* between batches passes: the field holds seconds, not "inf", which it also takes.
FairSpec == Spec /\ WF_vars(RunAttack)

-----------------------------------------------------------------------------
(* Properties *)

\* An attack ends by itself, whatever is typed for its concurrency, as long as its panel
\* stays in view.
AttackEnds ==
    running /\ active_tab = "BruteForce" ~> ~running \/ active_tab # "BruteForce"
=============================================================================
