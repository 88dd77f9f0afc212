----------------------------- MODULE HttpRepeater -----------------------------
(***************************************************************************)
(* The HTTP repeater (ui/repeater.rs, proxy/repeater_engine.rs): a row of  *)
(* tabs, the one in front being edited and sent.  A request is sent by the *)
(* window thread itself, which waits for the answer.                       *)
(*                                                                         *)
(* A tab is its identity, the request it holds and what its response panel *)
(* shows: the answer to a request, a captured response, an error, nothing. *)
(* Indices count from 1.                                                   *)
(***************************************************************************)
EXTENDS Naturals, Sequences, SequencesExt

CONSTANTS
    Requests,      \* request texts
    MaxRepeaterTabs    \* bound: tabs open at a time

ASSUME RepeaterAssumption ==
    /\ MaxRepeaterTabs \in Nat \ {0}
    /\ Requests # {} /\ {"none", "captured", "error"} \cap Requests = {}

VARIABLES
    repeater_tabs,
    active_repeater_tab

repeater == <<repeater_tabs, active_repeater_tab>>

TabIds    == 1 .. MaxRepeaterTabs
Responses == Requests \cup {"none", "captured", "error"}
FreshTab(request, response) ==
    [id       |-> CHOOSE n \in TabIds : \A i \in DOMAIN repeater_tabs : repeater_tabs[i].id # n,
     request  |-> request,
     response |-> response]

Blank == CHOOSE request \in Requests : TRUE

InitRepeater ==
    /\ repeater_tabs = <<[id |-> 1, request |-> Blank, response |-> "none"]>>
    /\ active_repeater_tab = 1

ActiveTab == repeater_tabs[active_repeater_tab]

ClickTab(i) ==
    /\ active_repeater_tab' = i
    /\ UNCHANGED repeater_tabs

\* "+ New Tab", and a request sent here from the history or the interceptor.
OpenTab(request, response) ==
    /\ Len(repeater_tabs) < MaxRepeaterTabs
    /\ repeater_tabs' = Append(repeater_tabs, FreshTab(request, response))
    /\ active_repeater_tab' = Len(repeater_tabs) + 1

Swap(i, j) == [repeater_tabs EXCEPT ![i] = repeater_tabs[j], ![j] = repeater_tabs[i]]

\* Broken: forgets that the neighbour may be in front.
MoveTabOneSided(i, j) ==
    /\ i \in DOMAIN repeater_tabs /\ j \in DOMAIN repeater_tabs
    /\ repeater_tabs' = Swap(i, j)
    /\ active_repeater_tab' = IF active_repeater_tab = i THEN j ELSE active_repeater_tab

\* "Move Left" and "Move Right": the tab in front stays in front.
MoveTab(i, j) ==
    /\ i \in DOMAIN repeater_tabs /\ j \in DOMAIN repeater_tabs
    /\ repeater_tabs' = Swap(i, j)
    /\ active_repeater_tab' = CASE active_repeater_tab = i -> j
                                [] active_repeater_tab = j -> i
                                [] OTHER                   -> active_repeater_tab

\* The last tab is emptied instead.  The index of the tab in front is kept, so closing a
\* tab left of it brings the next one to the front.
CloseTab(i) ==
    \/ /\ Len(repeater_tabs) > 1
       /\ repeater_tabs' = RemoveAt(repeater_tabs, i)
       /\ active_repeater_tab' = IF active_repeater_tab >= Len(repeater_tabs)
                                   THEN Len(repeater_tabs) - 1 ELSE active_repeater_tab
    \/ /\ Len(repeater_tabs) = 1
       /\ repeater_tabs' = <<[ActiveTab EXCEPT !.request = Blank, !.response = "none"]>>
       /\ active_repeater_tab' = 1

InFront(tab) ==
    /\ repeater_tabs' = [repeater_tabs EXCEPT ![active_repeater_tab] = tab]
    /\ UNCHANGED active_repeater_tab

\* The editor, and the protocol menu, which rewrites the first line.
EditRequest(request) == InFront([ActiveTab EXCEPT !.request = request])

\* "Send": execute_repeater_request answers or fails before it returns.
ClickSend ==
    \E answer \in {ActiveTab.request, "error"} : InFront([ActiveTab EXCEPT !.response = answer])

RepeaterStep ==
    \/ \E i \in DOMAIN repeater_tabs :
          \/ ClickTab(i) \/ CloseTab(i) \/ MoveTab(i, i - 1) \/ MoveTab(i, i + 1)
    \/ OpenTab(Blank, "none")
    \/ \E request \in Requests : EditRequest(request)
    \/ ClickSend

-----------------------------------------------------------------------------
(* Properties *)

\* There is a tab in front, and only that tab may change: moving and closing tabs never
\* mixes what they hold.
RepeaterTypeOK ==
    /\ active_repeater_tab \in DOMAIN repeater_tabs
    /\ repeater_tabs \in Seq([id : TabIds, request : Requests, response : Responses])
    /\ \A i, j \in DOMAIN repeater_tabs : repeater_tabs[i].id = repeater_tabs[j].id => i = j

\* Another tab comes to the front only if the user asks for it: by clicking it, opening
\* one, or closing a tab that is in front or left of the one in front; or the program is
\* started anew.
FrontTabStays ==
    [][ \/ ActiveTab'.id = ActiveTab.id
        \/ repeater_tabs' = repeater_tabs
        \/ Len(repeater_tabs') > Len(repeater_tabs)
        \/ \E i \in 1 .. active_repeater_tab :
               repeater_tabs' = RemoveAt(repeater_tabs, i)
        \/ InitRepeater' ]_repeater
=============================================================================
