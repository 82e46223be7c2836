--------------------------- MODULE MCPopupSession ---------------------------
(* A small instance of PopupSession: the popup opened twice, runs of up to   *)
(* two codes.                                                                *)
EXTENDS PopupSession

PageOf(facts) == [script |-> "script" \in facts, profile |-> "profile" \in facts,
                  input |-> "input" \in facts, button |-> "button" \in facts,
                  total |-> "total" \in facts]

\* A page of the browser, a shop without a profile, one with everything, and one
\* with a profile that does not fit.
MCPages == {PageOf({}), PageOf({"script"}), PageOf({"script", "profile", "input"}),
            PageOf({"script", "profile", "input", "button", "total"})}
=============================================================================
