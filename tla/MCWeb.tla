------------------------------- MODULE MCWeb -------------------------------
(***************************************************************************)
(* The two sides of the web interface for TLC: the answers to requests for *)
(* a graph against retention (Series), and a tab of a browser (WebClient). *)
(* Neither uses the state of the other, so a behaviour is one of either:   *)
(* time passes while the tab has done nothing, and the tab acts at time 0. *)
(***************************************************************************)
EXTENDS WebClient, Series

TabAtRest == page = "settings" /\ ops = <<>> /\ session = "plain"

MCInit == WebInit /\ SeriesInit
MCNext ==
    \/ now = 0 /\ WebNext /\ UNCHANGED seriesVars
    \/ TabAtRest /\ SeriesNext /\ UNCHANGED webVars
MCSpec == MCInit /\ [][MCNext]_<<webVars, seriesVars>>

(* The unit is half a day; the tiers keep, and are asked for, less than in *)
(* the code, in the same order: minutes are kept for less than they are    *)
(* asked for (7 days against 10), and so are five minutes (60 days against *)
(* 90); hours are kept as long as they are asked for.                      *)
MCKeep == [raw |-> 2, m1 |-> 3, m5 |-> 4, h1 |-> 6, d1 |-> 7]
MCMaxSpan == [raw |-> 2, m1 |-> 4, m5 |-> 5, h1 |-> 6]

MCKind == <<"new_destination", "beaconing">>
=============================================================================
