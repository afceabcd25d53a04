----------------------------- MODULE WebClient -----------------------------
(***************************************************************************)
(* The scripts of the web interface (internal/web/static/app.js) in one    *)
(* tab, against the handlers they call.  Every call is sent, served by the *)
(* handler and answered in separate steps; answers come in any order, or   *)
(* not at all.  The tab is on one page:                                    *)
(*                                                                         *)
(*   "host"      the graph of a host: the last day, then what is selected; *)
(*   "alerts"    the list of alerts, its filter and its buttons;           *)
(*   "settings"  the forms, each sent through withElevation, which asks    *)
(*               for the password in a dialog they all share.              *)
(***************************************************************************)
EXTENDS Naturals, Sequences, FiniteSets

CONSTANTS
    Kind,           \* the kinds of the alerts, in the order they are raised
    Limit,          \* defaultAlertLimit
    Selections,     \* ranges of the graph
    MaxLoads,       \* bound: calls of load or loadSeries
    MaxSubmits,     \* bound: forms submitted
    MaxPasswords    \* bound: passwords whose calls are out

ASSUME WebAssumption == Kind \in Seq(STRING) /\ Limit \in Nat

VARIABLES
    page,       \* the page of the tab, "login" once it has been sent there
    \* the graph and the list of alerts
    control,    \* the selection, or the filter
    calls,      \* how often loadSeries or load has been called
    loads,      \* the calls that are out
    shown,      \* the last answer rendered: its call, 0 if none, and items
    raised,     \* the id of the last alert
    acked,      \* alerts.acknowledged
    acks,       \* calls of the Acknowledge buttons
    ackAll,     \* the call of the Acknowledge all button
    \* the settings page
    ops,        \* the runs of withElevation by the forms of the settings
    modal,      \* the dialog is visible
    reauths,    \* calls of /api/reauth
    session,    \* the server's view: "elevated", "plain" or "gone"
    \* history
    meant,      \* the alerts clicked and the kinds confirmed
    applied,    \* how often each op has been carried out
    spoilt      \* what makes the page's view differ from the server's

listed == <<control, calls, loads, shown>>
alerting == <<raised, acked, acks, ackAll, meant>>
saving == <<ops, modal, reauths, session, applied>>
webVars == <<page, control, calls, loads, shown, raised, acked, acks, ackAll,
             ops, modal, reauths, session, meant, applied, spoilt>>

Alerts == DOMAIN Kind
Kinds == {Kind[a] : a \in Alerts}
Filter == [unacked : BOOLEAN, kind : Kinds \cup {""}]
Item == [id : Alerts, acked : BOOLEAN]
Op == [try : 1 .. 2,
       phase : {"sent", "served", "prompt", "saved", "failed", "cancelled"},
       res : {"", "ok", "reauth_required", "unauthenticated"}]
Answers == {"", "ok", "invalid_credentials", "unauthenticated"}

(* The shape of the tab and the tables.  An action is sent a second time   *)
(* at most: withElevation "retries actionFn() exactly once more".          *)
WebTypeOK ==
    /\ page \in {"host", "alerts", "settings", "login"}
    /\ calls \in 0 .. MaxLoads
    /\ \A l \in loads : l.n \in 1 .. calls /\ l.status \in {"sent", "served"}
    /\ shown.n \in 0 .. calls /\ shown.items \subseteq Item
    /\ raised \in 0 .. Len(Kind) /\ acked \subseteq 1 .. raised
    /\ acks \subseteq [id : Alerts, n : 1 .. MaxLoads, status : {"sent", "served"}]
    /\ ackAll \in [kind : Kinds \cup {""}, status : {"idle", "sent", "served", "reload"},
                   n : 0 .. MaxLoads]
    /\ ops \in Seq(Op) /\ modal \in BOOLEAN
    /\ reauths \subseteq [op : 1 .. MaxSubmits, n : 1 .. MaxPasswords, right : BOOLEAN, res : Answers]
    /\ session \in {"elevated", "plain", "gone"}
    /\ spoilt \subseteq {"reordered", "failed", "lost", "overlap"}

NoFilter == [unacked |-> FALSE, kind |-> ""]
Call(n, c) == [n |-> n, control |-> c, status |-> "sent", items |-> {}]
Idle == [kind |-> "", status |-> "idle", n |-> 0]

(* Each page loads at once.                                                *)
WebInit ==
    /\ page \in {"host", "alerts", "settings"}
    /\ control \in IF page = "host" THEN Selections ELSE {NoFilter}
    /\ calls = (IF page = "settings" THEN 0 ELSE 1)
    /\ loads = {Call(n, control) : n \in 1 .. calls}
    /\ shown = [n |-> 0, control |-> control, items |-> {}]
    /\ raised = 0 /\ acked = {} /\ acks = {} /\ ackAll = Idle /\ meant = {}
    /\ ops = <<>> /\ modal = FALSE /\ reauths = {} /\ session = "plain"
    /\ applied = <<>> /\ spoilt = {}

(***************************************************************************)
(* Loading: the graph, and the list of alerts.                             *)
(***************************************************************************)
Controls == IF page = "host" THEN Selections ELSE Filter

(* setSelect, and the change of the toggle or the kind.                    *)
SetControl(c) ==
    /\ page \in {"host", "alerts"} /\ c # control
    /\ page = "host" => shown.n # 0
    /\ calls < MaxLoads
    /\ control' = c
    /\ calls' = calls + 1 /\ loads' = loads \cup {Call(calls + 1, c)}
    /\ UNCHANGED <<page, shown, alerting, saving, spoilt>>

(* The newest Limit alerts the filter lets through.                        *)
ListAlerts(f) ==
    LET hits == {a \in 1 .. raised : f.kind \in {"", Kind[a]} /\ (f.unacked => a \notin acked)}
    IN  {[id |-> a, acked |-> a \in acked] :
            a \in {h \in hits : Cardinality({g \in hits : g > h}) < Limit}}

ServeLoad(l) ==
    /\ page # "login" /\ l.status = "sent"
    /\ loads' = (loads \ {l}) \cup
          {[l EXCEPT !.status = "served", !.items = IF page = "alerts" THEN ListAlerts(l.control) ELSE {}]}
    /\ UNCHANGED <<page, control, calls, shown, alerting, saving, spoilt>>

(* Mutant: an existing graph or list is left as it is.                     *)
RenderOnce(l) ==
    IF shown.n = 0 THEN [n |-> l.n, control |-> l.control, items |-> l.items] ELSE shown

(* A new plot or setData; renderAlertList.                                 *)
Render(l) == [n |-> l.n, control |-> l.control, items |-> l.items]

LoadAnswered(l) ==
    /\ page # "login" /\ l.status = "served"
    /\ loads' = loads \ {l}
    /\ shown' = Render(l)
    /\ spoilt' = spoilt \cup (IF l.n < shown.n THEN {"reordered"} ELSE {})
    /\ UNCHANGED <<page, control, calls, alerting, saving>>

(* The call throws.                                                        *)
LoadFails(l) ==
    /\ page # "login"
    /\ loads' = loads \ {l}
    /\ spoilt' = spoilt \cup {"failed"}
    /\ UNCHANGED <<page, control, calls, shown, alerting, saving>>

(* The same with the answer 401: the list, and the first call for a graph, *)
(* send the tab to the login page, which drops all the tab has.            *)
LoadUnauthenticated(l) ==
    /\ page = "alerts" \/ (page = "host" /\ l.n = 1)
    /\ page' = "login"
    /\ loads' = {} /\ shown' = [shown EXCEPT !.items = {}]
    /\ spoilt' = spoilt \cup {"failed"}
    /\ UNCHANGED <<control, calls, alerting, saving>>

(***************************************************************************)
(* Acknowledging.                                                          *)
(***************************************************************************)

(* raiseAlert, meanwhile.                                                  *)
InsertAlert ==
    /\ page = "alerts" /\ raised < Len(Kind)
    /\ raised' = raised + 1
    /\ UNCHANGED <<page, listed, acked, acks, ackAll, meant, saving, spoilt>>

Unacked(id) == [id |-> id, acked |-> FALSE]
Marked(items, id) == (items \ {Unacked(id)}) \cup {[id |-> id, acked |-> TRUE]}

(* Mutant: the item is marked before the call is answered.                 *)
ClickAckMarks(id) ==
    /\ page = "alerts" /\ Unacked(id) \in shown.items
    /\ \A k \in acks : k.id # id \/ k.n # shown.n
    /\ acks' = acks \cup {[id |-> id, n |-> shown.n, status |-> "sent"]}
    /\ shown' = [shown EXCEPT !.items = Marked(@, id)]
    /\ meant' = meant \cup {id}
    /\ UNCHANGED <<page, control, calls, loads, raised, acked, ackAll, saving, spoilt>>

(* The button of an item, disabled while its call is out.                  *)
ClickAck(id) ==
    /\ page = "alerts" /\ Unacked(id) \in shown.items
    /\ \A k \in acks : k.id # id \/ k.n # shown.n
    /\ acks' = acks \cup {[id |-> id, n |-> shown.n, status |-> "sent"]}
    /\ meant' = meant \cup {id}
    /\ UNCHANGED <<page, listed, raised, acked, ackAll, saving, spoilt>>

(* ackAlert.                                                               *)
AcknowledgeAlert(k) ==
    /\ k.status = "sent"
    /\ acked' = acked \cup {k.id}
    /\ acks' = (acks \ {k}) \cup {[k EXCEPT !.status = "served"]}
    /\ UNCHANGED <<page, listed, raised, ackAll, meant, saving, spoilt>>

(* The item of the rendering the button belonged to is marked.             *)
AckAnswered(k) ==
    /\ page = "alerts" /\ k.status = "served"
    /\ acks' = acks \ {k}
    /\ shown' = IF k.n = shown.n THEN [shown EXCEPT !.items = Marked(@, k.id)] ELSE shown
    /\ UNCHANGED <<page, control, calls, loads, raised, acked, ackAll, meant, saving, spoilt>>

(* The call throws, before or after it was served: the button is enabled.  *)
AckFails(k) ==
    /\ page = "alerts"
    /\ acks' = acks \ {k}
    /\ UNCHANGED <<page, listed, raised, acked, ackAll, meant, saving, spoilt>>

AckAllEnabled ==
    \/ ackAll = Idle
    \/ ackAll.status = "reload" /\ \A l \in loads : l.n # ackAll.n

(* The other button: the kind is the one the user has just confirmed.      *)
ConfirmAckAll ==
    /\ page = "alerts" /\ AckAllEnabled
    /\ ackAll' = [kind |-> control.kind, status |-> "sent", n |-> 0]
    /\ meant' = meant \cup {a \in Alerts : control.kind \in {"", Kind[a]}}
    /\ UNCHANGED <<page, listed, raised, acked, acks, saving, spoilt>>

(* The rows AcknowledgeAllAlerts updates.                                  *)
AcknowledgeAllAlerts(kind) == {a \in 1 .. raised : kind \in {"", Kind[a]}}

ServeAckAll ==
    /\ ackAll.status = "sent"
    /\ acked' = acked \cup AcknowledgeAllAlerts(ackAll.kind)
    /\ ackAll' = [ackAll EXCEPT !.status = "served"]
    /\ UNCHANGED <<page, listed, raised, acks, meant, saving, spoilt>>

(* The list is loaded again, with the button disabled until it has been;   *)
(* a call that throws only leaves a note.                                  *)
AckAllAnswered ==
    /\ page = "alerts" /\ ackAll.status = "served"
    /\ calls < MaxLoads
    /\ calls' = calls + 1 /\ loads' = loads \cup {Call(calls + 1, control)}
    /\ ackAll' = [Idle EXCEPT !.status = "reload", !.n = calls + 1]
    /\ UNCHANGED <<page, control, shown, raised, acked, acks, meant, saving, spoilt>>

AckAllFails ==
    /\ page = "alerts" /\ ackAll.status \in {"sent", "served"}
    /\ ackAll' = Idle
    /\ UNCHANGED <<page, listed, raised, acked, acks, meant, saving, spoilt>>

(***************************************************************************)
(* Saving: withElevation and promptForReauth.                              *)
(***************************************************************************)
(* A form is not disabled while it is being saved.                         *)
Submit ==
    /\ page = "settings" /\ Len(ops) < MaxSubmits
    /\ ops' = Append(ops, [try |-> 1, phase |-> "sent", res |-> ""])
    /\ applied' = Append(applied, 0)
    /\ UNCHANGED <<page, listed, alerting, modal, reauths, session, spoilt>>

(* RequireAuth, RequireElevation and putSettings.                          *)
Verdict == IF session = "gone" THEN "unauthenticated"
           ELSE IF session = "plain" THEN "reauth_required" ELSE "ok"

PutSettings(i) ==
    /\ ops[i].phase = "sent"
    /\ ops' = [ops EXCEPT ![i].phase = "served", ![i].res = Verdict]
    /\ applied' = IF Verdict = "ok" THEN [applied EXCEPT ![i] = @ + 1] ELSE applied
    /\ UNCHANGED <<page, listed, alerting, modal, reauths, session, spoilt>>

Prompting == {i \in DOMAIN ops : ops[i].phase = "prompt"}

Prompts(i) == ops[i].res = "reauth_required" /\ ops[i].try = 1

(* The answer: the action is done, has failed, or waits for the password.  *)
PutAnswered(i) ==
    /\ page = "settings" /\ ops[i].phase = "served"
    /\ ops' = [ops EXCEPT ![i].phase = IF ops[i].res = "ok" THEN "saved"
                                       ELSE IF Prompts(i) THEN "prompt" ELSE "failed"]
    /\ modal' = (modal \/ Prompts(i))
    /\ spoilt' = spoilt \cup (IF Prompts(i) /\ (Prompting # {} \/ reauths # {}) THEN {"overlap"} ELSE {})
    /\ UNCHANGED <<page, listed, alerting, reauths, session, applied>>

(* No answer: the network, before or after the handler.                    *)
PutLost(i) ==
    /\ page = "settings" /\ ops[i].phase \in {"sent", "served"}
    /\ ops' = [ops EXCEPT ![i].phase = "failed"]
    /\ spoilt' = spoilt \cup (IF ops[i].res = "ok" THEN {"lost"} ELSE {})
    /\ UNCHANGED <<page, listed, alerting, modal, reauths, session, applied>>

(* The form of the dialog is submitted: each waiting prompt listens to it. *)
SubmitPassword(n, right) ==
    /\ page = "settings" /\ modal /\ Prompting # {}
    /\ (\A r \in reauths : r.n < n) /\ (n > 1 => \E r \in reauths : r.n = n - 1)
    /\ reauths' = reauths \cup {[op |-> i, n |-> n, right |-> right, res |-> ""] : i \in Prompting}
    /\ UNCHANGED <<page, listed, alerting, ops, modal, session, applied, spoilt>>

ServeReauth(r) ==
    /\ r.res = ""
    /\ LET res == IF session = "gone" THEN "unauthenticated"
                  ELSE IF r.right THEN "ok" ELSE "invalid_credentials"
       IN  /\ reauths' = (reauths \ {r}) \cup {[r EXCEPT !.res = res]}
           /\ session' = IF res = "ok" THEN "elevated" ELSE session
    /\ UNCHANGED <<page, listed, alerting, ops, modal, applied, spoilt>>

(* Mutant: the action goes on even if its prompt has been cancelled.       *)
ResumeAnyway(i) ==
    [ops EXCEPT ![i].phase = "sent", ![i].try = 2, ![i].res = ""]

(* resolve: the action is sent again, unless its prompt is settled.        *)
Resume(i) ==
    IF ops[i].phase # "prompt" THEN ops
    ELSE [ops EXCEPT ![i].phase = "sent", ![i].try = @ + 1, ![i].res = ""]

(* Mutant: the dialog is closed whatever the answer.                       *)
HidesAlways(r) == TRUE

(* cleanup hides the dialog.                                               *)
Hides(r) == r.res \in {"ok", "unauthenticated"}

(* A wrong password, or no answer, leaves the dialog open.                 *)
ReauthAnswered(r) ==
    /\ page = "settings"
    /\ reauths' = reauths \ {r}
    /\ modal' = (modal /\ ~Hides(r))
    /\ ops' = IF r.res = "ok" THEN Resume(r.op) ELSE ops
    /\ page' = IF r.res = "unauthenticated" THEN "login" ELSE page
    /\ UNCHANGED <<listed, alerting, session, applied, spoilt>>

(* Cancel, the backdrop or Escape: every waiting prompt listens to it.     *)
OnCancel ==
    /\ page = "settings" /\ Prompting # {}
    /\ ops' = [i \in DOMAIN ops |->
                  IF i \in Prompting THEN [ops[i] EXCEPT !.phase = "cancelled"] ELSE ops[i]]
    /\ modal' = FALSE
    /\ UNCHANGED <<page, listed, alerting, reauths, session, applied, spoilt>>

(* The elevation or the session ends.                                      *)
Expire ==
    /\ page = "settings"
    /\ \/ session = "elevated" /\ session' = "plain"
       \/ session # "gone" /\ session' = "gone"
    /\ UNCHANGED <<page, listed, alerting, ops, modal, reauths, applied, spoilt>>

WebNext ==
    \/ \E c \in Controls : SetControl(c)
    \/ \E l \in loads : ServeLoad(l) \/ LoadAnswered(l)
                        \/ LoadFails(l) \/ LoadUnauthenticated(l)
    \/ InsertAlert
    \/ \E a \in Alerts : ClickAck(a)
    \/ \E k \in acks : AcknowledgeAlert(k) \/ AckAnswered(k) \/ AckFails(k)
    \/ ConfirmAckAll \/ ServeAckAll \/ AckAllAnswered \/ AckAllFails
    \/ Submit
    \/ \E i \in DOMAIN ops : PutSettings(i) \/ PutAnswered(i) \/ PutLost(i)
    \/ \E n \in 1 .. MaxPasswords, right \in BOOLEAN : SubmitPassword(n, right)
    \/ \E r \in reauths : ServeReauth(r) \/ ReauthAnswered(r)
    \/ OnCancel \/ Expire

WebSpec == WebInit /\ [][WebNext]_webVars

-----------------------------------------------------------------------------
(* Once every call has been answered, and in order, the graph or the list  *)
(* is that of the range or filter chosen last.  The scripts render every   *)
(* answer that comes, so an earlier choice may be shown when answers       *)
(* overtake each other.                                                    *)
ShownIsCurrent == loads = {} /\ spoilt \cap {"reordered", "failed"} = {} => shown.control = control

(* The same whatever the order of the answers.                             *)
ShownIsAlwaysCurrent == loads = {} /\ "failed" \notin spoilt => shown.control = control

(* An alert that looks acknowledged is acknowledged in the database, even  *)
(* when lists are loaded again while buttons wait for their answers; and   *)
(* no alert is but by its own button or with a kind the user confirmed,    *)
(* whatever the filter is changed to before the server acts.               *)
AcksAreTrue ==
    /\ \A item \in shown.items : item.acked => item.id \in acked
    /\ acked \subseteq meant

(* What a form of the settings reports is true: its PUT is carried out     *)
(* once at most, has been when it says saved, and has not when it says     *)
(* that it failed or was cancelled, unless the server's answer was lost.   *)
ReportIsTrue ==
    \A i \in DOMAIN ops :
        /\ applied[i] <= 1
        /\ ops[i].phase = "saved" => applied[i] = 1
        /\ ops[i].phase = "cancelled" => applied[i] = 0
        /\ ops[i].phase = "failed" /\ "lost" \notin spoilt => applied[i] = 0

(* An action that waits for the password has the dialog open, unless the   *)
(* prompts of two actions overlap.                                         *)
PromptIsVisible == page = "settings" /\ Prompting # {} /\ "overlap" \notin spoilt => modal

(* The same when prompts overlap, or an answer to a cancelled one is late. *)
PromptIsAlwaysVisible == page = "settings" /\ Prompting # {} => modal
=============================================================================
