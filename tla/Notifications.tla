------------------------------ MODULE Notifications ------------------------------
(***************************************************************************)
(* The notification switch of the bot (server/telegram.ts): /settings      *)
(* sends a message with a button, and a tap on the button reads the        *)
(* setting, stores the other one, answers the tap and redraws the button.  *)
(*                                                                         *)
(* One user and one /settings message.  Telegram posts a tap until it gets *)
(* a 200 and may have several taps in our hands at a time; a handler that  *)
(* throws answers 500 and keeps what it has done.  Definitions named       *)
(* X_Fault are faulty variants of X, used by no action.                    *)
(***************************************************************************)
EXTENDS Naturals, FiniteSets

CONSTANTS
    Taps,
    InOrder,        \* Telegram posts a tap when the taps before it are done
    MaxFailures     \* store and Bot API calls that throw

NotificationsAssumption ==
    InOrder \in BOOLEAN /\ MaxFailures \in Nat /\ IsFiniteSet(Taps)

VARIABLES
    setting,    \* notifications:<user> in the store: none, on, off
    button,     \* what the message shows: none (not sent yet), on, off
    drawing,    \* the setting that the handler of /settings has read
    pc,         \* per tap: unsent, posted, set, answer, edit, done
    enabled,    \* per tap: what its handler makes of the setting
    told,       \* what the last answer to a tap said
    failures

vars == <<setting, button, drawing, pc, enabled, told, failures>>

Init ==
    /\ setting \in {"none", "on", "off"}
    /\ button = "none"
    /\ drawing = "none"
    /\ pc = [t \in Taps |-> "unsent"]
    /\ enabled = [t \in Taps |-> "none"]
    /\ told = "none"
    /\ failures = 0

Goto(t, to) == pc' = [pc EXCEPT ![t] = to]

\* `current !== 'off'` and `current === 'off'`: no key means on.
Shown(current) == IF current = "off" THEN "off" ELSE "on"
Flipped(current) == IF current = "off" THEN "on" ELSE "off"

-------------------------------------------------------------------------------
(* /settings *)

SettingsRead ==
    /\ button = "none" /\ drawing = "none"
    /\ drawing' = Shown(setting)
    /\ UNCHANGED <<setting, button, pc, enabled, told, failures>>

SettingsReply ==
    /\ button = "none" /\ drawing # "none"
    /\ button' = drawing
    /\ UNCHANGED <<setting, drawing, pc, enabled, told, failures>>

-------------------------------------------------------------------------------
(* The callback settings:notifications *)

\* The user taps the button (external).
Send(t) ==
    /\ button # "none"
    /\ pc[t] = "unsent"
    /\ Goto(t, "posted")
    /\ UNCHANGED <<setting, button, drawing, enabled, told, failures>>

Busy == {t \in Taps : pc[t] \in {"set", "answer", "edit"}}

Read(t) ==
    /\ pc[t] = "posted"
    /\ InOrder => Busy = {}
    /\ enabled' = [enabled EXCEPT ![t] = Flipped(setting)]
    /\ Goto(t, "set")
    /\ UNCHANGED <<setting, button, drawing, told, failures>>

Store(t) ==
    /\ pc[t] = "set"
    /\ setting' = enabled[t]
    /\ Goto(t, "answer")
    /\ UNCHANGED <<button, drawing, enabled, told, failures>>

AnswerTap(t) ==
    /\ pc[t] = "answer"
    /\ told' = enabled[t]
    /\ Goto(t, "edit")
    /\ UNCHANGED <<setting, button, drawing, enabled, failures>>

Redraw_Stale(t) ==
    /\ pc[t] = "edit"
    /\ Goto(t, "done")
    /\ UNCHANGED <<setting, button, drawing, enabled, told, failures>>

Redraw(t) ==
    /\ pc[t] = "edit"
    /\ button' = enabled[t]
    /\ Goto(t, "done")
    /\ UNCHANGED <<setting, drawing, enabled, told, failures>>

\* An await throws: Telegram will post the tap again.
Throws(t) ==
    /\ t \in Busy
    /\ failures < MaxFailures
    /\ failures' = failures + 1
    /\ Goto(t, "posted")
    /\ UNCHANGED <<setting, button, drawing, enabled, told>>

-------------------------------------------------------------------------------
Handle(t) == Read(t) \/ Store(t) \/ AnswerTap(t) \/ Redraw(t)

\* No call throws.
Undisturbed ==
    \/ SettingsRead \/ SettingsReply
    \/ \E t \in Taps : Send(t) \/ Handle(t)

Next == Undisturbed \/ \E t \in Taps : Throws(t)

Spec == Init /\ [][Next]_vars

-------------------------------------------------------------------------------
(* Properties *)

\* Every variable holds a value the code can give it; a button is on screen
\* before it can be tapped.
TypeOK ==
    /\ setting \in {"none", "on", "off"}
    /\ button \in {"none", "on", "off"}
    /\ drawing \in {"none", "on", "off"}
    /\ pc \in [Taps -> {"unsent", "posted", "set", "answer", "edit", "done"}]
    /\ enabled \in [Taps -> {"none", "on", "off"}]
    /\ told \in {"none", "on", "off"}
    /\ failures \in 0..MaxFailures
    /\ InOrder => Cardinality(Busy) <= 1
    /\ \A t \in Taps : pc[t] \notin {"unsent", "posted"} => enabled[t] # "none"
    /\ button = "none" => \A t \in Taps : pc[t] = "unsent"

AtRest == \A t \in Taps : pc[t] \in {"unsent", "done"}

\* When no tap is on its way, the button shows the stored setting and the last
\* answer named it, also after handlers that failed half way were repeated.
ButtonShowsSetting ==
    AtRest /\ button # "none" =>
        /\ button = Shown(setting)
        /\ told # "none" => told = button

\* A tap is one change: the setting at rest is the first one, flipped once for
\* each tap ("a duplicate is not processed again").
Done == {t \in Taps : pc[t] = "done"}
EveryTapCounts ==
    AtRest /\ button # "none" =>
        Shown(setting) = IF Cardinality(Done) % 2 = 0 THEN drawing ELSE Flipped(drawing)
===============================================================================
