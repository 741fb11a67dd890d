----------------------------- MODULE MCEventTpl -----------------------------
(* A small instance of EventTpl: a periodic timer t whose function signals   *)
(* g, a one-shot timer u, a group of two, an event w that its own function   *)
(* signals, and the idle event.                                              *)
EXTENDS EventTpl

CONSTANTS t, u, j, g, w, i, pair, idle

AllEvents == {t, u, j, g, w, i}
NotifyTpls == [e \in AllEvents |-> IF e \in {t, g, i} THEN Notify ELSE Callback]
Groups == [e \in AllEvents |-> CASE e = i -> idle
                                 [] e \in {j, g} -> pair
                                 [] OTHER -> NoGroup]
SignalCalls == {<<App, j>>, <<t, g>>, <<w, w>>}
SetTimerCalls == {<<App, t, "TimerPeriodic", 0>>, <<App, u, "TimerRelative", 1>>}
CloseCalls == {<<App, t>>}
CheckCalls == {<<App, u>>}
FirstEvents == <<t, j, i>>
Awaited == <<u, w>>
=============================================================================
