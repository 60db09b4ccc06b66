--------------------------- MODULE ProgramMonitor ---------------------------
(***************************************************************************)
(* The monitor that pages the operator (services/program_monitor.ts).  A    *)
(* tick evaluates the database once, raises each alert it finds that is not *)
(* raised yet and awaits its page, one after the other, and then clears     *)
(* what is raised and was not found.  The timer's ticks exclude each other; *)
(* a tick asked for by hand runs beside them, over the same raised flags.   *)
(* The flags are the process's: a restart of the cron worker forgets them.  *)
(*                                                                         *)
(* External: the health that is found, and the service that takes the       *)
(* pages and may fail, of which the tick takes no notice.                   *)
(***************************************************************************)
EXTENDS Naturals, FiniteSetsExt

CONSTANTS Alerts,     \* numbered in the order a snapshot lists them
          HandTicks,  \* ticks asked for by hand
          MaxOnsets,  \* bound: how often an alert's condition begins
          MaxBeside,  \* bound: ticks that begin while another runs
          MaxForgot   \* bound: restarts that forget one alert

ASSUME MonitorAssumption == Alerts \subseteq Nat \ {0} /\ "timer" \notin HandTicks

VARIABLES unwell,   \* alerts whose condition holds
          raised,
          tick,     \* tick[t]: the snapshot of tick t, and the alert whose page it awaits
          stopped,
          onsets,   \* history: onsets[k]: how often the condition of k began
          pages,    \* history: pages[k]: how often a page for k was sent
          beside,   \* history: ticks that began while another ran
          forgot    \* history: forgot[k]: restarts at which k was raised

monitorVars == <<unwell, raised, tick, stopped, onsets, pages, beside, forgot>>

NoTick == [found |-> {}, awaits |-> 0]
Ticks == HandTicks \cup {"timer"}

MonitorInit ==
  /\ unwell = {}
  /\ raised = {}
  /\ tick = [t \in Ticks |-> NoTick]
  /\ stopped = FALSE
  /\ onsets = [k \in Alerts |-> 0]
  /\ pages = [k \in Alerts |-> 0]
  /\ beside = 0
  /\ forgot = [k \in Alerts |-> 0]

Worsen(k) ==
  /\ k \notin unwell
  /\ onsets[k] < MaxOnsets
  /\ unwell' = unwell \cup {k}
  /\ onsets' = [onsets EXCEPT ![k] = @ + 1]
  /\ UNCHANGED <<raised, tick, stopped, pages, beside, forgot>>

Recover(k) ==
  /\ k \in unwell
  /\ unwell' = unwell \ {k}
  /\ UNCHANGED <<raised, tick, stopped, onsets, pages, beside, forgot>>

(* Mutant: a tick that ends forgets what was raised.                        *)
StillRaisedNever(found) == {}

(* What stays raised at the end of a tick.                                  *)
StillRaised(found) == raised \cap found

(* The turn of a tick from the alert after k: to its next page, or its end. *)
Go(t, found, k) ==
  LET next == {a \in found \ raised : a > k}
  IN  IF next = {}
      THEN /\ tick' = [tick EXCEPT ![t] = NoTick]
           /\ raised' = StillRaised(found)
           /\ UNCHANGED pages
      ELSE /\ tick' = [tick EXCEPT ![t] = [found |-> found, awaits |-> Min(next)]]
           /\ raised' = raised \cup {Min(next)}
           /\ pages' = [pages EXCEPT ![Min(next)] = @ + 1]

StartMonitorTick(t) ==
  /\ tick[t] = NoTick
  /\ stopped => t # "timer"
  /\ Go(t, unwell, 0)
  /\ beside' = IF \E u \in Ticks : tick[u] # NoTick THEN beside + 1 ELSE beside
  /\ beside' <= MaxBeside
  /\ UNCHANGED <<unwell, stopped, onsets, forgot>>

(* The page was taken, or failed: all the same.                             *)
AnswerPage(t) ==
  /\ tick[t] # NoTick
  /\ Go(t, tick[t].found, tick[t].awaits)
  /\ UNCHANGED <<unwell, stopped, onsets, beside, forgot>>

(* The tick under way is awaited; one by hand may still begin.              *)
Close ==
  /\ ~stopped
  /\ stopped' = TRUE
  /\ UNCHANGED <<unwell, raised, tick, onsets, pages, beside, forgot>>

(* The worker stops, with or without Close, and starts anew.                *)
RestartMonitor ==
  /\ \A k \in raised : forgot[k] < MaxForgot
  /\ raised' = {}
  /\ tick' = [t \in Ticks |-> NoTick]
  /\ stopped' = FALSE
  /\ forgot' = [k \in Alerts |-> IF k \in raised THEN forgot[k] + 1 ELSE forgot[k]]
  /\ UNCHANGED <<unwell, onsets, pages, beside>>

MonitorNext ==
  \/ \E k \in Alerts : Worsen(k) \/ Recover(k)
  \/ \E t \in Ticks : StartMonitorTick(t) \/ AnswerPage(t)
  \/ Close
  \/ RestartMonitor

MonitorSpec == MonitorInit /\ [][MonitorNext]_monitorVars

(* The operator is paged at most once each time a condition begins, but for *)
(* ticks that ran beside another: one of them may clear, from an old        *)
(* snapshot, what the other has raised since; and once more for each        *)
(* restart that found this alert raised, and no other restart.              *)
NoDoublePage == \A k \in Alerts : pages[k] <= onsets[k] + forgot[k] + beside

(* By hand: without the exceptions.  Violated: a condition that lasts is    *)
(* paged for twice.                                                         *)
OnePagePerOnset == \A k \in Alerts : pages[k] <= onsets[k]

MonitorTypeOK ==
  /\ unwell \subseteq Alerts /\ raised \subseteq Alerts
  /\ \A t \in Ticks : tick[t] = NoTick \/ tick[t].awaits \in tick[t].found
  /\ stopped \in BOOLEAN
  /\ onsets \in [Alerts -> 0 .. MaxOnsets]
  /\ pages \in [Alerts -> Nat] /\ beside \in 0 .. MaxBeside
  /\ forgot \in [Alerts -> 0 .. MaxForgot]
=============================================================================
