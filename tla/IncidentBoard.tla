--------------------------- MODULE IncidentBoard ---------------------------
(***************************************************************************)
(* Incidents and the kill switch that stops payments (services/incident.ts, *)
(* middleware/incident-guard.ts).  Every change is appended to the audit    *)
(* journal and then made in the cache of the process that made it; a        *)
(* process reads the journal once, on its first call, as three lists of     *)
(* bounded length: what was opened, what was updated, what was resolved.    *)
(***************************************************************************)
EXTENDS Naturals, Sequences, FiniteSetsExt

CONSTANTS Incidents,
          Severe,       \* those of sev1, which alone may engage the switch
          Boards,       \* processes, each with a cache
          JournalLimit, \* the clamp of listAuditEntries
          MaxEntries    \* bound: entries of each kind

ASSUME BoardAssumption == JournalLimit \in Nat \ {0} /\ Severe \subseteq Incidents

VARIABLES opens, updates, resolves, \* the journal, by kind and in order
          cache,   \* cache[b]: incidents as the process shows them, or Unread
          stated,  \* history: stated[i]: what the last actor was answered
          behind,  \* history: processes that have not seen an entry of another
          split    \* history: an entry was written by such a process

boardVars == <<opens, updates, resolves, cache, stated, behind, split>>

Unread == <<>>
Unopened == [status |-> "unopened", kill |-> FALSE]
Over == [status |-> "resolved", kill |-> FALSE]

BoardInit ==
  /\ opens = <<>> /\ updates = <<>> /\ resolves = <<>>
  /\ cache = [b \in Boards |-> Unread]
  /\ stated = [i \in Incidents |-> Unopened]
  /\ behind = {} /\ split = FALSE

(* listAuditEntries: the newest.                                            *)
Listed(journal) == {k \in DOMAIN journal : Len(journal) < k + JournalLimit}

Of(journal, i) == {k \in Listed(journal) : journal[k].of = i}

Switching(told) == {k \in told : updates[k].kill # "same"}

(* Mutant: applied newest first.                                            *)
ApplyReversed(incident, told) ==
  [status |-> IF told = {} THEN incident.status ELSE updates[Min(told)].status,
   kill |-> IF Switching(told) = {} THEN incident.kill
            ELSE updates[Min(Switching(told))].kill = "on"]

(* applyUpdate, over the updates in order: the last one has the last word,  *)
(* and on the switch the last one that sets it.                             *)
ApplyUpdates(incident, told) ==
  [status |-> IF told = {} THEN incident.status ELSE updates[Max(told)].status,
   kill |-> IF Switching(told) = {} THEN incident.kill
            ELSE updates[Max(Switching(told))].kill = "on"]

(* hydrate: opened, then updated, then resolved, whatever the order was.    *)
Hydrated(i) ==
  IF Of(opens, i) = {} THEN Unopened
  ELSE IF Of(resolves, i) # {} THEN Over
  ELSE ApplyUpdates([status |-> "investigating", kill |-> opens[Max(Of(opens, i))].kill],
                    Of(updates, i))

Shown(b) == IF cache[b] = Unread THEN [i \in Incidents |-> Hydrated(i)] ELSE cache[b]

(* What a process tells has changed: the others fall behind it.             *)
State(b, i, incident) ==
  /\ cache' = [cache EXCEPT ![b] = [Shown(b) EXCEPT ![i] = incident]]
  /\ stated' = [stated EXCEPT ![i] = incident]
  /\ behind' = behind \cup {c \in Boards \ {b} : cache[c] # Unread}
  /\ split' = (split \/ b \in behind)

Open(b, i, kill) ==
  /\ Len(opens) < MaxEntries
  /\ \A k \in DOMAIN opens : opens[k].of # i
  /\ kill => i \in Severe
  /\ opens' = Append(opens, [of |-> i, kill |-> kill])
  /\ State(b, i, [status |-> "investigating", kill |-> kill])
  /\ UNCHANGED <<updates, resolves>>

IsOpenOn(b, i) == Shown(b)[i].status \notin {"unopened", "resolved"}

PostUpdate(b, i, status, kill) ==
  /\ Len(updates) < MaxEntries
  /\ IsOpenOn(b, i)
  /\ kill = "on" => i \in Severe
  /\ updates' = Append(updates, [of |-> i, status |-> status, kill |-> kill])
  /\ State(b, i, [status |-> status,
                  kill |-> IF kill = "same" THEN Shown(b)[i].kill ELSE kill = "on"])
  /\ UNCHANGED <<opens, resolves>>

Resolve(b, i) ==
  /\ Len(resolves) < MaxEntries
  /\ IsOpenOn(b, i)
  /\ resolves' = Append(resolves, [of |-> i])
  /\ State(b, i, Over)
  /\ UNCHANGED <<opens, updates>>

(* A call that only reads, such as the guard's isKillSwitchEngaged.         *)
Read(b) ==
  /\ cache[b] = Unread
  /\ cache' = [cache EXCEPT ![b] = Shown(b)]
  /\ UNCHANGED <<opens, updates, resolves, stated, behind, split>>

RestartBoard(b) ==
  /\ cache[b] # Unread
  /\ cache' = [cache EXCEPT ![b] = Unread]
  /\ behind' = behind \ {b}
  /\ UNCHANGED <<opens, updates, resolves, stated, split>>

BoardNext ==
  \E b \in Boards :
    \/ \E i \in Incidents : \/ \E kill \in BOOLEAN : Open(b, i, kill)
                            \/ \E status \in {"investigating", "identified", "monitoring"},
                                  kill \in {"on", "off", "same"} : PostUpdate(b, i, status, kill)
                            \/ Resolve(b, i)
    \/ Read(b)
    \/ RestartBoard(b)

BoardSpec == BoardInit /\ [][BoardNext]_boardVars

Engaged(b) == \E i \in Incidents : Shown(b)[i].kill

WithinLimit == \A j \in {opens, updates, resolves} : Len(j) <= JournalLimit

(* The comment at the head of the file: the switch survives a restart, and  *)
(* a new process shows what the actors were told, in status and switch.     *)
(* Two conditions the code needs: the lists hold the journal, and no        *)
(* process wrote while another had written what it did not know.            *)
KillSwitchSurvives ==
  WithinLimit /\ ~split =>
    \A b \in Boards \ behind, i \in Incidents : Shown(b)[i] = stated[i]

(* By hand: without the lists' limit.  Violated: an incident opened before  *)
(* the newest is forgotten, and payments resume.                            *)
SurvivesAnyJournal ==
  ~split => \A b \in Boards \ behind, i \in Incidents : Shown(b)[i] = stated[i]

(* By hand: the switch stops payments in every process.  Violated: a cache  *)
(* is never read again.                                                     *)
SwitchReachesAll ==
  \A b, c \in Boards : Engaged(b) <=> Engaged(c)

BoardTypeOK ==
  /\ \A j \in {opens, updates, resolves} :
       Len(j) <= MaxEntries /\ \A k \in DOMAIN j : j[k].of \in Incidents
  /\ stated \in [Incidents ->
       [status : {"unopened", "investigating", "identified", "monitoring", "resolved"},
        kill : BOOLEAN]]
  /\ \A b \in Boards : cache[b] # Unread =>
       \A i \in Incidents : cache[b][i].kill => i \in Severe
  /\ behind \subseteq Boards /\ split \in BOOLEAN
=============================================================================
