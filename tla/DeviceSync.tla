------------------------------- MODULE DeviceSync ------------------------------
(***************************************************************************)
(* The workspace's device sync: the shows of the project beside the        *)
(* scripts of a device that other consoles edit too (device-sync.js and    *)
(* the sync panel of provisioner-static/app.js).                           *)
(*                                                                         *)
(* The protocol has no request ids: an answer resolves whatever waits for  *)
(* its name, and a request nobody answers times out.  The device, external *)
(* here, takes one frame after the other: it answers a list, and a load    *)
(* with the text or, for a script it does not have, an empty one, and says *)
(* nothing of a save it refuses (web_input.cpp).  Its socket is WsLink's.  *)
(***************************************************************************)
EXTENDS Workspace

CONSTANTS
  Blank,    \* the empty text
  TooLong,  \* texts the device refuses to save
  Aboard,   \* the scripts the device may have at first
  Remarks,  \* what other consoles may save: name, text
  MaxAsked  \* bound: requests on their way

ASSUME SyncAssumption ==
  /\ Blank \in Texts \ TooLong /\ TooLong \subseteq Texts
  /\ MaxAsked \in Nat \ {0}

VARIABLES
  linked,       \* ds.status: "off", "open", or "lost"
  remote,       \* the device's scripts
  requested,        \* requests on their way
  answers,      \* answers on their way
  pendingList, pendingLoads,
  waits,        \* what awaits them: reconciliations and pulls
  synced,       \* the text each name was last known to agree on
  fileStatus,   \* per name: status, localText, deviceText
  been,         \* history: the texts the device has had under each name
  failed        \* history: pushes refused or lost

channel == <<linked, requested, answers>>
sync == <<pendingList, pendingLoads, waits, synced, fileStatus>>
history == <<been, failed>>
syncVars == <<workVars, channel, remote, sync, history>>

Names == NamesOf(project.fnl)

LocalText(n) == IF n \in Names THEN TextOf(project, n) ELSE None

KnownFor(n) == IF n \in DOMAIN synced THEN synced[n] ELSE None

\* What one record of names says, and where it is silent, another.
Over(f, g) == [n \in DOMAIN f \cup DOMAIN g |-> IF n \in DOMAIN f THEN f[n] ELSE g[n]]

Remember(n, t) == With(synced, n, t)

\* The two sides taken for each other.
ComputeSyncStatusSwapped(localText, deviceText, syncedText) ==
  IF localText = None THEN IF deviceText = None THEN "missing-both" ELSE "device-only"
  ELSE IF deviceText = None THEN "local-only"
  ELSE IF localText = deviceText THEN "in-sync"
  ELSE IF syncedText = deviceText THEN "device-changed"
  ELSE IF syncedText = localText THEN "local-changed"
  ELSE "conflict"

\* Against the text last known to be on both sides.
ComputeSyncStatus(localText, deviceText, syncedText) ==
  IF localText = None THEN IF deviceText = None THEN "missing-both" ELSE "device-only"
  ELSE IF deviceText = None THEN "local-only"
  ELSE IF localText = deviceText THEN "in-sync"
  ELSE IF syncedText = deviceText THEN "local-changed"
  ELSE IF syncedText = localText THEN "device-changed"
  ELSE "conflict"

Report(n, localText, deviceText, agreed) ==
  [status |-> ComputeSyncStatus(localText, deviceText, agreed),
   localText |-> localText, deviceText |-> deviceText]

--------------------------------------------------------------------------------
(* The requests: a second one for the same thing shares the first one's answer. *)

Listing == [op |-> "list", old |-> FALSE]

Pulling(n) == [op |-> "pull", old |-> FALSE, name |-> n]

\* A comparison, which an earlier pull of the same text goes before.
Checking(local, only) ==
  [op |-> "files", old |-> FALSE, local |-> local, got |-> <<>>, only |-> only,
   behind |-> {n \in DOMAIN local : Pulling(n) \in waits}]

\* reconcileAll after other requests, which go first; over a lost connection it fails.
ListRemote(first, ws) ==
  /\ waits' = ws \cup {Listing} /\ pendingList' = TRUE
  /\ requested' = first \o (IF pendingList THEN <<>> ELSE <<[op |-> "list"]>>)

LoadRemote(names) ==
  /\ pendingLoads' = pendingLoads \cup names
  /\ requested' = requested \o SetToSeq({[op |-> "load", name |-> n] : n \in names \ pendingLoads})

WorkKept ==
  UNCHANGED <<storage, init, project, projects, view, compiled, saveTimer, reading, flow, zip, ids, overtaken>>

Quietly == UNCHANGED <<workVars, remote>>

\* A press of a button, over an open connection.
Presses == linked = "open" /\ Acts("presses") /\ WorkKept /\ UNCHANGED remote

PressReconcile ==
  /\ Presses /\ waits = {}
  /\ ListRemote(requested, waits)
  /\ UNCHANGED <<linked, answers, pendingLoads, synced, fileStatus, history>>

\* pushShowToDevice: the text of the project shown, or an empty one if that has
\* no such show, counts as agreed once it is sent.
Push(n) ==
  LET t == IF n \in Names THEN LocalText(n) ELSE Blank
  IN  /\ Presses /\ Len(requested) < MaxAsked
      /\ ListRemote(Append(requested, [op |-> "save", name |-> n, text |-> t]), waits)
      /\ synced' = Remember(n, t)
      /\ UNCHANGED <<linked, answers, pendingLoads, fileStatus, history>>

Pull(n) ==
  /\ Presses /\ Len(requested) < MaxAsked
  /\ LoadRemote({n}) /\ waits' = waits \cup {Pulling(n)}
  /\ UNCHANGED <<linked, answers, pendingList, synced, fileStatus, history>>

\* The buttons a status offers; a conflict offers both, behind a prompt.
Follow ==
  \E n \in DOMAIN fileStatus :
    \/ fileStatus[n].status \in {"local-only", "local-changed", "conflict"} /\ Push(n)
    \/ fileStatus[n].status \in {"device-only", "device-changed", "conflict"} /\ Pull(n)

--------------------------------------------------------------------------------
(* The answers                                                                 *)

\* The statuses a finished reconciliation shows.
Results(w) ==
  Over(w.got, [n \in w.only |-> [status |-> "device-only", localText |-> None, deviceText |-> None]])

Finished(ws) == {w \in ws : w.op = "files" /\ DOMAIN w.got = DOMAIN w.local}

Settles(ws) ==
  /\ waits' = ws \ Finished(ws)
  /\ IF Finished(ws) = {} THEN UNCHANGED fileStatus
     ELSE \E w \in Finished(ws) : fileStatus' = Results(w)

\* The list: every local show is loaded and compared.
OnRemoteScripts ==
  /\ answers # <<>> /\ Head(answers).type = "scripts"
  /\ answers' = Tail(answers)
  /\ pendingList' = FALSE
  /\ IF Listing \in waits
       THEN /\ LoadRemote(Names)
            /\ Settles((waits \ {Listing})
                 \cup {Checking([n \in Names |-> LocalText(n)], Head(answers).names \ Names)})
       ELSE UNCHANGED <<requested, pendingLoads, waits, fileStatus>>
  /\ Quietly /\ UNCHANGED <<linked, synced, history>>

\* What those who wait for name n make of a text, or of none; a pull that went
\* before has recorded that text as the agreed one.
Told(n, t) ==
  LET agreed(w) == IF n \in w.behind THEN t ELSE KnownFor(n)
  IN  {IF w.op = "files" /\ ~w.old /\ n \in DOMAIN w.local \ DOMAIN w.got
         THEN [w EXCEPT !.got = With(@, n, Report(n, w.local[n], t, agreed(w)))] ELSE w : w \in waits}

\* A text, for the reconciliations and for a pull, which writes it into
\* whatever project is shown by now and reconciles again.
OnRemoteScript ==
  /\ answers # <<>> /\ Head(answers).type = "script"
  /\ answers' = Tail(answers)
  /\ LET n == Head(answers).name
         t == Head(answers).text
         told == Told(n, t) \ {Pulling(n)}
     IN  IF n \notin pendingLoads
           THEN UNCHANGED <<workVars, requested, sync>>
         ELSE IF Pulling(n) \notin waits
           THEN /\ Settles(told) /\ pendingLoads' = pendingLoads \ {n}
                /\ UNCHANGED <<workVars, requested, pendingList, synced>>
         ELSE /\ pendingLoads' = pendingLoads \ {n}
              /\ project' = IF n \in Names THEN SetText(project, "fnl", n, t) ELSE AddShow(project, n, t)
              /\ saveTimer' = TRUE
              /\ IF editing = n
                   THEN doc' = t /\ editing' = IF selection.kind = "fnl" THEN editing ELSE <<>>
                   ELSE UNCHANGED <<doc, editing>>
              /\ synced' = Remember(n, t)
              /\ ListRemote(requested, told \ Finished(told))
              /\ IF Finished(told) = {} THEN UNCHANGED fileStatus
                 ELSE \E w \in Finished(told) : fileStatus' = Results(w)
              /\ OffPlan /\ UNCHANGED <<storage, init, projects, tabs, selection, compiled,
                                     reading, flow, zip, ids, overtaken>>
  /\ UNCHANGED <<linked, remote, history>>

\* No answer in time: a list fails the reconciliation, a missing text counts as
\* a script the device does not have, and a pull fails.
TimesOut ==
  /\ Acts("late")
  /\ \/ /\ pendingList /\ pendingList' = FALSE
        /\ waits' = waits \ {Listing}
        /\ UNCHANGED <<pendingLoads, fileStatus>>
     \/ \E n \in pendingLoads :
          /\ pendingLoads' = pendingLoads \ {n}
          /\ Settles(Told(n, None) \ {Pulling(n)})
          /\ UNCHANGED pendingList
  /\ WorkKept /\ UNCHANGED <<channel, remote, synced, history>>

\* What still waits on a client that was replaced gets no answer either.
OldTimesOut(w) ==
  /\ w \in waits /\ w.old
  /\ Settles(IF w.op # "files" THEN waits \ {w}
             ELSE (waits \ {w}) \cup {[w EXCEPT !.got =
               Over(@, [n \in DOMAIN w.local |-> Report(n, w.local[n], None, KnownFor(n))])]})
  /\ Quietly /\ UNCHANGED <<channel, pendingList, pendingLoads, synced, history>>

--------------------------------------------------------------------------------
(* The connection                                                              *)

Outdated == {[w EXCEPT !.old = TRUE] : w \in waits}

Losing == {<<requested[i].name, requested[i].text>> : i \in {j \in DOMAIN requested : requested[j].op = "save"}}

\* connectDeviceSync and the status turning Open: a new client, which knows of
\* no agreement, and reconcileAll.
ConnectSync ==
  /\ linked = "off" /\ Acts("syncs")
  /\ linked' = "open" /\ answers' = <<>>
  /\ pendingList' = TRUE /\ pendingLoads' = {} /\ synced' = <<>>
  /\ requested' = <<[op |-> "list"]>> /\ waits' = Outdated \cup {Listing}
  /\ WorkKept /\ UNCHANGED <<remote, fileStatus, history>>

CloseSync ==
  /\ linked # "off" /\ Acts("syncs")
  /\ linked' = "off" /\ requested' = <<>> /\ answers' = <<>>
  /\ fileStatus' = <<>> /\ waits' = Outdated /\ failed' = failed \cup Losing
  /\ WorkKept /\ UNCHANGED <<remote, pendingList, pendingLoads, synced, been>>

Loses ==
  /\ linked = "open" /\ Acts("losses")
  /\ linked' = "lost" /\ requested' = <<>> /\ answers' = <<>> /\ failed' = failed \cup Losing
  /\ WorkKept /\ UNCHANGED <<remote, sync, been>>

\* The client connects again by itself: what was agreed stays agreed.
Relinked ==
  /\ linked = "lost" /\ linked' = "open"
  /\ ListRemote(requested, waits)
  /\ Quietly /\ UNCHANGED <<answers, pendingLoads, synced, fileStatus, history>>

--------------------------------------------------------------------------------
(* The device                                                                  *)

Holds(n, t) ==
  /\ remote' = With(remote, n, t)
  /\ been' = With(been, n, {t} \cup IF n \in DOMAIN been THEN been[n] ELSE {})

Answers(a) == answers' = Append(answers, a)

DeviceServes ==
  /\ linked = "open" /\ requested # <<>>
  /\ requested' = Tail(requested)
  /\ LET r == Head(requested)
     IN  \/ r.op = "list" /\ Answers([type |-> "scripts", names |-> DOMAIN remote])
            /\ UNCHANGED <<remote, been, failed>>
         \/ r.op = "load"
            /\ Answers([type |-> "script", name |-> r.name,
                        text |-> IF r.name \in DOMAIN remote THEN remote[r.name] ELSE Blank])
            /\ UNCHANGED <<remote, been, failed>>
         \/ r.op = "save" /\ r.text \notin TooLong
            /\ Holds(r.name, r.text) /\ UNCHANGED <<answers, failed>>
         \/ r.op = "save" /\ r.text \in TooLong
            /\ failed' = failed \cup {<<r.name, r.text>>} /\ UNCHANGED <<answers, remote, been>>
  /\ UNCHANGED <<workVars, linked, sync>>

\* Another console saves.
OtherConsole(r) ==
  /\ Acts("others") /\ Holds(r.name, r.text)
  /\ WorkKept /\ UNCHANGED <<channel, sync, failed>>

--------------------------------------------------------------------------------

SyncInit ==
  /\ WorkInit
  /\ linked = "off" /\ requested = <<>> /\ answers = <<>>
  /\ remote \in Aboard /\ been = [n \in DOMAIN remote |-> {remote[n]}]
  /\ pendingList = FALSE /\ pendingLoads = {} /\ waits = {} /\ synced = <<>> /\ fileStatus = <<>>
  /\ failed = {}

\* A reload of the page ends the sync with it.
Workplace ==
  /\ WorkNext /\ init' \notin {"migrate"} /\ UNCHANGED <<channel, remote, sync, history>>

Leaves ==
  /\ WorkNext /\ init' = "migrate"
  /\ linked' = "off" /\ requested' = <<>> /\ answers' = <<>> /\ failed' = failed \cup Losing
  /\ pendingList' = FALSE /\ pendingLoads' = {} /\ waits' = {} /\ synced' = <<>> /\ fileStatus' = <<>>
  /\ UNCHANGED <<remote, been>>

SyncNext ==
  \/ Workplace \/ Leaves
  \/ PressReconcile \/ Follow \/ OnRemoteScripts \/ OnRemoteScript \/ TimesOut \/ (\E w \in waits : OldTimesOut(w))
  \/ ConnectSync \/ CloseSync \/ Loses \/ Relinked
  \/ DeviceServes \/ \E r \in Remarks : OtherConsole(r)

SyncSpec == SyncInit /\ [][SyncNext]_syncVars

--------------------------------------------------------------------------------
(* Properties                                                                  *)

\* Texts whose loss loses nothing: none, or one the device has had.
Harmless(n, t) == t = Blank \/ (n \in DOMAIN been /\ t \in been[n])

\* A pull replaces the local text, and "device-changed" is "safe to pull"
\* (device-sync.js:34-35): that text has been on the device, or is on its way.
PullIsSafe ==
  \A n \in DOMAIN fileStatus :
    fileStatus[n].status = "device-changed" =>
      Harmless(n, fileStatus[n].localText) \/ <<n, fileStatus[n].localText>> \in Losing

\* So it is, unless the push that was taken for an agreement failed: over late
\* answers, edits on both sides, overlapping comparisons, reconnections and
\* changes of the project.
SyncedWasThere ==
  \A n \in DOMAIN fileStatus :
    fileStatus[n].status = "device-changed" =>
      \/ <<n, fileStatus[n].localText>> \in failed \cup Losing
      \/ Harmless(n, fileStatus[n].localText)
================================================================================
