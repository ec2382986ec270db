------------------------------- MODULE Workspace -------------------------------
(***************************************************************************)
(* The provisioner page: a workspace of projects, each with one patch, its *)
(* fixture and controller files and its shows, of which one may be marked  *)
(* to boot (project-model.js); the browser's storage (project-store.js);   *)
(* and the page over both (provisioner-static/app.js), with its tabs, its  *)
(* shared editor and its autosave.                                         *)
(*                                                                         *)
(* Every await on the storage lets other callbacks in: such a flow is one  *)
(* step per write.  One flow runs at a time; a text is a whole text.       *)
(* IndexedDB and the file reader are external.                             *)
(***************************************************************************)
EXTENDS Naturals, SequencesExt

CONSTANTS
  Texts,      \* texts of files
  Fresh,     \* the text of a new file
  Typed,  \* names the user types, with the right extension
  Drops,     \* the sequences of files dropped on the page: kind, name, text
  Legacies,  \* the single workspaces an older page may have left, or None
  Seed,      \* makeDefaultProject, without its id
  None,
  MaxIds,    \* bound: projects ever made
  MaxFiles,  \* bound: files of a kind
  Plans      \* bounds: how often things happen, in the situations tried

Kind == {"fdef", "mdef", "fnl"}

VARIABLES
  durable,   \* the storage is IndexedDB, not the memory of the page
  kv,        \* the storage: projects by id, active, migrated, seeded
  legacy,    \* localStorage: the single workspace of an older page
  init,      \* where initProjectWorkspace is, then "ready"
  project,   \* state.project
  projects,  \* state.projects: the ids listed
  tabs, selection,
  editing,   \* fnlEditorForTab
  doc,       \* the shared editor's document
  compiled,  \* compiledBundle: the project it was compiled of
  saveTimer,     \* saveTimer is running
  reading,   \* dropped files still to be read
  flow,      \* the flow that awaits the storage: at, id, held
  zip,       \* the last export
  ids,       \* ids given out
  overtaken, \* history: a rename put an older text over an autosaved one
  plan, done

storage == <<durable, kv, legacy>>
view == <<tabs, selection, editing, doc>>
workVars == <<storage, init, project, projects, view, compiled, saveTimer, reading, flow, zip, ids,
              overtaken, plan, done>>

Does(what) ==
  /\ done[what] < plan[what]
  /\ done' = [done EXCEPT ![what] = @ + 1]
  /\ UNCHANGED plan

OffPlan == UNCHANGED <<plan, done>>

\* What the user does, once the page has started.
Acts(what) == init = "ready" /\ Does(what)

NamesOf(files) == {files[i].name : i \in DOMAIN files}

\* The members of a list at the given places, in their order.
Keep(list, places) ==
  [k \in 1 .. Cardinality(places) |->
     list[CHOOSE i \in places : Cardinality({j \in places : j <= i}) = k]]

Without(files, n) == Keep(files, {i \in DOMAIN files : files[i].name # n})

PatchTab == [kind |-> "show", name |-> <<>>]

Idle == [at |-> "none", id |-> 0, held |-> None]

NoProject == [id |-> 0]

--------------------------------------------------------------------------------
(* project-model.js                                                            *)

\* A name and the number appended to it are a name again.
UniqueName(n, taken) ==
  IF n \notin taken THEN n
  ELSE <<n, CHOOSE k \in 2 .. MaxFiles + 2 :
              <<n, k>> \notin taken /\ \A j \in 2 .. k - 1 : <<n, j>> \in taken>>

EmptyProject(id, name) ==
  [id |-> id, name |-> name, patch |-> Fresh, fdef |-> <<>>, mdef |-> <<>>, fnl |-> <<>>, boot |-> None]

\* What was stored or exported, with a boot mark only on a show that is there.
ProjectFromData(id, data) ==
  [id |-> id, name |-> data.name, patch |-> data.patch, fdef |-> data.fdef, mdef |-> data.mdef,
   fnl |-> data.fnl, boot |-> IF data.boot \in NamesOf(data.fnl) THEN data.boot ELSE None]

\* The old boot script becomes the first show, marked to boot.
MigrateLegacyWorkspace(id, old) ==
  [id |-> id, name |-> "My Project", patch |-> old.show, fdef |-> old.fdefs, mdef |-> old.mdefs,
   fnl |-> <<[name |-> <<"boot">>, text |-> old.boot]>>, boot |-> <<"boot">>]

\* Lists of files have no name twice.
NamedApart(files) ==
  /\ files \in Seq(Range(files))
  /\ \A i \in DOMAIN files : files[i] = [name |-> files[i].name, text |-> files[i].text]
  /\ \A i, j \in DOMAIN files : files[i].name = files[j].name => i = j

ASSUME WorkAssumption ==
  /\ MaxIds \in Nat /\ MaxFiles \in Nat
  /\ \A k \in Kind : NamedApart(Seed[k])
  /\ \A old \in Legacies \ {None} : NamedApart(old.fdefs) /\ NamedApart(old.mdefs)
  /\ \A fs \in Drops : /\ fs \in Seq(Range(fs))
                       /\ \A i \in DOMAIN fs : fs[i].kind \in Kind \cup {"show"}

\* A fixture or a controller.
AddFile(p, k, n, t) == [p EXCEPT ![k] = Append(@, [name |-> n, text |-> t])]

RenameFile(p, k, old, n) ==
  [p EXCEPT ![k] = [i \in DOMAIN @ |-> IF @[i].name = old THEN [@[i] EXCEPT !.name = n] ELSE @[i]]]

DeleteFile(p, k, n) == [p EXCEPT ![k] = Without(@, n)]

DuplicateFile(p, k, n) ==
  LET i == CHOOSE j \in DOMAIN p[k] : p[k][j].name = n
  IN  AddFile(p, k, UniqueName(n, NamesOf(p[k])), p[k][i].text)

\* The first show is marked to boot, and so is every first one without a mark.
AddShow(p, n, t) == [AddFile(p, "fnl", n, t) EXCEPT !.boot = IF @ = None THEN n ELSE @]

RenameShow(p, old, n) == [RenameFile(p, "fnl", old, n) EXCEPT !.boot = IF @ = old THEN n ELSE @]

\* The mark is left on the show that went.
DeleteShowOnly(p, n) == DeleteFile(p, "fnl", n)

\* The mark goes to the first that stays.
DeleteShow(p, n) ==
  LET rest == Without(p.fnl, n)
  IN  [p EXCEPT !.fnl = rest,
                !.boot = IF @ # n THEN @ ELSE IF rest = <<>> THEN None ELSE rest[1].name]

SetText(p, k, n, t) ==
  [p EXCEPT ![k] = [i \in DOMAIN @ |-> IF @[i].name = n THEN [@[i] EXCEPT !.text = t] ELSE @[i]]]

--------------------------------------------------------------------------------
(* project-store.js                                                            *)

Stored(store) == DOMAIN store.projects

\* One entry written, the others as they were.
With(f, n, t) == [m \in DOMAIN f \cup {n} |-> IF m = n THEN t ELSE f[m]]

Put(store, p) == [store EXCEPT !.projects = With(@, p.id, p)]

Activate(store, id) == [store EXCEPT !.active = id]

\* The first of remove's two writes: the second clears the active id.
RemoveProject(store, id) == [store EXCEPT !.projects = [i \in DOMAIN @ \ {id} |-> @[i]]]

EmptyStore == [projects |-> <<>>, active |-> 0, migrated |-> FALSE, seeded |-> FALSE]

--------------------------------------------------------------------------------
(* initProjectWorkspace: one step per write.                                   *)

BootStep(at, then) == init = at /\ init' = then

StillBooting ==
  OffPlan /\ UNCHANGED <<durable, project, projects, view, compiled, saveTimer, reading, flow, zip, overtaken>>

\* migrateLegacyIfNeeded marks the migration before it migrates.
MarkMigrated ==
  /\ BootStep("migrate", IF kv.migrated \/ legacy = None THEN "seed" ELSE "copy")
  /\ kv' = [kv EXCEPT !.migrated = TRUE]
  /\ UNCHANGED <<legacy, ids>> /\ StillBooting

CopyLegacy ==
  /\ BootStep("copy", "activate") /\ ids < MaxIds
  /\ ids' = ids + 1
  /\ kv' = Put(kv, MigrateLegacyWorkspace(ids + 1, legacy))
  /\ UNCHANGED legacy /\ StillBooting

ActivateCopy ==
  /\ BootStep("activate", "keep")
  /\ kv' = Activate(kv, ids)
  /\ UNCHANGED <<legacy, ids>> /\ StillBooting

NoSeedBesides ==
  /\ BootStep("keep", "forget")
  /\ kv' = [kv EXCEPT !.seeded = TRUE]
  /\ UNCHANGED <<legacy, ids>> /\ StillBooting

ForgetLegacy ==
  /\ BootStep("forget", "seed")
  /\ legacy' = None
  /\ UNCHANGED <<kv, ids>> /\ StillBooting

\* ensureSeeded marks the seeding before it seeds.
MarkSeeded ==
  /\ BootStep("seed", IF kv.seeded \/ Stored(kv) # {} THEN "load" ELSE "plant")
  /\ kv' = [kv EXCEPT !.seeded = TRUE]
  /\ UNCHANGED <<legacy, ids>> /\ StillBooting

Plant ==
  /\ BootStep("plant", "claim") /\ ids < MaxIds
  /\ ids' = ids + 1
  /\ kv' = Put(kv, ProjectFromData(ids + 1, Seed))
  /\ UNCHANGED legacy /\ StillBooting

Claim ==
  /\ BootStep("claim", "load")
  /\ kv' = Activate(kv, ids)
  /\ UNCHANGED <<legacy, ids>> /\ StillBooting

\* The active project, or else some other, or else the default one, unsaved.
LoadActive ==
  /\ BootStep("load", "ready")
  /\ projects' = Stored(kv)
  /\ IF projects' = {}
       THEN /\ ids < MaxIds /\ ids' = ids + 1
            /\ project' = ProjectFromData(ids + 1, Seed)
            /\ UNCHANGED kv
       ELSE \E id \in IF kv.active \in projects' THEN {kv.active} ELSE projects' :
              /\ project' = ProjectFromData(id, kv.projects[id])
              /\ kv' = Activate(kv, id)
              /\ UNCHANGED ids
  /\ OffPlan /\ UNCHANGED <<durable, legacy, view, compiled, saveTimer, reading, flow, zip, overtaken>>

Boot ==
  \/ MarkMigrated \/ CopyLegacy \/ ActivateCopy \/ NoSeedBesides \/ ForgetLegacy
  \/ MarkSeeded \/ Plant \/ Claim \/ LoadActive

\* The page is closed or reloaded: all it held in memory is gone.
Reload ==
  /\ Does("reloads")
  /\ init' = "migrate"
  /\ kv' = IF durable THEN kv ELSE EmptyStore
  /\ project' = NoProject /\ projects' = {} /\ compiled' = 0
  /\ tabs' = <<PatchTab>> /\ selection' = PatchTab /\ editing' = <<>> /\ doc' = Fresh
  /\ saveTimer' = FALSE /\ reading' = <<>> /\ flow' = Idle /\ overtaken' = FALSE
  /\ UNCHANGED <<durable, legacy, zip, ids>>

--------------------------------------------------------------------------------
(* Autosave                                                                    *)

\* The autosave writes whichever project is shown when the timer fires.
SaveTimerFires ==
  /\ init = "ready" /\ saveTimer
  /\ saveTimer' = FALSE
  /\ kv' = Put(kv, project) /\ projects' = Stored(kv')
  /\ overtaken' = FALSE
  /\ OffPlan /\ UNCHANGED <<durable, legacy, init, project, view, compiled, reading, flow, zip, ids>>

--------------------------------------------------------------------------------
(* Files, tabs and the shared editor                                           *)

TextOf(p, n) ==
  IF n \in NamesOf(p.fnl) THEN p.fnl[CHOOSE i \in DOMAIN p.fnl : p.fnl[i].name = n].text ELSE Fresh

\* getFnlEditorView, when a show is rendered: another name swaps the document.
Redrawn(p, sel) ==
  IF sel.kind = "fnl" /\ editing # sel.name
    THEN editing' = sel.name /\ doc' = TextOf(p, sel.name)
    ELSE UNCHANGED <<editing, doc>>

OpenTab(sel) ==
  /\ tabs' = IF Contains(tabs, sel) THEN tabs ELSE Append(tabs, sel)
  /\ selection' = sel

CloseTab(sel) ==
  LET rest == Keep(tabs, {i \in DOMAIN tabs : tabs[i] # sel})
  IN  /\ tabs' = IF rest = <<>> THEN <<PatchTab>> ELSE rest
      /\ selection' = IF selection = sel THEN tabs'[Len(tabs')] ELSE selection

AtWork == UNCHANGED <<storage, init, projects, reading, flow, zip, ids, overtaken>>

\* Every change of the project starts the autosave's timer anew.
Changes(p) ==
  /\ project' = p /\ saveTimer' = TRUE
  /\ Redrawn(p, selection')
  /\ AtWork /\ UNCHANGED compiled

SelectTab ==
  /\ Acts("looks")
  /\ \/ \E k \in Kind : \E n \in NamesOf(project[k]) : OpenTab([kind |-> k, name |-> n])
     \/ OpenTab(PatchTab)
     \/ \E i \in DOMAIN tabs : CloseTab(tabs[i])
  /\ Redrawn(project, selection')
  /\ AtWork /\ UNCHANGED <<project, compiled, saveTimer>>

\* setText: the patch, a fixture or a controller, in the plain text area.
EditText(t) ==
  /\ Acts("edits")
  /\ selection.kind # "fnl"
  /\ UNCHANGED <<tabs, selection>>
  /\ Changes(IF selection.kind = "show" THEN [project EXCEPT !.patch = t]
             ELSE SetText(project, selection.kind, selection.name, t))

\* onChange of the shared editor: to the show its document was swapped in for.
TypeShow(t) ==
  /\ Acts("edits")
  /\ selection.kind = "fnl" /\ editing \in NamesOf(project.fnl)
  /\ t # doc /\ doc' = t
  /\ project' = SetText(project, "fnl", editing, t) /\ saveTimer' = TRUE
  /\ AtWork /\ UNCHANGED <<tabs, selection, editing, compiled>>

Room(k) == Len(project[k]) < MaxFiles

\* The sidebar's rows and its buttons for new files.
NewFixture ==
  LET n == UniqueName(<<"fixture">>, NamesOf(project.fdef))
  IN  /\ Acts("files") /\ Room("fdef")
      /\ OpenTab([kind |-> "fdef", name |-> n])
      /\ Changes(AddFile(project, "fdef", n, Fresh))

NewController ==
  LET n == UniqueName(<<"controller">>, NamesOf(project.mdef))
  IN  /\ Acts("files") /\ Room("mdef")
      /\ OpenTab([kind |-> "mdef", name |-> n])
      /\ Changes(AddFile(project, "mdef", n, Fresh))

NewShow ==
  LET n == UniqueName(<<"show">>, NamesOf(project.fnl))
  IN  /\ Acts("files") /\ Room("fnl")
      /\ OpenTab([kind |-> "fnl", name |-> n])
      /\ Changes(AddShow(project, n, Fresh))

\* The rows of fixtures and controllers.
DuplicateRow(k, n) ==
  /\ Acts("files") /\ Room(k)
  /\ UNCHANGED <<tabs, selection>>
  /\ Changes(DuplicateFile(project, k, n))

DeleteRow(k, n) ==
  /\ Acts("files")
  /\ CloseTab([kind |-> k, name |-> n])
  /\ Changes(IF k = "fnl" THEN DeleteShow(project, n) ELSE DeleteFile(project, k, n))

\* renameFileFlow: a name taken is refused; open tabs follow.
RenameRow(k, old, n) ==
  LET new(t) == IF t = [kind |-> k, name |-> old] THEN [t EXCEPT !.name = n] ELSE t
  IN  /\ Acts("files")
      /\ n # old /\ n \notin NamesOf(project[k])
      /\ tabs' = [i \in DOMAIN tabs |-> new(tabs[i])]
      /\ selection' = new(selection)
      /\ Changes(IF k = "fnl" THEN RenameShow(project, old, n) ELSE RenameFile(project, k, old, n))

\* The star beside a show marks it, or takes the mark away.
ToggleBoot(n) ==
  /\ Acts("files")
  /\ UNCHANGED <<tabs, selection>>
  /\ Changes([project EXCEPT !.boot = IF @ = n THEN None ELSE n])

\* A row drawn before a switch changes the project that was left, which nothing
\* shows or stores any more; the end of the switch starts the tabs afresh.
RowsLeft ==
  /\ Acts("files") /\ flow.at = "activate"
  /\ saveTimer' = TRUE
  /\ AtWork /\ UNCHANGED <<project, view, compiled>>

Rows ==
  \/ NewFixture \/ NewController \/ NewShow
  \/ \E k \in Kind : \E n \in NamesOf(project[k]) :
       DuplicateRow(k, n) \/ DeleteRow(k, n) \/ \E new \in Typed : RenameRow(k, n, new)
  \/ \E n \in NamesOf(project.fnl) : ToggleBoot(n)
  \/ RowsLeft

\* importSaveToLibrary: an imported fixture under a name not taken.
SaveToLibrary(n, t) ==
  LET name == UniqueName(n, NamesOf(project.fdef))
  IN  /\ Acts("files") /\ Room("fdef")
      /\ OpenTab([kind |-> "fdef", name |-> name])
      /\ Changes(AddFile(project, "fdef", name, t))

\* A file of a name that is there replaces it.
Upsert(p, f) ==
  CASE f.kind = "show" -> [p EXCEPT !.patch = f.text]
    [] f.kind \in {"fdef", "mdef"} -> AddFile(DeleteFile(p, f.kind, f.name), f.kind, f.name, f.text)
    [] f.kind = "fnl" ->
         LET q == AddFile(DeleteFile(p, "fnl", f.name), "fnl", f.name, f.text)
         IN  [q EXCEPT !.boot = IF @ = None THEN f.name ELSE @]

\* handleFiles reads one dropped file after the other, and saves after the last.
DropFiles(fs) ==
  /\ Acts("files")
  /\ reading = <<>> /\ reading' = fs
  /\ \A k \in Kind : Room(k)
  /\ UNCHANGED <<storage, init, project, projects, view, compiled, saveTimer, flow, zip, ids, overtaken>>

\* Nothing saves what was read.
ReadFileOnly ==
  /\ init = "ready" /\ reading # <<>>
  /\ project' = Upsert(project, Head(reading))
  /\ reading' = Tail(reading)
  /\ OffPlan /\ UNCHANGED <<storage, init, projects, view, compiled, saveTimer, flow, zip, ids, overtaken>>

ReadFile ==
  /\ init = "ready" /\ reading # <<>>
  /\ project' = Upsert(project, Head(reading))
  /\ reading' = Tail(reading)
  /\ saveTimer' = (saveTimer \/ reading' = <<>>)
  /\ OffPlan /\ UNCHANGED <<storage, init, projects, view, compiled, flow, zip, ids, overtaken>>

\* compileShowNow, over the patch and the files it names; a failure leaves the
\* bundle there was.
CompileShowNow ==
  /\ Acts("files")
  /\ compiled' \in {compiled, project.id}
  /\ UNCHANGED <<storage, init, project, projects, view, saveTimer, reading, flow, zip, ids, overtaken>>

--------------------------------------------------------------------------------
(* Projects: flows that await the storage.                                     *)

Starts == flow = Idle /\ Acts("flows")

FlowKeeps ==
  UNCHANGED <<durable, legacy, init, saveTimer, reading>>

\* createProjectFlow and duplicateProjectFlow, up to switchProject.
CreateProject ==
  /\ Starts /\ ids < MaxIds
  /\ ids' = ids + 1
  /\ \E p \in {EmptyProject(ids + 1, "new")}
           \cup {[kv.projects[id] EXCEPT !.id = ids + 1] : id \in projects \cap Stored(kv)} :
       kv' = Put(kv, p)
  /\ flow' = [at |-> "switch", id |-> ids + 1, held |-> None]
  /\ FlowKeeps /\ UNCHANGED <<project, projects, view, compiled, zip, overtaken>>

ChooseProject(id) ==
  /\ Starts
  /\ flow' = [at |-> "switch", id |-> id, held |-> None]
  /\ FlowKeeps /\ UNCHANGED <<kv, project, projects, view, compiled, zip, ids, overtaken>>

\* deleteProjectFlow removes the project...
DeleteProject(id) ==
  /\ Starts /\ Cardinality(projects) > 1
  /\ kv' = RemoveProject(kv, id)
  /\ flow' = [at |-> IF id = project.id THEN "leave" ELSE "drop", id |-> id, held |-> None]
  /\ FlowKeeps /\ UNCHANGED <<project, projects, view, compiled, zip, ids, overtaken>>

\* ...then the mark of the active one; and leaves the one shown for another.
DeleteDone ==
  /\ init = "ready" /\ flow.at \in {"leave", "drop"}
  /\ kv' = IF kv.active = flow.id THEN Activate(kv, 0) ELSE kv
  /\ projects' = Stored(kv')
  /\ IF flow.at = "leave" /\ projects' # {}
       THEN \E next \in projects' : flow' = [at |-> "switch", id |-> next, held |-> None]
       ELSE flow' = Idle
  /\ OffPlan /\ FlowKeeps /\ UNCHANGED <<project, view, compiled, zip, ids, overtaken>>

\* switchProject loads the project and shows it...
SwitchLoad ==
  /\ init = "ready" /\ flow.at = "switch"
  /\ projects' = Stored(kv)
  /\ IF flow.id = project.id \/ flow.id \notin projects'
       THEN flow' = Idle /\ UNCHANGED project
       ELSE /\ project' = ProjectFromData(flow.id, kv.projects[flow.id])
            /\ flow' = [flow EXCEPT !.at = "activate"]
  /\ OffPlan /\ FlowKeeps /\ UNCHANGED <<kv, view, compiled, zip, ids, overtaken>>

\* ...and starts the view afresh once it is marked active.
SwitchDone ==
  /\ init = "ready" /\ flow.at = "activate"
  /\ kv' = Activate(kv, flow.id) /\ flow' = Idle
  /\ tabs' = <<PatchTab>> /\ selection' = PatchTab /\ editing' = <<>> /\ compiled' = 0
  /\ OffPlan /\ FlowKeeps /\ UNCHANGED <<project, projects, doc, zip, ids, overtaken>>

\* commitRename: the project is loaded, then saved under its new name.
RenameLoad(id) ==
  /\ Starts /\ id \in Stored(kv)
  /\ flow' = [at |-> "rename", id |-> id, held |-> [kv.projects[id] EXCEPT !.name = "renamed"]]
  /\ FlowKeeps /\ UNCHANGED <<kv, project, projects, view, compiled, zip, ids, overtaken>>

RenameSave ==
  /\ init = "ready" /\ flow.at = "rename"
  /\ kv' = Put(kv, flow.held) /\ projects' = Stored(kv') /\ flow' = Idle
  /\ IF project.id = flow.id
       THEN /\ project' = [project EXCEPT !.name = "renamed"]
            /\ overtaken' = (overtaken \/ kv.projects[flow.id] # [flow.held EXCEPT !.name = kv.projects[flow.id].name])
       ELSE UNCHANGED <<project, overtaken>>
  /\ OffPlan /\ FlowKeeps /\ UNCHANGED <<view, compiled, zip, ids>>

\* Export to an archive or a folder, with the bundle compiled last.
Export ==
  /\ Acts("flows")
  /\ zip' = [project |-> project, bundle |-> compiled # 0]
  /\ UNCHANGED <<storage, init, project, projects, view, compiled, saveTimer, reading, flow, ids, overtaken>>

\* What is imported is a new project: the export's manifest, or its plain files
\* when the manifest is missing, of which none is marked.
ImportSave ==
  /\ Starts /\ zip # None /\ ids < MaxIds
  /\ ids' = ids + 1
  /\ \E data \in {zip.project, [zip.project EXCEPT !.boot = None]} :
       LET p == ProjectFromData(ids + 1, data)
       IN  kv' = Put(kv, p) /\ flow' = [at |-> "import", id |-> ids + 1, held |-> p]
  /\ FlowKeeps /\ UNCHANGED <<project, projects, view, compiled, zip, overtaken>>

\* The editor is not told: it keeps its document for a show of the same name.
ImportDone ==
  /\ init = "ready" /\ flow.at = "import"
  /\ kv' = Activate(kv, flow.id) /\ projects' = Stored(kv') /\ flow' = Idle
  /\ project' = flow.held
  /\ compiled' = IF zip.bundle THEN flow.id ELSE 0
  /\ tabs' = <<PatchTab>> /\ selection' = PatchTab
  /\ overtaken' = FALSE
  /\ OffPlan /\ FlowKeeps /\ UNCHANGED <<editing, doc, zip, ids>>

Flows ==
  \/ CreateProject \/ Export \/ ImportSave
  \/ \E id \in projects : ChooseProject(id) \/ DeleteProject(id) \/ RenameLoad(id)

Continues == DeleteDone \/ SwitchLoad \/ SwitchDone \/ RenameSave \/ ImportDone

--------------------------------------------------------------------------------

WorkInit ==
  /\ durable \in BOOLEAN /\ legacy \in Legacies
  /\ kv = EmptyStore
  /\ init = "migrate"
  /\ project = NoProject /\ projects = {} /\ compiled = 0
  /\ tabs = <<PatchTab>> /\ selection = PatchTab /\ editing = <<>> /\ doc = Fresh
  /\ saveTimer = FALSE /\ reading = <<>> /\ flow = Idle /\ zip = None /\ ids = 0 /\ overtaken = FALSE
  /\ plan \in Plans
  /\ done = [what \in DOMAIN plan |-> 0]

Edits == \E t \in Texts : EditText(t) \/ TypeShow(t)

WorkNext ==
  \/ Boot \/ Reload \/ SaveTimerFires \/ Edits \/ SelectTab
  \/ init = "ready" /\ (Rows \/ \E n \in Typed, t \in Texts : SaveToLibrary(n, t))
  \/ (\E fs \in Drops : DropFiles(fs)) \/ ReadFile \/ CompileShowNow
  \/ Flows \/ Continues

WorkSpec == WorkInit /\ [][WorkNext]_workVars

--------------------------------------------------------------------------------
(* Properties                                                                  *)

Whole(p) ==
  /\ p.boot = None \/ p.boot \in NamesOf(p.fnl)
  /\ \A k \in Kind : Cardinality(NamesOf(p[k])) = Len(p[k])

\* What names a file names one that is there, and no two files of a kind have
\* one name: the boot mark in memory and in the storage, the tabs and the
\* selection, over renames, deletions, dropped files and imports
\* (project-model.js, app.js's renameFileFlow and closeTab).
NamesHold ==
  /\ \A id \in Stored(kv) : Whole(kv.projects[id])
  /\ init = "ready" => Whole(project)
  /\ init = "ready" /\ flow.at # "activate" =>
       \A t \in Range(tabs) \cup {selection} : t = PatchTab \/ t.name \in NamesOf(project[t.kind])

\* Once the page is at rest the storage holds the project as it is shown,
\* unless a rename overlapped an autosave (scheduleAutosave, the flows).  A
\* default project nobody touched need not be stored.
StoreFollows ==
  init = "ready" /\ ~saveTimer /\ reading = <<>> /\ flow = Idle /\ ~overtaken =>
    \/ project.id \in Stored(kv) /\ kv.projects[project.id] = project
    \/ project.id \notin projects /\ project = ProjectFromData(project.id, Seed)

\* The single workspace of an older page is forgotten only when the storage has
\* its copy (initProjectWorkspace: "don't lose anyone's existing work").
LegacyKept ==
  [][legacy' # legacy => \E id \in Stored(kv) : kv.projects[id] = MigrateLegacyWorkspace(id, legacy)]_workVars
================================================================================
