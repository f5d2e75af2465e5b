----------------------------- MODULE Workspace -----------------------------
(***************************************************************************)
(* The files and sheets of the browser: store/useWhiteboardStore.ts, the   *)
(* parts of components/Whiteboard.tsx, Sidebar, TabBar and FloatingTab     *)
(* that call it, services/exportImportService.ts, and the server's file    *)
(* handlers as far as their answers go.                                    *)
(*                                                                         *)
(* A click runs to its first await; the rest is a call that is answered    *)
(* later.  The canvas is mounted anew whenever the active file or sheet    *)
(* changes, shows then what is stored, and reports a change, so that a     *)
(* debounced save that was pending is discarded.  A sheet's content is the *)
(* set of strokes drawn in it.  Titles, rooms and dates are left out.      *)
(***************************************************************************)
EXTENDS Naturals, FiniteSets, Sequences, SequencesExt

CONSTANTS
  None,
  Patient,        \* TRUE: the user waits for answers, and for a pending save before a
                  \* sheet is left in another way than by a click on the next one
  Reuse,          \* TRUE: two files may have one name, a file may be imported twice
  ExportsOthers,  \* TRUE: files other than the open one are exported, though their sheet has content
  MaxFiles, MaxTabs, MaxCloud, MaxStrokes,   \* bounds
  MaxClicks       \* bound: new sheets, clicks on files, sign-ins, ends of a session, reloads

ASSUME WorkspaceAssumption ==
  /\ {Patient, Reuse, ExportsOthers} \subseteq BOOLEAN
  /\ None \notin Nat
  /\ {MaxFiles, MaxCloud, MaxStrokes, MaxClicks} \subseteq Nat
  /\ MaxTabs \in Nat \ {0}

\* None is no pending save.
ASSUME TimerAssumption == None \notin [tab : Nat \cup {None}, content : SUBSET Nat]

VARIABLES
  store,     \* files, activeFileId, pendingMigration, isLoading and syncStatus
  auth,      \* isAuthenticated
  cloud,     \* the server's files of the account
  scene,     \* what the canvas shows
  timer,     \* the pending call of the debounced save
  calls,     \* what has not been answered yet
  dialog,    \* pendingDeleteId
  strokes,   \* strokes drawn so far
  clicks,    \* clicks counted by MaxClicks so far
  saved,     \* history: strokes that have been in the store
  forsaken,  \* history: strokes the user gave up or drew with no file open, that were in
             \* files of the account when the session ended, or in a guest's files when the
             \* session ended, or the page was loaded again, under the question about them
  cut        \* history: the kinds of calls under which a session has ended and which go on
             \* with what they had read

wvars == <<store, auth, cloud, scene, timer, calls, dialog, strokes, clicks, saved, forsaken, cut>>

-----------------------------------------------------------------------------
(* The store.  w is store, somewhere in a callback. *)

TabsWork(tabs) == UNION {tabs[i].content : i \in DOMAIN tabs}
Work(files) == UNION {TabsWork(files[i].tabs) : i \in DOMAIN files}
Ids(files) == {files[i].id : i \in DOMAIN files}
Names(files) == {files[i].name : i \in DOMAIN files}
TabIds(files) == UNION {{files[i].tabs[j].id : j \in DOMAIN files[i].tabs} : i \in DOMAIN files}

\* The k-th least member of a set of positions, and an array filtered by position.
Nth(I, k) == CHOOSE i \in I : Cardinality({j \in I : j <= i}) = k
Pick(s, I) == [k \in 1..Cardinality(I) |-> s[Nth(I, k)]]
With(s, id) == Pick(s, {i \in DOMAIN s : s[i].id = id})
Without(s, id) == Pick(s, {i \in DOMAIN s : s[i].id # id})
Local(files) == Pick(files, {i \in DOMAIN files : ~files[i].cloud})

\* getActiveFile and getActiveTab; a file that is missing has no sheet.
IsOpen(w) == With(w.files, w.active) # <<>>
ActiveFile(w) == Head(With(w.files, w.active))
ActiveTab(w) == IF IsOpen(w) THEN ActiveFile(w).tab ELSE None

\* getInitialData.
Stored(w) ==
  IF IsOpen(w) THEN TabsWork(With(ActiveFile(w).tabs, ActiveTab(w))) ELSE {}

\* The n least ids that are not in use, for nanoid and the server's ids.
Fresh(n, used) == [k \in 1..n |-> Nth((1..(k + Cardinality(used))) \ used, k)]
UsedIds == Ids(store.files) \cup Ids(store.pending) \cup Ids(cloud) \cup {store.active}
              \cup UNION {Ids(c.files) \cup {c.id} : c \in calls}
UsedTabs == TabIds(store.files) \cup TabIds(store.pending)
              \cup UNION {TabIds(c.files) \cup {c.tabs[i].id : i \in DOMAIN c.tabs} : c \in calls}
NewId == Fresh(1, UsedIds)[1]
NewTab == Fresh(1, UsedTabs)[1]

Tab(id, content) == [id |-> id, content |-> content]
\* Mutant of File: activeTabId stays "".
FileOnly(id, name, isCloud, tabs) ==
  [id |-> id, name |-> name, cloud |-> isCloud, tabs |-> tabs, tab |-> None]

File(id, name, isCloud, tabs) ==
  [id |-> id, name |-> name, cloud |-> isCloud, tabs |-> tabs, tab |-> tabs[1].id]

\* createEmptyFile, and the names of its callers.
Untitled == 0
Imported == 30
Picked == 40
Copy(name) == 50 + name
EmptyFile(name) == File(NewId, name, FALSE, <<Tab(NewTab, {})>>)

Changed(w, F(_)) ==
  [w EXCEPT !.files = [i \in DOMAIN @ |-> IF @[i].id = w.active THEN F(@[i]) ELSE @[i]]]

\* createFile and duplicateFile: the new file becomes the active one.
Created(w, f) == [w EXCEPT !.files = Append(@, f), !.active = f.id]

\* deleteFile, from the files and the active file that it read at its start; it
\* fails before it sets anything if no file would be left to open.
Deleted(w, files, active, id) ==
  LET rest == Without(files, id)
  IN IF active = id /\ rest = <<>> THEN w
     ELSE [w EXCEPT !.files = rest, !.active = IF active = id THEN rest[1].id ELSE active]

Renamed(w, id, name) ==
  [w EXCEPT !.files = [i \in DOMAIN @ |-> IF @[i].id = id THEN [@[i] EXCEPT !.name = name] ELSE @[i]]]

AddTab(w, id) == Changed(w, LAMBDA f : [f EXCEPT !.tabs = Append(@, Tab(id, {})), !.tab = id])

\* Mutant of RemoveTab: the active sheet stays the active one.
RemoveTabOnly(w, id) ==
  Changed(w, LAMBDA f : IF Len(f.tabs) <= 1 THEN f
                        ELSE [f EXCEPT !.tabs = Without(@, id)])

RemoveTab(w, id) ==
  Changed(w, LAMBDA f :
    IF Len(f.tabs) <= 1 THEN f
    ELSE LET rest == Without(f.tabs, id)
         IN [f EXCEPT !.tabs = rest, !.tab = IF @ = id THEN Last(rest).id ELSE @])

SetActiveTab(w, id) == Changed(w, LAMBDA f : [f EXCEPT !.tab = id])

\* saveTabState: the sheet is looked for in the active file.
SaveTabState(w, id, content) ==
  Changed(w, LAMBDA f :
    [f EXCEPT !.tabs = [i \in DOMAIN @ |-> IF @[i].id = id THEN Tab(id, content) ELSE @[i]]])

LoadFromFile(w, tabs) == Changed(w, LAMBDA f : [f EXCEPT !.tabs = tabs, !.tab = tabs[1].id])
LoadNative(w, content) == SaveTabState(w, ActiveTab(w), content)

\* Mutant of ResetToGuestState: the files of the account stay.
ResetToGuestStateOnly(w) == [w EXCEPT !.pending = <<>>, !.loading = FALSE, !.sync = "idle"]

ResetToGuestState(w) ==
  LET locals == IF Local(w.files) = <<>> THEN <<EmptyFile(Untitled)>> ELSE Local(w.files)
  IN [files |-> locals, pending |-> <<>>, loading |-> FALSE, sync |-> "idle",
      active |-> IF w.active \in Ids(locals) THEN w.active ELSE locals[1].id]

\* loadFiles: what the server lists, with new ids for the sheets; bare are the files
\* whose sheets it cannot read, which it lists without them.
CloudFiles(bare) ==
  LET new == Fresh(MaxTabs * Len(cloud), UsedTabs)
      Sheets(i) == [j \in DOMAIN cloud[i].tabs |->
                      Tab(new[(i - 1) * MaxTabs + j], cloud[i].tabs[j].content)]
  IN [i \in DOMAIN cloud |->
        File(cloud[i].id, cloud[i].name, TRUE,
             IF i \in bare \/ cloud[i].tabs = <<>> THEN <<Tab(new[(i - 1) * MaxTabs + 1], {})>> ELSE Sheets(i))]

\* Mutant of Loaded: the guest's files are not kept for the question.
LoadedOver(w, locals, bare) ==
  IF cloud = <<>> /\ locals # <<>>
    THEN [files |-> locals, active |-> locals[1].id, pending |-> <<>>, loading |-> FALSE, sync |-> "syncing"]
    ELSE LET files == IF cloud = <<>> THEN <<EmptyFile(Untitled)>> ELSE CloudFiles(bare)
         IN [files |-> files, active |-> files[1].id, pending |-> <<>>, loading |-> FALSE, sync |-> "synced"]

\* loadFiles' decision.  An empty account takes the guest's files at once; else
\* they are put aside until the user has answered.
Loaded(w, locals, bare) ==
  IF cloud = <<>> /\ locals # <<>>
    THEN [files |-> locals, active |-> locals[1].id, pending |-> <<>>, loading |-> FALSE, sync |-> "syncing"]
    ELSE LET files == IF cloud = <<>> THEN <<EmptyFile(Untitled)>> ELSE CloudFiles(bare)
         IN [files |-> files, active |-> files[1].id, loading |-> FALSE, sync |-> "synced",
             pending |-> IF cloud = <<>> THEN <<>> ELSE locals]

\* migrateLocalFiles: a local file is the uploaded one of its name and length.
\* The file's id changes, activeFileId does not.
Migrated(w, uploaded) ==
  LET Same(f) == {k \in DOMAIN uploaded : uploaded[k].name = f.name
                                             /\ Len(uploaded[k].tabs) = Len(f.tabs)}
      Moved(f) == IF f.cloud \/ Same(f) = {} THEN f
                  ELSE [f EXCEPT !.id = uploaded[Nth(Same(f), 1)].id, !.cloud = TRUE]
  IN [w EXCEPT !.files = [i \in DOMAIN @ |-> Moved(@[i])], !.sync = "synced"]

-----------------------------------------------------------------------------
(* The canvas. *)

Key(w) == <<w.active, ActiveTab(w)>>
SavedBy == saved' = saved \cup Work(store'.files) \cup Work(store'.pending)

\* Mutant of Put: the canvas stays what it was.
PutOnly(w, given) ==
  /\ store' = w
  /\ SavedBy
  /\ forsaken' = forsaken \cup given
  /\ UNCHANGED <<scene, timer>>

\* set, and the rendering that follows; given is what the user gives up by it.
Put(w, given) ==
  /\ store' = w
  /\ SavedBy
  /\ forsaken' = forsaken \cup given
  /\ IF Key(store') = Key(store) THEN UNCHANGED <<scene, timer>>
                                 ELSE scene' = Stored(store') /\ timer' = None

\* MigrationDialog and the dialog about a sheet; the page behind cannot be clicked.
AsksAboutFiles == store.pending # <<>>
AsksAboutSheet == dialog # None
Clickable == ~AsksAboutFiles /\ ~AsksAboutSheet
Waited == Patient => \A c \in calls : c.kind = "rename"
Unhurried == Patient => calls = {} /\ timer = None /\ Clickable

\* handleChange, for a stroke.
Draw ==
  /\ Clickable /\ Waited
  /\ strokes < MaxStrokes
  /\ strokes' = strokes + 1
  /\ scene' = scene \cup {strokes'}
  /\ timer' = [tab |-> ActiveTab(store), content |-> scene']
  /\ forsaken' = IF IsOpen(store) THEN forsaken ELSE forsaken \cup {strokes'}
  /\ UNCHANGED <<store, auth, cloud, calls, dialog, saved>>

\* The callback of the debounced save.
SaveTimer ==
  /\ timer # None
  /\ store' = SaveTabState(store, timer.tab, timer.content)
  /\ SavedBy
  /\ timer' = None
  /\ UNCHANGED <<auth, cloud, scene, calls, dialog, strokes, forsaken>>

-----------------------------------------------------------------------------
(* Sheets. *)

TabsOf(w) == IF IsOpen(w) THEN ActiveFile(w).tabs ELSE <<>>
HasSheetButtons == Len(TabsOf(store)) > 1
RoomForSheet ==
  /\ IsOpen(store)
  /\ \A i \in DOMAIN store.files : store.files[i].id = store.active => Len(store.files[i].tabs) < MaxTabs
Sheets == {TabsOf(store)[i].id : i \in DOMAIN TabsOf(store)}
ContentOf(id) == TabsWork(With(TabsOf(store), id))
AtRest == UNCHANGED <<auth, cloud, calls, dialog, strokes>>

\* Mutant of TabClick: the sheet that is left is not saved.
TabClickOnly(id) ==
  /\ Clickable /\ Waited
  /\ id # ActiveTab(store)
  /\ Put(SetActiveTab(store, id), {})
  /\ AtRest

\* handleTabClick and handleTabChange.
TabClick(id) ==
  /\ Clickable /\ Waited
  /\ id # ActiveTab(store)
  /\ Put(SetActiveTab(SaveTabState(store, ActiveTab(store), scene), id), {})
  /\ AtRest

\* handleAddTab, and handleDrop of a scene: what is dropped goes to the canvas that
\* the new sheet replaces.
HandleAddTab ==
  /\ Clickable /\ Waited
  /\ RoomForSheet
  /\ Put(AddTab(SaveTabState(store, ActiveTab(store), scene), NewTab), {})
  /\ AtRest

\* Ctrl-T.
KeyAddTab ==
  /\ Unhurried
  /\ RoomForSheet
  /\ Put(AddTab(store, NewTab), {})
  /\ AtRest

\* The keys for the next sheet and for the sheet of a number.
KeyTab(id) ==
  /\ Unhurried
  /\ id # ActiveTab(store)
  /\ Put(SetActiveTab(store, id), {})
  /\ AtRest

\* Ctrl-W, Delete and Backspace remove the sheet, whatever is in it.
KeyRemove ==
  /\ Unhurried
  /\ Len(TabsOf(store)) > 1
  /\ Put(RemoveTab(store, ActiveTab(store)), ContentOf(ActiveTab(store)) \cup scene)
  /\ AtRest

\* handleDeleteRequest: the user is asked if the store has something of the sheet.
DeleteRequest(id) ==
  /\ Clickable /\ Unhurried
  /\ HasSheetButtons
  /\ IF ContentOf(id) # {}
       THEN dialog' = id /\ UNCHANGED <<store, scene, timer, saved, forsaken>>
       ELSE Put(RemoveTab(store, id), {}) /\ UNCHANGED dialog
  /\ UNCHANGED <<auth, cloud, calls, strokes>>

\* handleDeleteConfirm, in the file that is active now, and handleDeleteCancel.
DeleteDecided ==
  /\ AsksAboutSheet
  /\ dialog' = None
  /\ \/ Put(RemoveTab(store, dialog), ContentOf(dialog))
     \/ UNCHANGED <<store, scene, timer, saved, forsaken>>
  /\ UNCHANGED <<auth, cloud, calls, strokes>>

-----------------------------------------------------------------------------
(* Files. *)

Call(kind, id, name, files, tabs) ==
  [kind |-> kind, id |-> id, name |-> name, files |-> files, tabs |-> tabs, active |-> store.active]
Calls(c) == calls' = calls \cup {c} /\ Cardinality(calls') <= 2

\* The name of a new file, or one that the user prefers at once.
Chosen(name) ==
  IF Reuse THEN name
  ELSE Fresh(1, Names(store.files) \cup Names(store.pending) \cup {Untitled})[1]

\* handleFileClick.  The effect that follows means to save the sheet that is left,
\* and looks for it in the file that is active by then.
SwitchFile(id) ==
  /\ Clickable /\ Unhurried
  /\ id # store.active
  /\ Put([store EXCEPT !.active = id], {})
  /\ AtRest

\* createFile up to its await, with the sheets that are loaded into it afterwards.
CreateFile(name, tabs) ==
  /\ Len(store.files) + Len(store.pending) < MaxFiles
  /\ IF auth
       THEN /\ Calls(Call("create", None, Chosen(name), <<>>, tabs))
            /\ UNCHANGED <<store, scene, timer, saved, forsaken>>
       ELSE LET w == Created(store, EmptyFile(Chosen(name)))
            IN /\ Put(IF tabs = <<>> THEN w ELSE LoadFromFile(w, tabs), {})
               /\ UNCHANGED calls
  /\ UNCHANGED <<auth, cloud, dialog>>

\* handleCreateFile; the button is disabled while files are loaded.
HandleCreateFile ==
  /\ Clickable /\ Unhurried
  /\ ~store.loading
  /\ CreateFile(Len(store.files) + 1, <<>>)
  /\ UNCHANGED strokes

\* importDellcalidrawAsNewFile; the sheets keep the ids they were exported with.
ImportFile ==
  /\ Clickable /\ Unhurried
  /\ strokes < MaxStrokes
  /\ strokes' = strokes + 1
  /\ \E tabs \in {<<Tab(NewTab, {strokes'})>>} \cup (IF Reuse /\ IsOpen(store) THEN {TabsOf(store)} ELSE {}) :
       CreateFile(Imported, tabs)

\* The menu's import of a scene, loadNativeExcalidraw.
ImportScene ==
  /\ Clickable /\ Unhurried
  /\ IsOpen(store)
  /\ strokes < MaxStrokes
  /\ strokes' = strokes + 1
  /\ store' = LoadNative(store, {strokes'})
  /\ SavedBy
  /\ scene' = {strokes'}
  /\ timer' = [tab |-> ActiveTab(store), content |-> scene']
  /\ forsaken' = forsaken \cup scene \cup ContentOf(ActiveTab(store))
  /\ UNCHANGED <<auth, cloud, calls, dialog>>

\* handleExportFile: the file is opened, and 100 ms later exported from the canvas
\* of the click, which shows another sheet if the file was not open.
ExportFile(id) ==
  /\ Clickable /\ Waited
  /\ IF id = store.active
       THEN Calls(Call("export", ActiveTab(store), Untitled, <<>>, <<>>))
       ELSE /\ Unhurried
            /\ ExportsOthers \/ Stored([store EXCEPT !.active = id]) = {}
            /\ Calls(Call("export", None, Untitled, <<>>, <<>>))
  /\ Put([store EXCEPT !.active = id], {})
  /\ UNCHANGED <<auth, cloud, dialog, strokes>>

\* duplicateFile.
DuplicateFile(f) ==
  /\ Clickable /\ Unhurried
  /\ Len(store.files) + Len(store.pending) < MaxFiles
  /\ f.name < Copy(0)
  /\ LET new == Fresh(Len(f.tabs), UsedTabs)
         tabs == [i \in DOMAIN f.tabs |-> Tab(new[i], f.tabs[i].content)]
     IN Put(Created(store, File(NewId, Chosen(Copy(f.name)), FALSE, tabs)), {})
  /\ AtRest

\* renameFile up to its await.
RenameFile(f) ==
  /\ Clickable /\ Unhurried
  /\ IF auth /\ f.cloud
       THEN /\ Calls(Call("rename", f.id, Chosen(Picked), <<>>, <<>>))
            /\ UNCHANGED <<store, scene, timer, saved, forsaken>>
       ELSE Put(Renamed(store, f.id, Chosen(Picked)), {}) /\ UNCHANGED calls
  /\ UNCHANGED <<auth, cloud, dialog, strokes>>

\* deleteFile up to its await; the button is there when there are two files.
DeleteFile(f) ==
  /\ Clickable /\ Unhurried
  /\ Len(store.files) > 1
  /\ LET given == TabsWork(f.tabs) \cup Work(With(cloud, f.id))
                    \cup (IF f.id = store.active THEN scene ELSE {})
     IN IF auth /\ f.cloud
          THEN /\ Calls(Call("delete", f.id, f.name, store.files, <<>>))
               /\ forsaken' = forsaken \cup given
               /\ UNCHANGED <<store, scene, timer, saved>>
          ELSE Put(Deleted(store, store.files, store.active, f.id), given) /\ UNCHANGED calls
  /\ UNCHANGED <<auth, cloud, dialog, strokes>>

-----------------------------------------------------------------------------
(* The session. *)

\* The store's subscription: the session begins, loadFiles.
Login ==
  /\ ~auth
  /\ Clickable /\ Unhurried
  /\ auth' = TRUE
  /\ store' = [store EXCEPT !.loading = TRUE, !.sync = "syncing"]
  /\ Calls(Call("load", None, Untitled, Local(store.files), <<>>))
  /\ UNCHANGED <<cloud, scene, timer, dialog, strokes, saved, forsaken>>

\* What was drawn in the account's files and is nowhere else goes with them.
Unsynced == Work(Pick(store.files, {i \in DOMAIN store.files : store.files[i].cloud}))
              \cup (IF IsOpen(store) /\ ActiveFile(store).cloud THEN scene ELSE {})

\* The session ends: by the user, or because a token cannot be renewed, which
\* any request may meet at any time.
SessionEnds ==
  /\ auth
  /\ auth' = FALSE
  /\ Put(ResetToGuestState(store), Unsynced \cup Work(store.pending))
  /\ UNCHANGED <<cloud, calls, dialog, strokes>>

\* confirmMigration and discardMigration.
MigrationDecided ==
  /\ AsksAboutFiles
  /\ \/ /\ Put([store EXCEPT !.files = @ \o store.pending, !.pending = <<>>, !.sync = "syncing"], {})
        /\ Calls(Call("migrate", None, Untitled, store.pending, <<>>))
     \/ /\ Put([store EXCEPT !.pending = <<>>], Work(store.pending))
        /\ UNCHANGED calls
  /\ UNCHANGED <<auth, cloud, dialog, strokes>>

\* The page is loaded again; files and activeFileId are kept, and a guest's files
\* that await the user's answer are not.
Reload ==
  /\ Patient => calls = {} /\ timer = None
  /\ store' = [store EXCEPT !.pending = <<>>, !.loading = FALSE, !.sync = "idle"]
  /\ scene' = Stored(store) /\ timer' = None
  /\ calls' = {} /\ dialog' = None
  /\ forsaken' = forsaken \cup Work(store.pending)
  /\ UNCHANGED <<auth, cloud, strokes, saved>>

-----------------------------------------------------------------------------
(* Answers.  An answer is good, a failure, lost on its way back, or that the *)
(* session has expired, which ends it before the caller goes on.             *)

Outcomes == {"good", "failed", "lost"} \cup (IF auth THEN {"expired"} ELSE {})
Done(c, how) == how \in {"good", "lost"}

Answered(c, how) ==
  /\ c \in calls
  /\ how \in Outcomes
  /\ calls' = calls \ {c}
  /\ auth' = (auth /\ how # "expired")
  /\ UNCHANGED <<dialog, strokes>>

\* The store in which the caller goes on, and what an expired session has taken.
After(how) == IF how = "expired" THEN ResetToGuestState(store) ELSE store
Taken(how) == IF how = "expired" THEN Unsynced \cup Work(store.pending) ELSE {}

CreateAnswer(c, how) ==
  /\ c.kind = "create" /\ Answered(c, how)
  /\ Done(c, how) => Len(cloud) < MaxCloud
  /\ cloud' = IF Done(c, how) THEN Append(cloud, [id |-> NewId, name |-> c.name, tabs |-> <<>>]) ELSE cloud
  /\ LET id == Fresh(2, UsedIds)[IF how = "lost" THEN 2 ELSE 1]
         w == Created(After(how), File(IF how = "expired" THEN Fresh(1, UsedIds \cup Ids(After(how).files))[1] ELSE id,
                                       c.name, how = "good",
                                       <<Tab(Fresh(2, UsedTabs)[2], {})>>))
     IN Put(IF c.tabs = <<>> THEN w ELSE LoadFromFile(w, c.tabs), Taken(how))

RenameAnswer(c, how) ==
  /\ c.kind = "rename" /\ Answered(c, how)
  /\ cloud' = [i \in DOMAIN cloud |-> IF cloud[i].id = c.id /\ Done(c, how)
                                        THEN [cloud[i] EXCEPT !.name = c.name] ELSE cloud[i]]
  /\ Put(Renamed(After(how), c.id, c.name), Taken(how))

DeleteAnswer(c, how) ==
  /\ c.kind = "delete" /\ Answered(c, how)
  /\ cloud' = IF Done(c, how) THEN Without(cloud, c.id) ELSE cloud
  /\ Put(Deleted(After(how), c.files, c.active, c.id), Taken(how))

LoadAnswer(c, how) ==
  /\ c.kind = "load"
  /\ c \in calls /\ how \in Outcomes \ {"lost"}
  /\ auth' = (auth /\ how # "expired")
  /\ IF how = "good"
       THEN /\ \E bare \in SUBSET DOMAIN cloud : Put(Loaded(store, c.files, bare), {})
            /\ calls' = (calls \ {c}) \cup
                 (IF cloud = <<>> /\ c.files # <<>> THEN {Call("migrate", None, Untitled, c.files, <<>>)} ELSE {})
       ELSE /\ Put([After(how) EXCEPT !.loading = FALSE, !.sync = "error"], Taken(how))
            /\ calls' = calls \ {c}
  /\ UNCHANGED <<cloud, dialog, strokes>>

\* MigrateLocalFiles goes on with the next file or sheet when one cannot be made.
MigrateAnswer(c, how) ==
  /\ c.kind = "migrate" /\ Answered(c, how)
  /\ \E made \in SUBSET DOMAIN c.files :
       /\ made # {} <=> Done(c, how)
       /\ Len(cloud) + Cardinality(made) <= MaxCloud
       /\ LET sent == Pick(c.files, made)
              ids == Fresh(Len(sent), UsedIds)
          IN \E kept \in [DOMAIN sent -> SUBSET (1..MaxTabs)] :
               LET up == [k \in DOMAIN sent |->
                            [id |-> ids[k], name |-> sent[k].name,
                             tabs |-> Pick(sent[k].tabs, DOMAIN sent[k].tabs \cap kept[k])]]
               IN /\ cloud' = cloud \o up
                  /\ Put(IF how = "good" THEN Migrated(store, up) ELSE After(how), Taken(how))

\* exportFileAllSheets stores what the canvas of the click has to give, which is
\* nothing when it is no longer mounted.
ExportAnswer(c) ==
  /\ c \in calls /\ c.kind = "export"
  /\ calls' = calls \ {c}
  /\ Put(SaveTabState(store, ActiveTab(store), IF <<c.active, c.id>> = Key(store) THEN scene ELSE {}), {})
  /\ UNCHANGED <<auth, cloud, dialog, strokes>>

-----------------------------------------------------------------------------

Init ==
  /\ store = [files |-> <<File(1, Untitled, FALSE, <<Tab(1, {})>>)>>, active |-> 1,
              pending |-> <<>>, loading |-> FALSE, sync |-> "idle"]
  /\ auth = FALSE
  /\ cloud \in {<<>>, <<[id |-> 2, name |-> Untitled, tabs |-> <<>>]>>}
  /\ scene = {} /\ timer = None
  /\ calls = {} /\ dialog = None
  /\ strokes = 0 /\ clicks = 0 /\ saved = {} /\ forsaken = {} /\ cut = {}

Answers ==
  \E c \in calls :
    \/ ExportAnswer(c)
    \/ \E how \in {"good", "failed", "lost", "expired"} :
         \/ CreateAnswer(c, how) \/ RenameAnswer(c, how) \/ DeleteAnswer(c, how)
         \/ LoadAnswer(c, how) \/ MigrateAnswer(c, how)

OnSheets ==
  \/ Draw \/ SaveTimer
  \/ \E id \in Sheets : TabClick(id) \/ KeyTab(id) \/ DeleteRequest(id)
  \/ KeyRemove \/ DeleteDecided

OnFiles ==
  \/ \E i \in DOMAIN store.files :
       LET f == store.files[i]
       IN SwitchFile(f.id) \/ ExportFile(f.id) \/ DuplicateFile(f) \/ RenameFile(f) \/ DeleteFile(f)
  \/ HandleAddTab \/ KeyAddTab
  \/ HandleCreateFile \/ ImportFile \/ ImportScene
  \/ Login \/ SessionEnds \/ Reload

\* The history of cut.  A renaming looks for its file when it is answered; other
\* calls go on with the files, the session or the canvas they began with, and a
\* deletion does so even if it is the one that meets the end of the session.
Interrupted == {c.kind : c \in calls' \cup {d \in calls : d.kind = "delete"}} \ {"rename"}
Recorded == cut' = IF auth /\ ~auth' THEN cut \cup Interrupted ELSE cut

Next ==
  \/ OnSheets /\ UNCHANGED clicks /\ Recorded
  \/ clicks < MaxClicks /\ OnFiles /\ clicks' = clicks + 1 /\ Recorded
  \/ (Answers \/ MigrationDecided) /\ UNCHANGED clicks /\ Recorded

Spec == Init /\ [][Next]_wvars
FairSpec == Spec /\ WF_wvars(SaveTimer /\ UNCHANGED clicks /\ Recorded)
                 /\ WF_wvars(Answers /\ UNCHANGED clicks /\ Recorded)

-----------------------------------------------------------------------------
(* Properties. *)

TabType == [id : Nat, content : SUBSET (1..MaxStrokes)]
FileType == [id : Nat, name : Nat, cloud : BOOLEAN, tabs : Seq(TabType), tab : Nat]

WorkTypeOK ==
  /\ store \in [files : Seq(FileType), active : Nat, pending : Seq(FileType),
                loading : BOOLEAN, sync : {"idle", "syncing", "synced", "error"}]
  /\ auth \in BOOLEAN
  /\ cut \subseteq {"create", "delete", "load", "migrate", "export"}
  /\ cloud \in Seq([id : Nat, name : Nat, tabs : Seq(TabType)])
  /\ timer = None \/ timer \in [tab : Nat \cup {None}, content : SUBSET (1..MaxStrokes)]
  /\ dialog \in Nat \cup {None}
  /\ strokes \in 0..MaxStrokes /\ clicks \in 0..MaxClicks
  /\ scene \cup saved \cup forsaken \subseteq 1..MaxStrokes

\* Files and sheets can be told apart, every file has a sheet to show, and a
\* guest's files are never among those put aside and among those shown.
FilesAreUsable ==
  LET all == store.files \o store.pending
  IN /\ store.files # <<>>
     /\ \A i, j \in DOMAIN all : all[i].id = all[j].id => i = j
     /\ \A i \in DOMAIN all : \E k \in DOMAIN all[i].tabs : all[i].tab = all[i].tabs[k].id
     /\ \A i, j \in DOMAIN all :
          \A k \in DOMAIN all[i].tabs, l \in DOMAIN all[j].tabs :
            all[i].tabs[k].id = all[j].tabs[l].id => i = j /\ k = l

\* What the store once had is in the browser or in the account, unless the user
\* gave it up: signing in, the answer about a guest's files and failed calls
\* lose nothing of it.  It is lost when the session ends with the account's files,
\* whose sheets the browser does not send to it (see Unsynced), with a guest's
\* files that are put aside when the session ends or the page is loaded again, and
\* when a session has ended under a call that goes on all the same.
KeptWorkStays ==
  cut = {} => saved \ forsaken \subseteq Work(store.files) \cup Work(store.pending) \cup Work(cloud)

\* The canvas shows the sheet that is open, and the pending save is one of that
\* sheet, unless a session has ended under an export, which stores no strokes then.
SceneMatchesSheet ==
  "export" \notin cut /\ IsOpen(store) =>
    IF timer = None THEN scene = Stored(store)
    ELSE timer.tab = ActiveTab(store) /\ timer.content = scene

\* "a guest session cannot keep operating on someone else's data", unless a session
\* has ended under a call that makes, loads, copies or removes files of the account.
GuestOwnsFiles ==
  cut \subseteq {"export"} /\ ~auth => \A i \in DOMAIN store.files : ~store.files[i].cloud

\* A file is open.
ActiveFileExists == IsOpen(store)

\* What is drawn or imported comes to be stored.
DrawingIsSaved ==
  \A n \in 1..MaxStrokes : strokes >= n ~> n \in saved \cup forsaken
=============================================================================
