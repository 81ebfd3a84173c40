--------------------------- MODULE StudioProject ---------------------------
(***************************************************************************)
(* The document half of elysian-ui's `App`: the open model and its file,   *)
(* the single `busy` flag that admits background jobs, the viewport scene  *)
(* (a cache of the model's plate, refreshed by "display packs" computed    *)
(* off the UI thread), slicing and slice-all, and the last G-code.         *)
(*                                                                         *)
(* `App::update` handles one Message at a time, so every action below is   *)
(* one arm of that match with all the calls it makes.  Jobs started with   *)
(* Task::perform / Task::stream run on worker threads and come back as     *)
(* messages in any order; a job slot of `job`, or a member of `packs`, is  *)
(* such a task from its start until its result message is handled.         *)
(***************************************************************************)
EXTENDS Integers, FiniteSets

CONSTANTS
    Projects,     \* project .3mf files: opened with their settings, saved to
    Meshes,       \* .stl files, the calibration block: opened without
    Cube,         \* the document the application starts with
    Untitled,     \* the empty document of NewProject
    PlatesOf,     \* number of plates of each document
    PlainDocs,    \* documents whose plates are each one plain part, which
                  \*   build_slice_job slices from the scene's mesh
    Tasks,        \* slots for the jobs in flight (a bound)
    GenMod,       \* width of the wrapping u64 generation counters
    MaxEdits,     \* bound on edits of the model
    Empty, None

Files == Projects \cup Meshes
Docs  == Files \cup {Cube, Untitled}

ASSUME FilesAssumption  == Projects \cap Meshes = {} /\ Cube \notin Files
                           /\ Untitled \notin Files /\ Cube # Untitled
ASSUME NoneAssumption   == None \notin Files \cup Nat /\ Empty # None
ASSUME PlatesAssumption == PlatesOf \in [Docs -> Nat \ {0}]
ASSUME PlainAssumption  == PlainDocs \subseteq Docs
ASSUME GenAssumption    == GenMod \in Nat \ {0}
ASSUME EditsAssumption  == MaxEdits \in Nat

VARIABLES
    model,          \* the open document and the number of its last edit
    plate,          \* the plate shown and sliced next
    workspace,      \* "Prepare", "Preview" or "Other" (Home, Device, Filament)
    busy,           \* the flag begin_work tests and sets
    project_file,   \* where SaveProject writes without asking
    last_gcode,     \* the shape the G-code kept for Send was sliced from
    shown,          \* scene.mesh: the shape in the viewport
    toolpaths,      \* the shape whose toolpaths the preview draws
    load_gen, load_progress,
    needs_display_pack, pack_inflight, pack_gen,
    packs,          \* display packs in flight
    slice_all, slice_all_next,
    job,            \* every other background task in flight
    dragging,       \* a gizmo drag has moved the model, DragEnd is to come
    disk,           \* what each file holds
    edits           \* number of edits so far

doc   == <<model, plate, project_file>>
view  == <<shown, toolpaths, workspace>>
load  == <<load_gen, load_progress>>
pack  == <<needs_display_pack, pack_inflight, pack_gen, packs>>
slice == <<slice_all, slice_all_next>>
vars  == <<doc, busy, last_gcode, view, load, pack, slice, job, dragging, disk,
           edits>>

-----------------------------------------------------------------------------
\* Data: contents of a document, what a plate of it looks like, and tasks.

Contents == [doc : Docs, rev : 0 .. MaxEdits]
Shapes   == [doc : Docs, rev : 0 .. MaxEdits, plate : Nat]

ASSUME NoShapeAssumption == None \notin Shapes

Shape(m, p) == IF m.doc = Untitled THEN Empty
               ELSE [doc |-> m.doc, rev |-> m.rev, plate |-> p]

Packs    == [gen : 0 .. GenMod - 1, shape : Shapes \cup {Empty}]

Idle == [kind |-> "idle"]
LoadJob(g, f)   == [kind |-> "load", gen |-> g, path |-> f]
Loaded(g, f, r) == [kind |-> "loaded", gen |-> g, path |-> f, result |-> r]
SliceJob(x)     == [kind |-> "slice", input |-> x]
SaveJob(f, c)   == [kind |-> "save", path |-> f, content |-> c]
Saved(f, ok)    == [kind |-> "saved", path |-> f, ok |-> ok]
OtherJob        == [kind |-> "other"]

Jobs ==
    {Idle, OtherJob}
    \cup [kind : {"load"}, gen : 0 .. GenMod - 1, path : Files]
    \cup [kind : {"loaded"}, gen : 0 .. GenMod - 1, path : Files,
          result : Contents \cup {None}]
    \cup [kind : {"slice"}, input : Shapes \cup {Empty}]
    \cup [kind : {"save"}, path : Projects, content : Contents]
    \cup [kind : {"saved"}, path : Projects, ok : BOOLEAN]

\* The tasks begin_work guards: saving is not one of them.
IsLoad(j)     == j.kind \in {"load", "loaded"}
HoldsBusy(j)  == IsLoad(j) \/ j.kind \in {"slice", "other"}
FreeTasks     == {t \in Tasks : job[t] = Idle}
PlateCount(m) == PlatesOf[m.doc]

Init ==
    /\ model = [doc |-> Cube, rev |-> 0]
    /\ plate = 0
    /\ workspace = "Prepare"
    /\ busy = FALSE
    /\ project_file = None
    /\ last_gcode = None
    /\ shown = Shape(model, 0)
    /\ toolpaths = Empty
    /\ load_gen = 0 /\ load_progress = FALSE
    /\ needs_display_pack = FALSE /\ pack_inflight = FALSE /\ pack_gen = 0
    /\ packs = {}
    /\ slice_all = FALSE /\ slice_all_next = None
    /\ job = [t \in Tasks |-> Idle]
    /\ dragging = FALSE
    /\ disk = [f \in Files |-> [doc |-> f, rev |-> 0]]
    /\ edits = 0

-----------------------------------------------------------------------------
\* Steps shared by the handlers.

\* Faulty variant, for the mutation checks.
NextGenUnwrapped(g) == g + 1

\* wrapping_add(1) on a generation counter.
NextGen(g) == (g + 1) % GenMod

\* Faulty variant, for the mutation checks.
PackWantedTwice(needs, inflight) == needs /\ ~load_progress'

\* The early return of flush_display_pack.
PackWanted(needs, inflight) == needs /\ ~inflight /\ ~load_progress'

\* flush_display_pack, which ends every arm of `update` that does not return
\* early: start one pack of the current plate unless one is in flight or a
\* load is showing progress.  `needs`, `inflight`, `left` are the values the
\* handler has reached before the call.
Flush(needs, inflight, left) ==
    IF PackWanted(needs, inflight)
    THEN /\ needs_display_pack' = FALSE
         /\ pack_inflight' = TRUE
         /\ pack_gen' = NextGen(pack_gen)
         /\ packs' = left \cup {[gen |-> pack_gen',
                                 shape |-> Shape(model', plate')]}
    ELSE /\ needs_display_pack' = needs
         /\ pack_inflight' = inflight
         /\ packs' = left
         /\ UNCHANGED pack_gen

FlushPending == Flush(needs_display_pack, pack_inflight, packs)

\* set_solids, set_mesh, apply_shaded: new geometry drops the toolpaths.
ShowShape(s) == shown' = s /\ toolpaths' = Empty

\* build_slice_job: plain plates are sliced from the viewport's mesh.
SliceInput(m, p) == IF m.doc \in PlainDocs \cup {Untitled} THEN shown
                    ELSE Shape(m, p)

\* Faulty variant, for the mutation checks.
SliceCurrentUnguarded(jobs, idle) ==
    /\ busy' = TRUE
    /\ \E t \in Tasks : /\ jobs[t] = Idle
                        /\ job' = [jobs EXCEPT ![t] =
                                     SliceJob(SliceInput(model, plate'))]

\* slice_current, with begin_work; `jobs` is `job` as the handler left it and
\* `idle` whether busy is clear at the call.
SliceCurrent(jobs, idle) ==
    \/ /\ ~idle
       /\ busy' = TRUE
       /\ job' = jobs
    \/ /\ idle
       /\ busy' = TRUE
       /\ \E t \in Tasks : /\ jobs[t] = Idle
                           /\ job' = [jobs EXCEPT ![t] =
                                        SliceJob(SliceInput(model, plate'))]

-----------------------------------------------------------------------------
\* Opening files.

\* begin_open.  The file is made the project's before begin_work can refuse.
BeginOpen(f, settings) ==
    /\ workspace' = "Prepare"
    /\ project_file' = IF settings THEN f ELSE project_file
    /\ \/ /\ busy
          /\ UNCHANGED <<busy, job, load, shown, toolpaths>>
       \/ /\ ~busy
          /\ busy' = TRUE
          /\ load_gen' = NextGen(load_gen)
          /\ load_progress' = TRUE
          /\ ShowShape(Empty)
          /\ \E t \in FreeTasks :
                job' = [job EXCEPT ![t] = LoadJob(load_gen', f)]
    /\ UNCHANGED <<model, plate, last_gcode, pack, slice, dragging, disk, edits>>

\* OpenRecent and MeshPicked (the answer of a file dialog): no busy test.
OpenRecent(f) == BeginOpen(f, f \in Projects)

\* FileDropped tests busy first; Calibration does too.
FileDropped(f) == ~busy /\ BeginOpen(f, f \in Projects)
Calibration(f) == ~busy /\ BeginOpen(f, FALSE)

\* load_model_worker has read the file and shaded it, or failed.
LoadWorker(t) ==
    /\ job[t].kind = "load"
    /\ \E r \in {disk[job[t].path], None} :
          job' = [job EXCEPT ![t] = Loaded(job[t].gen, job[t].path, r)]
    /\ UNCHANGED <<doc, busy, last_gcode, view, load, pack, slice, dragging,
                   disk, edits>>

\* Faulty variant, for the mutation checks.
AnyGen(gen) == TRUE

\* A progress report of a load, ignored unless of the newest generation.
NewestGen(gen) == gen = load_gen
LoadProgress(t) ==
    /\ IsLoad(job[t])
    /\ load_progress' = (load_progress \/ NewestGen(job[t].gen))
    /\ UNCHANGED <<doc, busy, last_gcode, view, load_gen, slice, job, dragging,
                   disk, edits>>
    /\ FlushPending

\* ModelLoaded(Ok): apply_loaded_model, and an early return.
ModelLoaded(t) ==
    /\ job[t].kind = "loaded" /\ job[t].result # None
    /\ busy' = FALSE
    /\ load_progress' = FALSE
    /\ workspace' = "Prepare"
    /\ plate' = 0
    /\ model' = job[t].result
    /\ ShowShape(Shape(model', 0))
    /\ needs_display_pack' = FALSE
    /\ job' = [job EXCEPT ![t] = Idle]
    /\ UNCHANGED <<project_file, last_gcode, load_gen, pack_inflight, pack_gen,
                   packs, slice, dragging, disk, edits>>

\* Faulty variant, for the mutation checks.
LoadFailedOverlayKept(t) ==
    /\ job[t].kind = "loaded" /\ job[t].result = None
    /\ busy' = FALSE
    /\ job' = [job EXCEPT ![t] = Idle]
    /\ UNCHANGED <<doc, last_gcode, view, load, slice, dragging, disk, edits>>
    /\ Flush(TRUE, pack_inflight, packs)

\* ModelLoaded(Err): the scene begin_open emptied is to be packed again.
LoadFailed(t) ==
    /\ job[t].kind = "loaded" /\ job[t].result = None
    /\ busy' = FALSE
    /\ load_progress' = FALSE
    /\ job' = [job EXCEPT ![t] = Idle]
    /\ UNCHANGED <<doc, last_gcode, view, load_gen, slice, dragging, disk, edits>>
    /\ Flush(TRUE, pack_inflight, packs)

-----------------------------------------------------------------------------
\* New project, save.

\* new_project: an empty model of one plate; jobs in flight go on.
EmptyProject ==
    /\ model' = [doc |-> Untitled, rev |-> 0]
    /\ plate' = 0
    /\ ShowShape(Empty)
    /\ workspace' = "Prepare"
    /\ load_progress' = FALSE
    /\ UNCHANGED <<busy, load_gen, pack, slice, job, dragging, disk, edits>>

\* Faulty variants, for the mutation checks.
NewProjectGcodeKept == EmptyProject /\ project_file' = None /\ UNCHANGED last_gcode
NewProjectFileKept  == EmptyProject /\ last_gcode' = None /\ UNCHANGED project_file

NewProject == EmptyProject /\ project_file' = None /\ last_gcode' = None

\* write_project_to: the model is cloned now and written by a worker.
WriteProjectTo(f) ==
    /\ \E t \in FreeTasks : job' = [job EXCEPT ![t] = SaveJob(f, model)]
    /\ UNCHANGED <<doc, busy, last_gcode, view, load, pack, slice, dragging,
                   disk, edits>>

SaveProject == project_file # None /\ WriteProjectTo(project_file)

\* The answer of the dialog that SaveProjectAs, or SaveProject without a
\* project file, has opened at an earlier time.
ProjectPicked(f) == WriteProjectTo(f)

SaveWorker(t) ==
    /\ job[t].kind = "save"
    /\ \E ok \in BOOLEAN :
         /\ job' = [job EXCEPT ![t] = Saved(job[t].path, ok)]
         /\ disk' = IF ok THEN [disk EXCEPT ![job[t].path] = job[t].content]
                    ELSE disk
    /\ UNCHANGED <<doc, busy, last_gcode, view, load, pack, slice, dragging,
                   edits>>

\* ProjectSaved clears busy, which the save never set.
ProjectSaved(t) ==
    /\ job[t].kind = "saved"
    /\ busy' = FALSE
    /\ project_file' = IF job[t].ok THEN job[t].path ELSE project_file
    /\ job' = [job EXCEPT ![t] = Idle]
    /\ UNCHANGED <<model, plate, last_gcode, view, load, slice, dragging, disk,
                   edits>>
    /\ FlushPending

-----------------------------------------------------------------------------
\* Editing: plater operations, and a gizmo drag that packs only at its end.

Touch(m) == IF m.doc = Untitled THEN m ELSE [m EXCEPT !.rev = edits + 1]

EditModel ==
    /\ edits < MaxEdits
    /\ edits' = edits + 1
    /\ model' = Touch(model)
    /\ UNCHANGED <<plate, project_file, busy, last_gcode, view, load, slice, job,
                   dragging, disk>>
    /\ Flush(TRUE, pack_inflight, packs)

Drag ==
    /\ edits < MaxEdits
    /\ edits' = edits + 1
    /\ model' = Touch(model)
    /\ dragging' = TRUE
    /\ UNCHANGED <<plate, project_file, busy, last_gcode, view, load, slice, job,
                   disk>>
    /\ FlushPending

DragEnd ==
    /\ dragging
    /\ dragging' = FALSE
    /\ UNCHANGED <<doc, busy, last_gcode, view, load, slice, job, disk, edits>>
    /\ Flush(TRUE, pack_inflight, packs)

\* Faulty variant, for the mutation checks.
SetPlateUnsynced(p) ==
    /\ p < PlateCount(model)
    /\ plate' = p
    /\ UNCHANGED <<model, project_file, busy, last_gcode, view, load, slice, job,
                   dragging, disk, edits>>
    /\ FlushPending

\* Plate, PlatePrev, PlateNext: set_plate.
SetPlate(p) ==
    /\ p < PlateCount(model)
    /\ plate' = p
    /\ UNCHANGED <<model, project_file, busy, last_gcode, view, load, slice, job,
                   dragging, disk, edits>>
    /\ Flush(TRUE, pack_inflight, packs)

\* DisplayPacked: applied if its generation is still pack_gen.
DisplayPacked(k) ==
    /\ k \in packs
    /\ \/ k.gen = pack_gen /\ ShowShape(k.shape)
       \/ k.gen # pack_gen /\ UNCHANGED <<shown, toolpaths>>
    /\ UNCHANGED <<doc, workspace, busy, last_gcode, load, slice, job, dragging,
                   disk, edits>>
    /\ Flush(needs_display_pack, FALSE, packs \ {k})

\* Any message that changes nothing here (a cursor move, a menu) still flushes.
OtherMessage ==
    /\ UNCHANGED <<doc, busy, last_gcode, view, load, slice, job, dragging, disk,
                   edits>>
    /\ FlushPending

-----------------------------------------------------------------------------
\* Slicing.

ChooseSliceAll(all) ==
    /\ slice_all' = all
    /\ UNCHANGED <<doc, busy, last_gcode, view, load, slice_all_next, job,
                   dragging, disk, edits>>
    /\ FlushPending

\* Message::Slice.  set_plate comes before slice_current, and the early return
\* leaves the display pack it asks for to the next message.
Slice ==
    /\ \/ /\ slice_all
          /\ slice_all_next' = 0
          /\ plate' = 0
          /\ needs_display_pack' = TRUE
       \/ /\ ~slice_all
          /\ slice_all_next' = None
          /\ UNCHANGED <<plate, needs_display_pack>>
    /\ SliceCurrent(job, ~busy)
    /\ UNCHANGED <<model, project_file, last_gcode, view, load, pack_inflight,
                   pack_gen, packs, slice_all, dragging, disk, edits>>

\* Sliced(Ok): finish_slice or finish_objects, which may fail to write G-code,
\* then continue_slice_all.
Sliced(t) ==
    /\ job[t].kind = "slice"
    /\ \/ /\ last_gcode' = job[t].input
          /\ toolpaths' = job[t].input
          /\ workspace' = "Preview"
       \/ UNCHANGED <<last_gcode, toolpaths, workspace>>
    /\ LET jobs == [job EXCEPT ![t] = Idle]
           next == slice_all_next + 1
       IN \/ /\ slice_all_next = None
             /\ busy' = FALSE
             /\ job' = jobs
             /\ UNCHANGED <<plate, needs_display_pack, slice>>
          \/ /\ slice_all_next # None
             /\ next < PlateCount(model)
             /\ slice_all_next' = next
             /\ plate' = next
             /\ needs_display_pack' = TRUE
             /\ SliceCurrent(jobs, TRUE)
             /\ UNCHANGED slice_all
          \/ /\ slice_all_next # None
             /\ next >= PlateCount(model)
             /\ slice_all_next' = None /\ slice_all' = FALSE
             /\ busy' = FALSE
             /\ job' = jobs
             /\ UNCHANGED <<plate, needs_display_pack>>
    /\ UNCHANGED <<model, project_file, shown, load, pack_inflight, pack_gen,
                   packs, dragging, disk, edits>>

\* Faulty variant, for the mutation checks.
SliceFailedGoesOn(t) ==
    /\ job[t].kind = "slice"
    /\ busy' = FALSE
    /\ job' = [job EXCEPT ![t] = Idle]
    /\ UNCHANGED <<doc, last_gcode, view, load, slice, dragging, disk, edits>>
    /\ FlushPending

\* Sliced(Err).
SliceFailed(t) ==
    /\ job[t].kind = "slice"
    /\ busy' = FALSE
    /\ slice_all_next' = None /\ slice_all' = FALSE
    /\ job' = [job EXCEPT ![t] = Idle]
    /\ UNCHANGED <<doc, last_gcode, view, load, dragging, disk, edits>>
    /\ FlushPending

\* Message::Workspace: entering Preview without G-code slices at once.
EnterWorkspace(w) ==
    /\ workspace' = w
    /\ UNCHANGED <<doc, last_gcode, shown, toolpaths, load, slice, dragging,
                   disk, edits>>
    /\ LET slices == /\ w = "Preview" /\ workspace # "Preview"
                     /\ last_gcode = None /\ ~busy
       IN \/ slices /\ SliceCurrent(job, TRUE) /\ UNCHANGED pack
          \/ ~slices /\ FlushPending /\ UNCHANGED <<busy, job>>
          \/ w = "Other" /\ UNCHANGED <<pack, busy, job>>  \* start_live_sync

-----------------------------------------------------------------------------
\* The other users of begin_work: ExtractKeys, InventoryPull, InventoryPush.

StartOther ==
    /\ ~busy
    /\ busy' = TRUE
    /\ \E t \in FreeTasks : job' = [job EXCEPT ![t] = OtherJob]
    /\ UNCHANGED <<doc, last_gcode, view, load, pack, slice, dragging, disk,
                   edits>>

\* Faulty variant, for the mutation checks.
OtherDoneStillBusy(t) ==
    /\ job[t].kind = "other"
    /\ job' = [job EXCEPT ![t] = Idle]
    /\ UNCHANGED <<doc, busy, last_gcode, view, load, slice, dragging, disk,
                   edits>>
    /\ FlushPending

OtherDone(t) ==
    /\ job[t].kind = "other"
    /\ busy' = FALSE
    /\ job' = [job EXCEPT ![t] = Idle]
    /\ UNCHANGED <<doc, last_gcode, view, load, slice, dragging, disk, edits>>
    /\ FlushPending

-----------------------------------------------------------------------------
Workspaces == {"Prepare", "Preview", "Other"}

Opens    == \/ \E f \in Files : OpenRecent(f) \/ FileDropped(f)
            \/ \E f \in Meshes : Calibration(f)
Edits    == \/ EditModel \/ Drag \/ DragEnd
            \/ \E p \in 0 .. PlateCount(model) - 1 : SetPlate(p)
Saves    == SaveProject \/ \E f \in Projects : ProjectPicked(f)
Requests == \/ Opens \/ NewProject \/ Saves \/ Edits \/ Slice \/ StartOther
            \/ \E all \in BOOLEAN : ChooseSliceAll(all)
            \/ \E w \in Workspaces : EnterWorkspace(w)

Workers(t) == LoadWorker(t) \/ SaveWorker(t)
Results(t) == \/ ModelLoaded(t) \/ LoadFailed(t) \/ ProjectSaved(t)
              \/ Sliced(t) \/ SliceFailed(t) \/ OtherDone(t)

Background == \/ OtherMessage
              \/ \E t \in Tasks : Workers(t) \/ LoadProgress(t) \/ Results(t)
              \/ \E k \in packs : DisplayPacked(k)

Next == Requests \/ Background

\* Workers finish and their messages are handled; the user owes nothing.
Fairness == /\ \A t \in Tasks : WF_vars(Workers(t)) /\ WF_vars(Results(t))
            /\ WF_vars(\E k \in packs : DisplayPacked(k))

Spec     == Init /\ [][Next]_vars
FairSpec == Spec /\ Fairness

-----------------------------------------------------------------------------
(***************************************************************************)
(* Properties.                                                             *)
(***************************************************************************)

TypeOK ==
    /\ model \in Contents
    /\ plate \in Nat
    /\ workspace \in Workspaces
    /\ busy \in BOOLEAN
    /\ project_file \in Projects \cup {None}
    /\ last_gcode \in Shapes \cup {Empty, None}
    /\ shown \in Shapes \cup {Empty}
    /\ toolpaths \in Shapes \cup {Empty}
    /\ load_gen \in 0 .. GenMod - 1
    /\ load_progress \in BOOLEAN
    /\ needs_display_pack \in BOOLEAN
    /\ pack_inflight \in BOOLEAN
    /\ pack_gen \in 0 .. GenMod - 1
    /\ packs \subseteq Packs
    /\ slice_all \in BOOLEAN
    /\ slice_all_next \in Nat \cup {None}
    /\ job \in [Tasks -> Jobs]
    /\ dragging \in BOOLEAN
    /\ disk \in [Files -> Contents]
    /\ edits \in 0 .. MaxEdits

\* At most one display pack is computed at a time, pack_inflight says whether
\* one is, and it carries the current generation.  So the test of the
\* generation in the DisplayPacked arm never drops a result: what protects the
\* scene from an outdated pack is needs_display_pack alone.
PackCurrent ==
    /\ pack_inflight <=> packs # {}
    /\ \A k \in packs : k.gen = pack_gen /\ packs = {k}

\* The loading overlay (which holds display packs back) is only ever up for
\* the newest load, and that load is still to answer: neither a superseded
\* load's late progress nor NewProject can leave it up for good.
OverlayBacked ==
    load_progress => \E t \in Tasks : IsLoad(job[t]) /\ job[t].gen = load_gen

\* `busy` is up exactly while one job admitted by begin_work is in flight.
Exclusive ==
    /\ busy <=> \E t \in Tasks : HoldsBusy(job[t])
    /\ \A t, u \in Tasks : HoldsBusy(job[t]) /\ HoldsBusy(job[u]) => t = u

\* begin_work's mutual exclusion is lost by no request, result or failure but
\* one: the answer of a save, which clears a flag the save never took.
ExclusiveLostOnlyBySaving ==
    [][Exclusive /\ ~Exclusive' => \E t \in Tasks : ProjectSaved(t)]_vars

\* The viewport shows the open plate, or a pack of that plate is in flight or
\* owed, or a load is about to replace the scene.
ViewCurrent ==
    \/ load_progress \/ needs_display_pack \/ dragging
    \/ \E k \in packs : k.shape = Shape(model, plate)
    \/ packs = {} /\ shown = Shape(model, plate)

\* The viewport is left showing something else only by replacing the document
\* (a load's result, NewProject) while a pack of the old one is in flight:
\* edits, plate changes, failed loads and slice-all all keep it or repair it.
ViewLostOnlyByReplacement ==
    [][ViewCurrent /\ ~ViewCurrent'
         => pack_inflight /\ (NewProject \/ \E t \in Tasks : ModelLoaded(t))]_vars

\* The G-code that Send would print was sliced from the open document.
GcodeOfDocument == last_gcode \in Shapes => last_gcode.doc = model.doc

\* Send's G-code stops matching the open document only when a load replaces
\* the document, or when a slice of an older document answers late; never by
\* NewProject, a save, or a slice that failed.
GcodeLostOnlyByReplacement ==
    [][GcodeOfDocument /\ ~GcodeOfDocument'
         => \E t \in Tasks : \/ ModelLoaded(t)
                             \/ Sliced(t) /\ job[t].input.doc # model.doc]_vars

\* The file that SaveProject overwrites without asking holds a version of the
\* open document.
FileOfDocument ==
    project_file # None => disk[project_file].doc = model.doc

\* SaveProject comes to aim at another document's file only through an open
\* request (which names the file before anything is loaded), a load, or a
\* save that was started for a document no longer open.
FileLostOnlyByOpening ==
    [][FileOfDocument /\ ~FileOfDocument'
         => \/ Opens
            \/ \E t \in Tasks :
                 \/ ModelLoaded(t)
                 \/ SaveWorker(t) /\ job[t].content.doc # model.doc
                 \/ ProjectSaved(t) /\ disk[job[t].path].doc # model.doc]_vars

\* Every job admitted by begin_work is answered and the flag comes down again,
\* unless the user restarts slice-all for ever while it runs.
BusyEnds == []<>~busy \/ []<><<Slice>>_vars

\* The loading overlay always comes down.
OverlayEnds == load_progress ~> ~load_progress

\* A slice-all that has a slice running steps to its end: every answer moves
\* it to the next plate, ends it, or (a failure) cancels it.
SliceAllEnds ==
    \/ (slice_all_next # None /\ \E t \in Tasks : job[t].kind = "slice")
          ~> slice_all_next = None
    \/ []<><<Slice>>_vars

\* README.md:58 has Preview as "the G-code overlay after a slice": the overlay
\* is replaced by a newer slice or dropped by a request of the user, not by
\* the result of a display pack.
PreviewKeepsSlice ==
    [][toolpaths # Empty /\ toolpaths' # toolpaths
         => (Requests \/ \E t \in Tasks : Sliced(t))]_vars

=============================================================================
