------------------------ MODULE StudioProject_proof ------------------------
(* Proofs about StudioProject, for every number of files, plates, tasks and *)
(* edits.  Liveness stays with TLC.                                         *)
EXTENDS StudioProject, TLAPS

-----------------------------------------------------------------------------
\* Lemmas about the helpers.

\* A wrapping generation counter stays in its range.
LEMMA GenWraps == \A g \in 0 .. GenMod - 1 : NextGen(g) \in 0 .. GenMod - 1
  BY GenAssumption DEF NextGen

\* What a plate of a document looks like is a shape, or nothing.
LEMMA ShapeType ==
  ASSUME NEW m \in Contents, NEW p \in Nat
  PROVE  Shape(m, p) \in Shapes \cup {Empty}
  BY DEF Shape, Contents, Shapes

\* The records the handlers put in task slots are jobs.
LEMMA JobTypes ==
  /\ Idle \in Jobs /\ OtherJob \in Jobs
  /\ \A g \in 0 .. GenMod - 1, f \in Files : LoadJob(g, f) \in Jobs
  /\ \A g \in 0 .. GenMod - 1, f \in Files, r \in Contents \cup {None} :
        Loaded(g, f, r) \in Jobs
  /\ \A x \in Shapes \cup {Empty} : SliceJob(x) \in Jobs
  /\ \A f \in Projects, c \in Contents : SaveJob(f, c) \in Jobs
  /\ \A f \in Projects, ok \in BOOLEAN : Saved(f, ok) \in Jobs
  BY DEF Jobs, Idle, OtherJob, LoadJob, Loaded, SliceJob, SaveJob, Saved

\* What a job of a given kind carries.
LEMMA JobFields ==
  ASSUME NEW j \in Jobs
  PROVE  /\ j.kind = "load" => j.gen \in 0 .. GenMod - 1 /\ j.path \in Files
         /\ j.kind = "loaded" => /\ j.gen \in 0 .. GenMod - 1
                                 /\ j.path \in Files
                                 /\ j.result \in Contents \cup {None}
         /\ j.kind = "slice" => j.input \in Shapes \cup {Empty}
         /\ j.kind = "save" => j.path \in Projects /\ j.content \in Contents
         /\ j.kind = "saved" => j.path \in Projects /\ j.ok \in BOOLEAN
  BY DEF Jobs, Idle, OtherJob

\* flush_display_pack keeps the pack variables in their types.
LEMMA FlushType ==
  ASSUME NEW needs \in BOOLEAN, NEW inflight \in BOOLEAN,
         NEW left \in SUBSET Packs, pack_gen \in 0 .. GenMod - 1,
         model' \in Contents, plate' \in Nat,
         Flush(needs, inflight, left)
  PROVE  /\ needs_display_pack' \in BOOLEAN
         /\ pack_inflight' \in BOOLEAN
         /\ pack_gen' \in 0 .. GenMod - 1
         /\ packs' \subseteq Packs
  <1>1. CASE needs /\ ~inflight /\ ~load_progress'
    <2>1. pack_gen' \in 0 .. GenMod - 1
      BY <1>1, GenWraps DEF Flush, PackWanted
    <2>2. Shape(model', plate') \in Shapes \cup {Empty}
      BY ShapeType
    <2>3. [gen |-> pack_gen', shape |-> Shape(model', plate')] \in Packs
      BY <2>1, <2>2 DEF Packs
    <2> QED BY <1>1, <2>1, <2>3 DEF Flush, PackWanted
  <1>2. CASE ~(needs /\ ~inflight /\ ~load_progress')
    BY <1>2 DEF Flush, PackWanted
  <1> QED BY <1>1, <1>2

-----------------------------------------------------------------------------
\* Type correctness.

LEMMA InitType == Init => TypeOK
  <1> SUFFICES ASSUME Init
               PROVE  TypeOK
    OBVIOUS
  <1>1. model \in Contents
    BY EditsAssumption DEF Init, Contents, Docs
  <1>2. Shape(model, 0) \in Shapes \cup {Empty}
    BY <1>1, ShapeType
  <1>3. job \in [Tasks -> Jobs]
    BY JobTypes DEF Init
  <1>4. disk \in [Files -> Contents]
    BY EditsAssumption DEF Init, Contents, Docs
  <1>5. 0 \in 0 .. GenMod - 1 /\ 0 \in 0 .. MaxEdits
    BY GenAssumption, EditsAssumption
  <1> QED BY <1>1, <1>2, <1>3, <1>4, <1>5 DEF Init, TypeOK, Workspaces

\* slice_current starts at most one slice job of a well-typed shape.
LEMMA SliceCurrentType ==
  ASSUME TypeOK, NEW jobs \in [Tasks -> Jobs], NEW idle \in BOOLEAN,
         plate' \in Nat, SliceCurrent(jobs, idle)
  PROVE  busy' \in BOOLEAN /\ job' \in [Tasks -> Jobs]
  <1>1. SliceInput(model, plate') \in Shapes \cup {Empty}
    BY ShapeType DEF SliceInput, TypeOK
  <1>2. SliceJob(SliceInput(model, plate')) \in Jobs
    BY <1>1, JobTypes
  <1> QED BY <1>2 DEF SliceCurrent

LEMMA OpensType ==
  ASSUME TypeOK, NEW f \in Files, NEW settings \in BOOLEAN,
         settings => f \in Projects, BeginOpen(f, settings)
  PROVE  TypeOK'
  <1>1. CASE busy
    BY <1>1 DEF BeginOpen, TypeOK, Workspaces, load, pack, slice
  <1>2. CASE ~busy
    <2>1. load_gen' \in 0 .. GenMod - 1
      BY <1>2, GenWraps DEF BeginOpen, TypeOK
    <2>2. LoadJob(load_gen', f) \in Jobs
      BY <2>1, JobTypes
    <2>3. job' \in [Tasks -> Jobs]
      BY <1>2, <2>2 DEF BeginOpen, TypeOK
    <2> QED BY <1>2, <2>1, <2>3
            DEF BeginOpen, TypeOK, Workspaces, ShowShape, pack, slice
  <1> QED BY <1>1, <1>2

LEMMA ResultsType ==
  ASSUME TypeOK, NEW t \in Tasks, Results(t) \/ Workers(t) \/ LoadProgress(t)
  PROVE  TypeOK'
  <1> USE DEF TypeOK, doc, view, load, pack, slice
  <1>0. /\ job[t] \in Jobs
        /\ \A r \in Jobs : [job EXCEPT ![t] = r] \in [Tasks -> Jobs]
    OBVIOUS
  <1>1. CASE LoadWorker(t)
    <2>1. PICK r \in {disk[job[t].path], None} :
              job' = [job EXCEPT ![t] = Loaded(job[t].gen, job[t].path, r)]
      BY <1>1 DEF LoadWorker
    <2>2. job[t].gen \in 0 .. GenMod - 1 /\ job[t].path \in Files
      BY <1>0, <1>1, JobFields DEF LoadWorker
    <2>3. r \in Contents \cup {None}
      BY <2>2
    <2>4. job' \in [Tasks -> Jobs]
      BY <1>0, <2>1, <2>2, <2>3, JobTypes
    <2> QED BY <1>1, <2>4 DEF LoadWorker
  <1>2. CASE SaveWorker(t)
    <2>1. PICK ok \in BOOLEAN :
            /\ job' = [job EXCEPT ![t] = Saved(job[t].path, ok)]
            /\ disk' = IF ok THEN [disk EXCEPT ![job[t].path] = job[t].content]
                       ELSE disk
      BY <1>2 DEF SaveWorker
    <2>2. job[t].path \in Projects /\ job[t].content \in Contents
      BY <1>0, <1>2, JobFields DEF SaveWorker
    <2>3. job' \in [Tasks -> Jobs]
      BY <1>0, <2>1, <2>2, JobTypes
    <2>4. disk' \in [Files -> Contents]
      BY <2>1, <2>2 DEF Files
    <2> QED BY <1>2, <2>3, <2>4 DEF SaveWorker
  <1>3. CASE LoadProgress(t)
    BY <1>3, FlushType DEF LoadProgress, FlushPending
  <1>4. CASE ModelLoaded(t)
    <2>1. model' \in Contents
      BY <1>0, <1>4, JobFields DEF ModelLoaded
    <2>2. Shape(model', 0) \in Shapes \cup {Empty}
      BY <2>1, ShapeType
    <2>3. job' \in [Tasks -> Jobs]
      BY <1>0, <1>4, JobTypes DEF ModelLoaded
    <2> QED BY <1>4, <2>1, <2>2, <2>3
            DEF ModelLoaded, ShowShape, Workspaces
  <1>5. CASE LoadFailed(t)
    <2>1. job' \in [Tasks -> Jobs]
      BY <1>0, <1>5, JobTypes DEF LoadFailed
    <2> QED BY <1>5, <2>1, FlushType DEF LoadFailed
  <1>6. CASE ProjectSaved(t)
    <2>1. project_file' \in Projects \cup {None}
      BY <1>0, <1>6, JobFields DEF ProjectSaved
    <2>2. job' \in [Tasks -> Jobs]
      BY <1>0, <1>6, JobTypes DEF ProjectSaved
    <2> QED BY <1>6, <2>1, <2>2, FlushType DEF ProjectSaved, FlushPending
  <1>7. CASE Sliced(t)
    <2>1. job[t].input \in Shapes \cup {Empty}
      BY <1>0, <1>7, JobFields DEF Sliced
    <2>2. /\ last_gcode' \in Shapes \cup {Empty, None}
          /\ toolpaths' \in Shapes \cup {Empty}
          /\ workspace' \in Workspaces
      BY <1>7, <2>1 DEF Sliced, Workspaces
    <2> DEFINE jobs == [job EXCEPT ![t] = Idle]
    <2>3. jobs \in [Tasks -> Jobs]
      BY <1>0, JobTypes
    <2>4. /\ busy' \in BOOLEAN /\ job' \in [Tasks -> Jobs]
          /\ plate' \in Nat /\ needs_display_pack' \in BOOLEAN
          /\ slice_all' \in BOOLEAN /\ slice_all_next' \in Nat \cup {None}
      <3>1. CASE slice_all_next = None
        BY <1>7, <2>3, <3>1 DEF Sliced
      <3>2. CASE slice_all_next # None /\ slice_all_next + 1 < PlateCount(model)
        <4>1. slice_all_next + 1 \in Nat /\ PlateCount(model) \in Nat
          BY <3>2, PlatesAssumption DEF PlateCount, Contents
        <4>2. /\ plate' = slice_all_next + 1
              /\ slice_all_next' = slice_all_next + 1
              /\ needs_display_pack' = TRUE
              /\ slice_all' = slice_all
              /\ SliceCurrent(jobs, TRUE)
          <5>1. ~(slice_all_next + 1 >= PlateCount(model))
            BY <3>2, <4>1
          <5> QED BY <1>7, <3>2, <5>1, Zenon DEF Sliced
        <4>3. busy' \in BOOLEAN /\ job' \in [Tasks -> Jobs]
          BY <2>3, <4>1, <4>2, SliceCurrentType
        <4> QED BY <4>1, <4>2, <4>3
      <3>3. CASE slice_all_next # None /\ ~(slice_all_next + 1 < PlateCount(model))
        BY <1>7, <2>3, <3>3 DEF Sliced
      <3> QED BY <3>1, <3>2, <3>3
    <2> QED BY <1>7, <2>2, <2>4 DEF Sliced
  <1>8. CASE SliceFailed(t)
    <2>1. job' \in [Tasks -> Jobs]
      BY <1>0, <1>8, JobTypes DEF SliceFailed
    <2> QED BY <1>8, <2>1, FlushType DEF SliceFailed, FlushPending
  <1>9. CASE OtherDone(t)
    <2>1. job' \in [Tasks -> Jobs]
      BY <1>0, <1>9, JobTypes DEF OtherDone
    <2> QED BY <1>9, <2>1, FlushType DEF OtherDone, FlushPending
  <1> QED BY <1>1, <1>2, <1>3, <1>4, <1>5, <1>6, <1>7, <1>8, <1>9
          DEF Results, Workers

LEMMA RequestsType ==
  ASSUME TypeOK, Requests
  PROVE  TypeOK'
  <1> USE DEF doc, view, load, pack, slice
  <1>1. CASE Opens
    <2>1. CASE \E f \in Files : BeginOpen(f, f \in Projects)
      <3>1. PICK f \in Files : BeginOpen(f, f \in Projects)
        BY <2>1
      <3>2. (f \in Projects) \in BOOLEAN
        OBVIOUS
      <3> QED BY <3>1, <3>2, OpensType
    <2>2. CASE \E f \in Meshes : BeginOpen(f, FALSE)
      BY <2>2, OpensType DEF Files
    <2> QED BY <1>1, <2>1, <2>2 DEF Opens, OpenRecent, FileDropped, Calibration
  <1>2. CASE NewProject
    <2>1. [doc |-> Untitled, rev |-> 0] \in Contents
      BY EditsAssumption DEF Contents, Docs
    <2> QED BY <1>2, <2>1 DEF NewProject, EmptyProject, TypeOK, ShowShape, Workspaces
  <1>3. CASE Saves
    <2>1. PICK f \in Projects : WriteProjectTo(f)
      BY <1>3 DEF Saves, SaveProject, ProjectPicked, TypeOK
    <2>2. SaveJob(f, model) \in Jobs
      BY JobTypes DEF TypeOK
    <2>3. job' \in [Tasks -> Jobs]
      BY <2>1, <2>2 DEF WriteProjectTo, FreeTasks, TypeOK
    <2> QED BY <2>1, <2>3 DEF WriteProjectTo, TypeOK
  <1>4. CASE EditModel \/ Drag
    <2>0. edits \in 0 .. MaxEdits /\ edits < MaxEdits /\ edits' = edits + 1
      BY <1>4 DEF EditModel, Drag, TypeOK
    <2>1. edits + 1 \in 0 .. MaxEdits
      BY <2>0, EditsAssumption
    <2>2. model' \in Contents
      <3>1. model \in Contents /\ model' = Touch(model)
        BY <1>4 DEF EditModel, Drag, TypeOK
      <3> QED BY <2>1, <3>1 DEF Touch, Contents
    <2>3. plate' \in Nat
      BY <1>4 DEF EditModel, Drag, TypeOK
    <2>4. \E needs \in BOOLEAN : Flush(needs, pack_inflight, packs)
      BY <1>4 DEF EditModel, Drag, FlushPending, TypeOK
    <2>5. /\ needs_display_pack' \in BOOLEAN
          /\ pack_inflight' \in BOOLEAN
          /\ pack_gen' \in 0 .. GenMod - 1
          /\ packs' \subseteq Packs
      BY <2>2, <2>3, <2>4, FlushType DEF TypeOK
    <2> QED BY <1>4, <2>0, <2>1, <2>2, <2>5 DEF EditModel, Drag, TypeOK
  <1>5. CASE DragEnd
    BY <1>5, FlushType DEF DragEnd, TypeOK
  <1>6. CASE \E p \in 0 .. PlateCount(model) - 1 : SetPlate(p)
    <2>1. PICK p \in Nat : SetPlate(p)
      BY <1>6
    <2>2. plate' \in Nat /\ model' = model
      BY <2>1 DEF SetPlate
    <2> QED BY <2>1, <2>2, FlushType DEF SetPlate, TypeOK
  <1>7. CASE Slice
    <2>0. plate \in Nat /\ needs_display_pack \in BOOLEAN
      BY DEF TypeOK
    <2>1. /\ plate' \in Nat /\ needs_display_pack' \in BOOLEAN
          /\ slice_all_next' \in Nat \cup {None}
      <3>1. CASE slice_all
        BY <1>7, <2>0, <3>1 DEF Slice
      <3>2. CASE ~slice_all
        BY <1>7, <2>0, <3>2 DEF Slice
      <3> QED BY <3>1, <3>2
    <2>2. busy' \in BOOLEAN /\ job' \in [Tasks -> Jobs]
      <3>1. (~busy) \in BOOLEAN /\ job \in [Tasks -> Jobs]
        BY DEF TypeOK
      <3>2. SliceCurrent(job, ~busy)
        BY <1>7 DEF Slice
      <3> QED BY <2>1, <3>1, <3>2, SliceCurrentType
    <2> QED BY <1>7, <2>1, <2>2 DEF Slice, TypeOK
  <1>8. CASE StartOther
    <2>1. job' \in [Tasks -> Jobs]
      BY <1>8, JobTypes DEF StartOther, FreeTasks, TypeOK
    <2> QED BY <1>8, <2>1 DEF StartOther, TypeOK
  <1>9. CASE \E all \in BOOLEAN : ChooseSliceAll(all)
    BY <1>9, FlushType DEF ChooseSliceAll, FlushPending, TypeOK
  <1>10. CASE \E w \in Workspaces : EnterWorkspace(w)
    <2>1. PICK w \in Workspaces : EnterWorkspace(w)
      BY <1>10
    <2>2. CASE SliceCurrent(job, TRUE) /\ UNCHANGED pack
      <3>1. job \in [Tasks -> Jobs] /\ plate' \in Nat
        BY <2>1 DEF EnterWorkspace, TypeOK
      <3>2. busy' \in BOOLEAN /\ job' \in [Tasks -> Jobs]
        BY <2>2, <3>1, SliceCurrentType
      <3> QED BY <2>1, <2>2, <3>2 DEF EnterWorkspace, TypeOK
    <2>3. CASE FlushPending /\ UNCHANGED <<busy, job>>
      BY <2>1, <2>3, FlushType DEF EnterWorkspace, FlushPending, TypeOK
    <2>4. CASE UNCHANGED <<pack, busy, job>>
      BY <2>1, <2>4 DEF EnterWorkspace, TypeOK
    <2> QED BY <2>1, <2>2, <2>3, <2>4 DEF EnterWorkspace
  <1> QED BY <1>1, <1>2, <1>3, <1>4, <1>5, <1>6, <1>7, <1>8, <1>9, <1>10
          DEF Requests, Edits

LEMMA NextType == TypeOK /\ [Next]_vars => TypeOK'
  <1> SUFFICES ASSUME TypeOK, [Next]_vars
               PROVE  TypeOK'
    OBVIOUS
  <1>1. CASE Requests
    BY <1>1, RequestsType
  <1>2. CASE OtherMessage
    BY <1>2, FlushType
       DEF OtherMessage, FlushPending, TypeOK, doc, view, load, slice
  <1>3. ASSUME NEW t \in Tasks, Workers(t) \/ LoadProgress(t) \/ Results(t)
        PROVE  TypeOK'
    BY <1>3, ResultsType
  <1>4. ASSUME NEW k \in packs, DisplayPacked(k)
        PROVE  TypeOK'
    <2>1. k.shape \in Shapes \cup {Empty}
      BY DEF TypeOK, Packs
    <2>2. shown' \in Shapes \cup {Empty} /\ toolpaths' \in Shapes \cup {Empty}
      BY <1>4, <2>1 DEF DisplayPacked, ShowShape, TypeOK
    <2>3. packs \ {k} \in SUBSET Packs
      BY DEF TypeOK
    <2> QED BY <1>4, <2>2, <2>3, FlushType
            DEF DisplayPacked, TypeOK, doc, load, slice
  <1>5. CASE UNCHANGED vars
    BY <1>5 DEF vars, doc, view, load, pack, slice, TypeOK
  <1> QED BY <1>1, <1>2, <1>3, <1>4, <1>5 DEF Next, Background

\* Every variable of the application keeps its type.
THEOREM TypeCorrect == Spec => []TypeOK
  BY InitType, NextType, PTL DEF Spec


-----------------------------------------------------------------------------
\* Display packs.

\* Every step leaves the packs alone, or runs flush_display_pack on them as
\* they are, or on what one finished pack leaves.
LEMMA PackSteps ==
  ASSUME [Next]_vars
  PROVE  \/ UNCHANGED <<pack_inflight, pack_gen, packs>>
         \/ \E needs : Flush(needs, pack_inflight, packs)
         \/ \E k \in packs : Flush(needs_display_pack, FALSE, packs \ {k})
  <1>1. CASE Requests
    BY <1>1 DEF Requests, Opens, OpenRecent, FileDropped, Calibration,
       BeginOpen, NewProject, EmptyProject, Saves, SaveProject, ProjectPicked,
       WriteProjectTo,
       Edits, EditModel, Drag, DragEnd, SetPlate, Slice, StartOther,
       ChooseSliceAll, EnterWorkspace, FlushPending, pack
  <1>2. CASE Background
    BY <1>2 DEF Background, OtherMessage, Workers, LoadWorker, SaveWorker,
       LoadProgress, Results, ModelLoaded, LoadFailed, ProjectSaved, Sliced,
       SliceFailed, OtherDone, DisplayPacked, FlushPending, pack
  <1>3. CASE UNCHANGED vars
    BY <1>3 DEF vars, pack
  <1> QED BY <1>1, <1>2, <1>3 DEF Next

LEMMA PackNext == PackCurrent /\ [Next]_vars => PackCurrent'
  <1> SUFFICES ASSUME PackCurrent, [Next]_vars
               PROVE  PackCurrent'
    OBVIOUS
  <1>1. ASSUME NEW needs, Flush(needs, FALSE, {})
        PROVE  PackCurrent'
    <2> DEFINE k == [gen |-> pack_gen', shape |-> Shape(model', plate')]
    <2>1. CASE needs /\ ~load_progress'
      <3>1. pack_inflight' = TRUE /\ packs' = {k}
        BY <1>1, <2>1 DEF Flush, PackWanted
      <3>2. k.gen = pack_gen'
        OBVIOUS
      <3> QED BY <3>1, <3>2 DEF PackCurrent
    <2>2. CASE ~(needs /\ ~load_progress')
      BY <1>1, <2>2 DEF Flush, PackWanted, PackCurrent
    <2> QED BY <2>1, <2>2
  <1>2. CASE UNCHANGED <<pack_inflight, pack_gen, packs>>
    BY <1>2 DEF PackCurrent
  <1>3. CASE \E needs : Flush(needs, pack_inflight, packs)
    <2>1. PICK needs : Flush(needs, pack_inflight, packs)
      BY <1>3
    <2>2. CASE packs # {}
      <3>1. pack_inflight
        BY <2>2 DEF PackCurrent
      <3>2. UNCHANGED <<pack_gen, packs>> /\ pack_inflight' = pack_inflight
        BY <2>1, <3>1 DEF Flush, PackWanted
      <3> QED BY <3>2 DEF PackCurrent
    <2>3. CASE packs = {}
      <3>1. ~pack_inflight
        BY <2>3 DEF PackCurrent
      <3>2. CASE needs /\ ~load_progress'
        <4>1. Flush(needs, FALSE, {})
          BY <2>1, <2>3, <3>1, <3>2 DEF Flush, PackWanted
        <4> QED BY <4>1, <1>1
      <3>3. CASE ~(needs /\ ~load_progress')
        BY <2>1, <2>3, <3>1, <3>3 DEF Flush, PackWanted, PackCurrent
      <3> QED BY <3>2, <3>3
    <2> QED BY <2>2, <2>3
  <1>4. CASE \E k \in packs : Flush(needs_display_pack, FALSE, packs \ {k})
    <2>1. PICK k \in packs : Flush(needs_display_pack, FALSE, packs \ {k})
      BY <1>4
    <2>2. packs \ {k} = {}
      BY DEF PackCurrent
    <2>3. Flush(needs_display_pack, FALSE, {})
      BY <2>1, <2>2
    <2> QED BY <2>3, <1>1
  <1> QED BY <1>2, <1>3, <1>4, PackSteps

\* The generation test of DisplayPacked never drops a result.
THEOREM PacksCurrent == Spec => []PackCurrent
  <1>1. Init => PackCurrent
    BY DEF Init, PackCurrent
  <1> QED BY <1>1, PackNext, PTL DEF Spec


-----------------------------------------------------------------------------
\* The loading overlay.

\* Loads keep their slot and generation until they are answered.
LEMMA OverlaySteps ==
  ASSUME TypeOK, [Next]_vars
  PROVE  \/ ~load_progress'
         \/ /\ load_gen' = load_gen
            /\ \A t \in Tasks : IsLoad(job[t]) => /\ IsLoad(job'[t])
                                                  /\ job'[t].gen = job[t].gen
            /\ \/ load_progress
               \/ \E t \in Tasks : IsLoad(job[t]) /\ job[t].gen = load_gen
         \/ \E t \in Tasks : IsLoad(job'[t]) /\ job'[t].gen = load_gen'
  <1> DEFINE Keeps == /\ load_gen' = load_gen
                      /\ load_progress' = load_progress
                      /\ \A t \in Tasks :
                           IsLoad(job[t]) => /\ IsLoad(job'[t])
                                             /\ job'[t].gen = job[t].gen
  <1>0. job \in [Tasks -> Jobs] /\ load_progress \in BOOLEAN
    BY DEF TypeOK
  <1>1. ASSUME NEW j, NEW t \in Tasks, job' = [job EXCEPT ![t] = j],
               load_gen' = load_gen, load_progress' = load_progress,
               ~IsLoad(job[t]) \/ (IsLoad(j) /\ j.gen = job[t].gen)
        PROVE  Keeps
    BY <1>0, <1>1
  <1>2. CASE Requests
    <2>1. CASE Opens
      <3>1. PICK f, settings : BeginOpen(f, settings)
        BY <2>1 DEF Opens, OpenRecent, FileDropped, Calibration
      <3>2. CASE busy
        BY <3>1, <3>2 DEF BeginOpen, load
      <3>3. CASE ~busy
        <4>1. PICK t \in FreeTasks :
                  job' = [job EXCEPT ![t] = LoadJob(load_gen', f)]
          BY <3>1, <3>3 DEF BeginOpen
        <4>2. t \in Tasks /\ job'[t] = LoadJob(load_gen', f)
          BY <1>0, <4>1 DEF FreeTasks
        <4> QED BY <4>2 DEF LoadJob, IsLoad
      <3> QED BY <3>2, <3>3
    <2>2. CASE NewProject
      BY <2>2 DEF NewProject, EmptyProject
    <2>3. ASSUME NEW jobs, job = jobs, NEW idle, SliceCurrent(jobs, idle),
                 load_gen' = load_gen, load_progress' = load_progress
          PROVE  Keeps
      BY <1>0, <2>3, <1>1 DEF SliceCurrent, Idle, IsLoad
    <2>4. CASE Slice \/ \E w \in Workspaces : EnterWorkspace(w)
      BY <2>3, <2>4 DEF Slice, EnterWorkspace, load
    <2>5. CASE Saves
      BY <1>1, <2>5 DEF Saves, SaveProject, ProjectPicked, WriteProjectTo,
                        FreeTasks, Idle, IsLoad, load
    <2>6. CASE StartOther
      BY <1>1, <2>6 DEF StartOther, FreeTasks, Idle, IsLoad, load
    <2>7. CASE Edits \/ \E all \in BOOLEAN : ChooseSliceAll(all)
      BY <2>7 DEF Edits, EditModel, Drag, DragEnd, SetPlate, ChooseSliceAll, load
    <2> QED BY <1>2, <2>1, <2>2, <2>4, <2>5, <2>6, <2>7 DEF Requests
  <1>3. CASE Background
    <2>1. ASSUME NEW t \in Tasks,
                 \/ SaveWorker(t) \/ ProjectSaved(t) \/ SliceFailed(t)
                 \/ OtherDone(t)
          PROVE  Keeps
      BY <1>1, <2>1 DEF SaveWorker, ProjectSaved, SliceFailed, OtherDone,
                        IsLoad, load
    <2>2. ASSUME NEW t \in Tasks, LoadWorker(t)
          PROVE  Keeps
      <3>1. PICK r : job' = [job EXCEPT ![t] =
                               Loaded(job[t].gen, job[t].path, r)]
        BY <2>2 DEF LoadWorker
      <3>2. /\ IsLoad(Loaded(job[t].gen, job[t].path, r))
            /\ Loaded(job[t].gen, job[t].path, r).gen = job[t].gen
        BY DEF IsLoad, Loaded
      <3> QED BY <1>1, <2>2, <3>1, <3>2 DEF LoadWorker, load
    <2>3. ASSUME NEW t \in Tasks, LoadProgress(t)
          PROVE  \/ ~load_progress'
                 \/ /\ load_gen' = load_gen /\ job' = job
                    /\ \/ load_progress
                       \/ \E u \in Tasks : IsLoad(job[u]) /\ job[u].gen = load_gen
      BY <2>3 DEF LoadProgress, NewestGen
    <2>4. ASSUME NEW t \in Tasks, ModelLoaded(t) \/ LoadFailed(t)
          PROVE  ~load_progress'
      BY <2>4 DEF ModelLoaded, LoadFailed
    <2>5. ASSUME NEW t \in Tasks, Sliced(t)
          PROVE  Keeps
      <3>1. /\ load_gen' = load_gen /\ load_progress' = load_progress
            /\ ~IsLoad(job[t])
        BY <2>5 DEF Sliced, load, IsLoad
      <3> DEFINE jobs == [job EXCEPT ![t] = Idle]
      <3>2. job' = jobs \/ \E u \in Tasks : \E x :
                /\ jobs[u] = Idle /\ job' = [jobs EXCEPT ![u] = SliceJob(x)]
        BY <2>5, Zenon DEF Sliced, SliceCurrent
      <3>3. CASE job' = jobs
        BY <1>1, <3>1, <3>3
      <3>4. ASSUME NEW u \in Tasks, NEW x, jobs[u] = Idle,
                   job' = [jobs EXCEPT ![u] = SliceJob(x)]
            PROVE  Keeps
        <4>1. ~IsLoad(job[u])
          BY <1>0, <3>1, <3>4 DEF IsLoad, Idle
        <4> QED BY <1>0, <3>1, <3>4, <4>1
      <3> QED BY <3>2, <3>3, <3>4
    <2>6. CASE OtherMessage \/ \E k \in packs : DisplayPacked(k)
      BY <2>6 DEF OtherMessage, DisplayPacked, load
    <2> QED BY <1>0, <1>3, <2>1, <2>2, <2>3, <2>4, <2>5, <2>6
            DEF Background, Workers, Results
  <1>4. CASE UNCHANGED vars
    BY <1>4 DEF vars, load
  <1> QED BY <1>2, <1>3, <1>4 DEF Next

\* The overlay belongs to the newest load, which is still to answer.
THEOREM OverlayIsBacked == Spec => []OverlayBacked
  <1>1. Init => OverlayBacked
    BY DEF Init, OverlayBacked
  <1>2. TypeOK /\ OverlayBacked /\ [Next]_vars => OverlayBacked'
    BY OverlaySteps DEF OverlayBacked, IsLoad
  <1> QED BY <1>1, <1>2, TypeCorrect, PTL DEF Spec


-----------------------------------------------------------------------------
\* The busy flag.

\* Admitting a job while the flag is down, ending the admitted job, and
\* touching other slots all keep the flag exclusive.
LEMMA ExclusiveMoves ==
  ASSUME TypeOK, Exclusive, NEW t \in Tasks, NEW j, job' = [job EXCEPT ![t] = j],
         \/ ~busy /\ HoldsBusy(j) /\ busy' = TRUE
         \/ HoldsBusy(job[t]) /\ ~HoldsBusy(j) /\ busy' = FALSE
         \/ (HoldsBusy(job[t]) <=> HoldsBusy(j)) /\ busy' = busy
  PROVE  Exclusive'
  <1>1. job \in [Tasks -> Jobs] /\ busy \in BOOLEAN
    BY DEF TypeOK
  <1>2. /\ job'[t] = j
        /\ \A u \in Tasks : u # t => job'[u] = job[u]
    BY <1>1
  <1>3. CASE ~busy /\ HoldsBusy(j) /\ busy' = TRUE
    <2>1. \A u \in Tasks : ~HoldsBusy(job[u])
      BY <1>3 DEF Exclusive
    <2> QED BY <1>2, <1>3, <2>1 DEF Exclusive
  <1>4. CASE HoldsBusy(job[t]) /\ ~HoldsBusy(j) /\ busy' = FALSE
    <2>1. \A u \in Tasks : u # t => ~HoldsBusy(job[u])
      BY <1>4 DEF Exclusive
    <2> QED BY <1>2, <1>4, <2>1 DEF Exclusive
  <1>5. CASE (HoldsBusy(job[t]) <=> HoldsBusy(j)) /\ busy' = busy
    <2>1. \A u \in Tasks : HoldsBusy(job'[u]) <=> HoldsBusy(job[u])
      BY <1>2, <1>5
    <2> QED BY <1>5, <2>1 DEF Exclusive
  <1> QED BY <1>3, <1>4, <1>5

\* The kinds of jobs begin_work admits, and those it does not.
LEMMA Kinds ==
  /\ ~HoldsBusy(Idle) /\ HoldsBusy(OtherJob)
  /\ \A g, f : HoldsBusy(LoadJob(g, f))
  /\ \A g, f, r : HoldsBusy(Loaded(g, f, r))
  /\ \A x : HoldsBusy(SliceJob(x))
  /\ \A f, c : ~HoldsBusy(SaveJob(f, c)) /\ ~HoldsBusy(Saved(f, c))
  BY DEF HoldsBusy, IsLoad, Idle, OtherJob, LoadJob, Loaded, SliceJob, SaveJob,
         Saved

LEMMA ExclusiveNext ==
  ASSUME TypeOK, Exclusive, [Next]_vars
  PROVE  Exclusive' \/ \E t \in Tasks : ProjectSaved(t)
  <1>0. ASSUME job' = job, busy' = busy
        PROVE  Exclusive'
    BY <1>0 DEF Exclusive
  <1>1. ASSUME NEW idle \in BOOLEAN, SliceCurrent(job, idle), idle => ~busy,
               ~idle => busy = TRUE
        PROVE  Exclusive'
    <2>1. CASE idle
      <3>1. PICK t \in Tasks :
                job' = [job EXCEPT ![t] = SliceJob(SliceInput(model, plate'))]
        BY <1>1, <2>1 DEF SliceCurrent
      <3>2. ~busy /\ busy' = TRUE
        BY <1>1, <2>1 DEF SliceCurrent
      <3> QED BY <3>1, <3>2, Kinds, ExclusiveMoves
    <2>2. CASE ~idle
      BY <1>0, <1>1, <2>2 DEF SliceCurrent
    <2> QED BY <2>1, <2>2
  <1>2. ASSUME NEW t \in Tasks, NEW j, job[t] = Idle,
               job' = [job EXCEPT ![t] = j],
               \/ ~busy /\ HoldsBusy(j) /\ busy' = TRUE
               \/ ~HoldsBusy(j) /\ busy' = busy
        PROVE  Exclusive'
    BY <1>2, Kinds, ExclusiveMoves
  <1>3. CASE Requests
    <2>1. CASE Opens
      <3>1. PICK f, settings : BeginOpen(f, settings)
        BY <2>1 DEF Opens, OpenRecent, FileDropped, Calibration
      <3>2. CASE busy
        BY <1>0, <3>1, <3>2 DEF BeginOpen
      <3>3. CASE ~busy
        <4>1. PICK t \in Tasks : /\ job[t] = Idle /\ busy' = TRUE
                                 /\ job' = [job EXCEPT ![t] = LoadJob(load_gen', f)]
          BY <3>1, <3>3 DEF BeginOpen, FreeTasks
        <4> QED BY <1>2, <3>3, <4>1, Kinds
      <3> QED BY <3>2, <3>3
    <2>2. CASE NewProject \/ Edits \/ \E all \in BOOLEAN : ChooseSliceAll(all)
      BY <1>0, <2>2 DEF NewProject, EmptyProject, Edits, EditModel, Drag, DragEnd,
                        SetPlate,
                        ChooseSliceAll
    <2>3. CASE Saves
      <3>1. PICK f : WriteProjectTo(f)
        BY <2>3 DEF Saves, SaveProject, ProjectPicked
      <3>2. PICK t \in Tasks : /\ job[t] = Idle /\ busy' = busy
                               /\ job' = [job EXCEPT ![t] = SaveJob(f, model)]
        BY <3>1 DEF WriteProjectTo, FreeTasks
      <3> QED BY <1>2, <3>2, Kinds
    <2>4. CASE Slice
      <3>1. SliceCurrent(job, ~busy) /\ (~busy) \in BOOLEAN /\ busy \in BOOLEAN
        BY <2>4 DEF Slice, TypeOK
      <3> QED BY <1>1, <3>1
    <2>5. CASE \E w \in Workspaces : EnterWorkspace(w)
      <3>1. PICK w \in Workspaces : EnterWorkspace(w)
        BY <2>5
      <3>2. CASE ~busy /\ SliceCurrent(job, TRUE)
        BY <1>1, <3>2
      <3>3. CASE UNCHANGED <<busy, job>>
        BY <1>0, <3>3
      <3> QED BY <3>1, <3>2, <3>3 DEF EnterWorkspace
    <2>6. CASE StartOther
      <3>1. PICK t \in Tasks : /\ job[t] = Idle /\ ~busy /\ busy' = TRUE
                               /\ job' = [job EXCEPT ![t] = OtherJob]
        BY <2>6 DEF StartOther, FreeTasks
      <3> QED BY <1>2, <3>1, Kinds
    <2> QED BY <1>3, <2>1, <2>2, <2>3, <2>4, <2>5, <2>6 DEF Requests
  <1>4. CASE Background
    <2>1. CASE OtherMessage \/ \E k \in packs : DisplayPacked(k)
      BY <1>0, <2>1 DEF OtherMessage, DisplayPacked
    <2>2. ASSUME NEW t \in Tasks, Workers(t) \/ LoadProgress(t)
          PROVE  Exclusive'
      <3>1. CASE LoadWorker(t)
        <4>1. PICK r : job' = [job EXCEPT ![t] =
                                 Loaded(job[t].gen, job[t].path, r)]
          BY <3>1 DEF LoadWorker
        <4>2. HoldsBusy(job[t]) /\ busy' = busy
          BY <3>1 DEF LoadWorker, HoldsBusy, IsLoad
        <4> QED BY <4>1, <4>2, Kinds, ExclusiveMoves
      <3>2. CASE SaveWorker(t)
        <4>1. PICK ok : job' = [job EXCEPT ![t] = Saved(job[t].path, ok)]
          BY <3>2 DEF SaveWorker
        <4>2. ~HoldsBusy(job[t]) /\ busy' = busy
          BY <3>2 DEF SaveWorker, HoldsBusy, IsLoad
        <4> QED BY <4>1, <4>2, Kinds, ExclusiveMoves
      <3>3. CASE LoadProgress(t)
        BY <1>0, <3>3 DEF LoadProgress
      <3> QED BY <2>2, <3>1, <3>2, <3>3 DEF Workers
    <2>3. ASSUME NEW t \in Tasks,
                 \/ ModelLoaded(t) \/ LoadFailed(t) \/ SliceFailed(t)
                 \/ OtherDone(t)
          PROVE  Exclusive'
      <3>1. HoldsBusy(job[t]) /\ job' = [job EXCEPT ![t] = Idle] /\ busy' = FALSE
        BY <2>3 DEF ModelLoaded, LoadFailed, SliceFailed, OtherDone, HoldsBusy,
                    IsLoad
      <3> QED BY <3>1, Kinds, ExclusiveMoves
    <2>4. ASSUME NEW t \in Tasks, Sliced(t)
          PROVE  Exclusive'
      <3> DEFINE jobs == [job EXCEPT ![t] = Idle]
      <3>1. HoldsBusy(job[t])
        BY <2>4 DEF Sliced, HoldsBusy
      <3>2. \A u \in Tasks : u # t => ~HoldsBusy(job[u])
        BY <3>1 DEF Exclusive
      <3>3. \/ job' = jobs /\ busy' = FALSE
            \/ /\ busy' = TRUE
               /\ \E u \in Tasks : \E x : job' = [jobs EXCEPT ![u] = SliceJob(x)]
        BY <2>4, Zenon DEF Sliced, SliceCurrent
      <3>4. CASE job' = jobs /\ busy' = FALSE
        BY <3>1, <3>4, Kinds, ExclusiveMoves
      <3>5. CASE /\ busy' = TRUE
                 /\ \E u \in Tasks : \E x : job' = [jobs EXCEPT ![u] = SliceJob(x)]
        <4>0. PICK u \in Tasks : \E x : job' = [jobs EXCEPT ![u] = SliceJob(x)]
          BY <3>5
        <4>1. PICK x : job' = [jobs EXCEPT ![u] = SliceJob(x)]
          BY <4>0
        <4>2. /\ job'[u] = SliceJob(x)
              /\ \A v \in Tasks \ {u} : job'[v] = jobs[v]
          BY <4>1 DEF TypeOK
        <4>3. \A v \in Tasks : ~HoldsBusy(jobs[v])
          BY <3>2, Kinds DEF TypeOK
        <4> QED BY <3>5, <4>2, <4>3, Kinds DEF Exclusive
      <3> QED BY <3>3, <3>4, <3>5
    <2> QED BY <1>4, <2>1, <2>2, <2>3, <2>4 DEF Background, Results
  <1>5. CASE UNCHANGED vars
    BY <1>0, <1>5 DEF vars
  <1> QED BY <1>3, <1>4, <1>5 DEF Next

\* The mutual exclusion of begin_work is lost by nothing but a save's answer.
THEOREM ExclusiveOnlyLostBySaving == Spec => ExclusiveLostOnlyBySaving
  <1>1. TypeOK /\ [Next]_vars
        => [Exclusive /\ ~Exclusive' => \E t \in Tasks : ProjectSaved(t)]_vars
    BY ExclusiveNext
  <1> QED BY <1>1, TypeCorrect, PTL DEF Spec, ExclusiveLostOnlyBySaving


-----------------------------------------------------------------------------
\* The viewport.

\* A flush that is asked for shows, packs or goes on owing the new plate.
LEMMA FlushNeeded ==
  ASSUME NEW inflight, NEW left, Flush(TRUE, inflight, left)
  PROVE  ViewCurrent'
  <1> DEFINE k == [gen |-> pack_gen', shape |-> Shape(model', plate')]
  <1>1. CASE ~inflight /\ ~load_progress'
    <2>1. k \in packs' /\ k.shape = Shape(model', plate')
      BY <1>1 DEF Flush, PackWanted
    <2> QED BY <2>1 DEF ViewCurrent, Shape
  <1>2. CASE ~(~inflight /\ ~load_progress')
    BY <1>2 DEF Flush, PackWanted, ViewCurrent
  <1> QED BY <1>1, <1>2

\* A handler that changes nothing the view depends on keeps it current
\* through the closing flush.
LEMMA FlushPendingKeeps ==
  ASSUME TypeOK, PackCurrent, ViewCurrent, FlushPending,
         UNCHANGED <<model, plate, shown, dragging>>,
         load_progress => load_progress'
  PROVE  ViewCurrent'
  <1>1. CASE needs_display_pack
    <2>1. Flush(TRUE, pack_inflight, packs)
      BY <1>1 DEF FlushPending, TypeOK
    <2> QED BY <2>1, FlushNeeded
  <1>2. CASE ~needs_display_pack
    BY <1>2 DEF FlushPending, Flush, PackWanted, ViewCurrent, Shape
  <1> QED BY <1>1, <1>2

LEMMA ViewNext ==
  ASSUME TypeOK, PackCurrent, ViewCurrent, [Next]_vars
  PROVE  \/ ViewCurrent'
         \/ pack_inflight /\ (NewProject \/ \E t \in Tasks : ModelLoaded(t))
  <1>0. ASSUME UNCHANGED <<model, plate, shown, load_progress, pack, dragging>>
        PROVE  ViewCurrent'
    BY <1>0 DEF ViewCurrent, pack, Shape
  <1>1. CASE Requests
    <2>1. CASE Opens
      <3>1. PICK f, settings : BeginOpen(f, settings)
        BY <2>1 DEF Opens, OpenRecent, FileDropped, Calibration
      <3>2. CASE busy
        BY <1>0, <3>1, <3>2 DEF BeginOpen, load
      <3>3. CASE ~busy
        BY <3>1, <3>3 DEF BeginOpen, ViewCurrent
      <3> QED BY <3>2, <3>3
    <2>2. CASE NewProject
      <3>1. CASE ~pack_inflight
        <4>1. packs' = {} /\ shown' = Empty /\ model'.doc = Untitled
          BY <2>2, <3>1 DEF NewProject, EmptyProject, PackCurrent, ShowShape, pack
        <4> QED BY <4>1 DEF ViewCurrent, Shape
      <3> QED BY <2>2, <3>1
    <2>3. CASE Saves \/ StartOther
      BY <1>0, <2>3 DEF Saves, SaveProject, ProjectPicked, WriteProjectTo,
                        StartOther, doc, view, load
    <2>4. CASE Edits
      <3>1. CASE EditModel \/ DragEnd
        BY <3>1, FlushNeeded DEF EditModel, DragEnd
      <3>2. CASE Drag
        BY <3>2 DEF Drag, ViewCurrent
      <3>3. CASE \E p \in 0 .. PlateCount(model) - 1 : SetPlate(p)
        BY <3>3, FlushNeeded DEF SetPlate
      <3> QED BY <2>4, <3>1, <3>2, <3>3 DEF Edits
    <2>5. CASE Slice
      <3>1. CASE slice_all
        BY <2>5, <3>1 DEF Slice, ViewCurrent
      <3>2. CASE ~slice_all
        BY <1>0, <2>5, <3>2 DEF Slice, load, view, pack
      <3> QED BY <3>1, <3>2
    <2>6. CASE \E all \in BOOLEAN : ChooseSliceAll(all)
      BY <2>6, FlushPendingKeeps DEF ChooseSliceAll, doc, view, load
    <2>7. CASE \E w \in Workspaces : EnterWorkspace(w)
      <3>1. PICK w \in Workspaces : EnterWorkspace(w)
        BY <2>7
      <3>2. UNCHANGED <<model, plate, shown, dragging, load_progress>>
        BY <3>1 DEF EnterWorkspace, doc, load
      <3>3. CASE FlushPending
        BY <3>2, <3>3, FlushPendingKeeps
      <3>4. CASE UNCHANGED pack
        BY <1>0, <3>2, <3>4
      <3> QED BY <3>1, <3>3, <3>4 DEF EnterWorkspace
    <2> QED BY <1>1, <2>1, <2>2, <2>3, <2>4, <2>5, <2>6, <2>7 DEF Requests
  <1>2. CASE Background
    <2>1. CASE OtherMessage
      BY <2>1, FlushPendingKeeps DEF OtherMessage, doc, view, load
    <2>2. ASSUME NEW t \in Tasks, Workers(t)
          PROVE  ViewCurrent'
      BY <1>0, <2>2 DEF Workers, LoadWorker, SaveWorker, doc, view, load
    <2>3. ASSUME NEW t \in Tasks, LoadProgress(t)
          PROVE  ViewCurrent'
      BY <2>3, FlushPendingKeeps DEF LoadProgress, doc, view
    <2>4. ASSUME NEW t \in Tasks, ModelLoaded(t), ~pack_inflight
          PROVE  ViewCurrent'
      <3>1. packs' = {} /\ shown' = Shape(model', plate')
        BY <2>4 DEF ModelLoaded, PackCurrent, ShowShape
      <3> QED BY <3>1 DEF ViewCurrent, Shape
    <2>5. ASSUME NEW t \in Tasks, LoadFailed(t)
          PROVE  ViewCurrent'
      BY <2>5, FlushNeeded DEF LoadFailed
    <2>6. ASSUME NEW t \in Tasks,
                 ProjectSaved(t) \/ SliceFailed(t) \/ OtherDone(t)
          PROVE  ViewCurrent'
      BY <2>6, FlushPendingKeeps
         DEF ProjectSaved, SliceFailed, OtherDone, doc, view, load
    <2>7. ASSUME NEW t \in Tasks, Sliced(t)
          PROVE  ViewCurrent'
      <3>1. UNCHANGED <<model, shown, load_progress, pack_inflight, pack_gen,
                        packs, dragging>>
        BY <2>7 DEF Sliced, load
      <3>2. needs_display_pack' \/ UNCHANGED <<plate, needs_display_pack>>
        BY <2>7, Zenon DEF Sliced
      <3>3. CASE needs_display_pack'
        BY <3>3 DEF ViewCurrent
      <3>4. CASE UNCHANGED <<plate, needs_display_pack>>
        BY <1>0, <3>1, <3>4 DEF pack
      <3> QED BY <3>2, <3>3, <3>4
    <2>8. ASSUME NEW k \in packs, DisplayPacked(k)
          PROVE  ViewCurrent'
      <3>1. /\ packs = {k} /\ k.gen = pack_gen
            /\ Flush(needs_display_pack, FALSE, {})
        BY <2>8 DEF DisplayPacked, PackCurrent
      <3>2. /\ shown' = k.shape
            /\ UNCHANGED <<model, plate, load_progress, dragging>>
        BY <2>8, <3>1 DEF DisplayPacked, ShowShape, doc, load
      <3>3. CASE needs_display_pack
        <4>1. Flush(TRUE, FALSE, {})
          BY <3>1, <3>3 DEF TypeOK
        <4> QED BY <4>1, FlushNeeded
      <3>4. CASE ~needs_display_pack
        <4>1. packs' = {}
          BY <3>1, <3>4 DEF Flush, PackWanted
        <4>2. load_progress \/ dragging \/ k.shape = Shape(model, plate)
          BY <3>1, <3>4 DEF ViewCurrent
        <4> QED BY <3>2, <4>1, <4>2 DEF ViewCurrent, Shape
      <3> QED BY <3>3, <3>4
    <2> QED BY <1>2, <2>1, <2>2, <2>3, <2>4, <2>5, <2>6, <2>7, <2>8
            DEF Background, Results
  <1>3. CASE UNCHANGED vars
    BY <1>0, <1>3 DEF vars, doc, view, load
  <1> QED BY <1>1, <1>2, <1>3 DEF Next

\* Only replacing the document under a pack in flight leaves a wrong view.
THEOREM ViewOnlyLostByReplacement == Spec => ViewLostOnlyByReplacement
  <1>1. TypeOK /\ PackCurrent /\ [Next]_vars
        => [ViewCurrent /\ ~ViewCurrent'
              => pack_inflight /\ (NewProject \/ \E t \in Tasks : ModelLoaded(t))]_vars
    BY ViewNext
  <1> QED BY <1>1, TypeCorrect, PacksCurrent, PTL
          DEF Spec, ViewLostOnlyByReplacement

-----------------------------------------------------------------------------
\* The G-code and the project file.

\* Which steps replace the document, the G-code, the project file or a file.
LEMMA DocumentSteps ==
  ASSUME [Next]_vars
  PROVE  \/ NewProject \/ EditModel \/ Drag \/ Opens
         \/ \E t \in Tasks : \/ ModelLoaded(t) \/ Sliced(t) \/ SaveWorker(t)
                             \/ ProjectSaved(t)
         \/ UNCHANGED <<model, last_gcode, project_file, disk>>
  <1>1. CASE Requests
    BY <1>1 DEF Requests, Saves, SaveProject, ProjectPicked, WriteProjectTo,
       Edits, DragEnd, SetPlate, Slice, StartOther, ChooseSliceAll,
       EnterWorkspace, doc
  <1>2. CASE Background
    BY <1>2 DEF Background, OtherMessage, Workers, LoadWorker, LoadProgress,
       Results, LoadFailed, SliceFailed, OtherDone, DisplayPacked, doc
  <1>3. CASE UNCHANGED vars
    BY <1>3 DEF vars, doc
  <1> QED BY <1>1, <1>2, <1>3 DEF Next

LEMMA EditKeepsDocument ==
  ASSUME TypeOK, EditModel \/ Drag
  PROVE  model'.doc = model.doc /\ UNCHANGED <<last_gcode, project_file, disk>>
  <1>1. model' = Touch(model) /\ model \in Contents
    BY DEF EditModel, Drag, TypeOK
  <1>2. model'.doc = model.doc
    BY <1>1 DEF Touch, Contents
  <1> QED BY <1>2 DEF EditModel, Drag

LEMMA GcodeNext ==
  ASSUME TypeOK, GcodeOfDocument, [Next]_vars
  PROVE  \/ GcodeOfDocument'
         \/ \E t \in Tasks : \/ ModelLoaded(t)
                             \/ Sliced(t) /\ job[t].input.doc # model.doc
  <1>1. CASE NewProject
    BY <1>1, NoShapeAssumption DEF NewProject, EmptyProject, GcodeOfDocument, Shapes
  <1>2. CASE EditModel \/ Drag
    BY <1>2, EditKeepsDocument DEF GcodeOfDocument, Shapes
  <1>3. CASE Opens
    BY <1>3 DEF Opens, OpenRecent, FileDropped, Calibration, BeginOpen,
       GcodeOfDocument, Shapes
  <1>4. ASSUME NEW t \in Tasks, Sliced(t), job[t].input.doc = model.doc
        PROVE  GcodeOfDocument'
    BY <1>4 DEF Sliced, GcodeOfDocument, Shapes
  <1>5. ASSUME NEW t \in Tasks, SaveWorker(t) \/ ProjectSaved(t)
        PROVE  GcodeOfDocument'
    BY <1>5 DEF SaveWorker, ProjectSaved, GcodeOfDocument, Shapes, doc
  <1>6. CASE UNCHANGED <<model, last_gcode, project_file, disk>>
    BY <1>6 DEF GcodeOfDocument, Shapes
  <1> QED BY <1>1, <1>2, <1>3, <1>4, <1>5, <1>6, DocumentSteps

\* Only a load, or an older document's slice, leaves Send with foreign G-code.
THEOREM GcodeOnlyLostByReplacement == Spec => GcodeLostOnlyByReplacement
  <1>1. TypeOK /\ [Next]_vars
        => [GcodeOfDocument /\ ~GcodeOfDocument'
              => \E t \in Tasks : \/ ModelLoaded(t)
                                  \/ Sliced(t) /\ job[t].input.doc # model.doc]_vars
    BY GcodeNext
  <1> QED BY <1>1, TypeCorrect, PTL DEF Spec, GcodeLostOnlyByReplacement

LEMMA FileNext ==
  ASSUME TypeOK, FileOfDocument, [Next]_vars
  PROVE  \/ FileOfDocument'
         \/ Opens
         \/ \E t \in Tasks :
              \/ ModelLoaded(t)
              \/ SaveWorker(t) /\ job[t].content.doc # model.doc
              \/ ProjectSaved(t) /\ disk[job[t].path].doc # model.doc
  <1>1. CASE NewProject
    BY <1>1 DEF NewProject, EmptyProject, FileOfDocument
  <1>2. CASE EditModel \/ Drag
    BY <1>2, EditKeepsDocument DEF FileOfDocument
  <1>3. ASSUME NEW t \in Tasks, Sliced(t)
        PROVE  FileOfDocument'
    BY <1>3 DEF Sliced, FileOfDocument
  <1>4. ASSUME NEW t \in Tasks, SaveWorker(t), job[t].content.doc = model.doc
        PROVE  FileOfDocument'
    <2>1. \/ disk' = disk
          \/ disk' = [disk EXCEPT ![job[t].path] = job[t].content]
      BY <1>4 DEF SaveWorker
    <2>2. UNCHANGED <<model, project_file>>
      BY <1>4 DEF SaveWorker, doc
    <2>3. CASE project_file # None
      <3>1. project_file \in DOMAIN disk
        BY <2>3 DEF TypeOK, Files
      <3> QED BY <1>4, <2>1, <2>2, <3>1 DEF FileOfDocument
    <2> QED BY <2>2, <2>3 DEF FileOfDocument
  <1>5. ASSUME NEW t \in Tasks, ProjectSaved(t),
               disk[job[t].path].doc = model.doc
        PROVE  FileOfDocument'
    BY <1>5 DEF ProjectSaved, FileOfDocument
  <1>6. CASE UNCHANGED <<model, last_gcode, project_file, disk>>
    BY <1>6 DEF FileOfDocument
  <1> QED BY <1>1, <1>2, <1>3, <1>4, <1>5, <1>6, DocumentSteps

\* Only opening, loading or an older document's save misdirects SaveProject.
THEOREM FileOnlyLostByOpening == Spec => FileLostOnlyByOpening
  <1>1. TypeOK /\ [Next]_vars
        => [FileOfDocument /\ ~FileOfDocument'
              => \/ Opens
                 \/ \E t \in Tasks :
                      \/ ModelLoaded(t)
                      \/ SaveWorker(t) /\ job[t].content.doc # model.doc
                      \/ ProjectSaved(t) /\ disk[job[t].path].doc # model.doc]_vars
    BY FileNext
  <1> QED BY <1>1, TypeCorrect, PTL DEF Spec, FileLostOnlyByOpening

=============================================================================
