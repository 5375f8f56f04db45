------------------------ MODULE DatabaseBackupProofs ------------------------
(***************************************************************************)
(* Proofs about DatabaseBackup: its types, that a running execution has a   *)
(* job (Accounted), that what the table promises is in the stores           *)
(* (CopiesExist) and what it forgets is not (PurgedClean), and that         *)
(* retention leaves the newest backup (NewestKept).                         *)
(***************************************************************************)
EXTENDS DatabaseBackup, FiniteSetTheorems, TLAPS

Born(r)     == rows[r].state # "unborn"
AtRow(j)    == job[j].pc \in Work \ {"create"}
Removing(j) == job[j].pc \in {"remove", "mark"}

\* A job at work has an execution of its own, untouched so far; retention
\* handles only executions that have succeeded.
Progress ==
  \A j \in Jobs :
    /\ AtRow(j) => /\ Current(j) \in Ids /\ Born(Current(j))
                   /\ rows[Current(j)].status = "running"
                   /\ rows[Current(j)].deleted = {}
    /\ \A i \in Jobs \ {j} : AtRow(i) /\ AtRow(j) => Current(i) # Current(j)
    /\ job[j].pc \in Work => job[j].todo # <<>>
    /\ job[j].pc \in {"upload", "drop"} => job[j].setup.save_s3
    /\ job[j].uploaded => job[j].pc \in {"drop", "success"}
    /\ job[j].dropped => job[j].pc = "success"
    /\ ~Removing(j) => job[j].doomed = {}
    /\ \A r \in job[j].doomed : Born(r) /\ rows[r].status = "success"

\* Only a success has copies marked as deleted.
Marked == \A r \in Ids : Born(r) => /\ rows[r].deleted # {} => rows[r].status = "success"
                                    /\ rows[r].state = "purged" => Copyless(r)

\* A file in a store is that of some execution, even if that is forgotten.
Named == \A w \in Stores, f \in Files :
           copies[w][f] # "none" => \E r \in Ids : Born(r) /\ rows[r].file = f

Gone(r, w) == \/ copies[w][rows[r].file] = "none"
              \/ <<w, rows[r].file>> \in unremoved

Clean ==
  /\ \A r \in Ids : Born(r) /\ ~Shared(r) =>
       /\ \A w \in rows[r].deleted : Gone(r, w)
       /\ rows[r].status = "success" /\ rows[r].s3_uploaded = "null" => Gone(r, "s3")
  /\ \A j \in Jobs : job[j].pc = "mark" =>
       \A r \in job[j].doomed : Shared(r) \/ Gone(r, job[j].where)
  /\ \A j \in Jobs : AtRow(j) /\ ~Shared(Current(j)) =>
       /\ job[j].dropped => Gone(Current(j), "local")
       /\ job[j].pc \in {"dump", "measure", "upload"} \/ ~job[j].setup.save_s3
          => Gone(Current(j), "s3")

\* What the job has put into the stores is there until its user deletes it.
Delivered ==
  \A j \in Jobs : AtRow(j) /\ There(Current(j)) /\ ~Shared(Current(j)) =>
    /\ job[j].pc \in {"upload", "drop", "success"} /\ ~job[j].dropped
       => copies["local"][File(j)] # "none"
    /\ job[j].uploaded => copies["s3"][File(j)] # "none"

\* A backup that stays where retention removes older ones.
Stays(q) ==
  /\ rows[q].status = "success" /\ Born(q)
  /\ \/ \A i \in Jobs : job[i].where = "local" => q \notin job[i].doomed
     \/ Tied(q)
  /\ \/ copies["local"][rows[q].file] # "none"
     \/ rows[q].state = "deleted" \/ q \in cut \/ Tied(q)

Outlived(r) == Tied(r) \/ \E q \in Ids : Stays(q) /\ At(q) >= At(r)

Newest == \A j \in Jobs : job[j].where = "local" =>
            \A r \in job[j].doomed : Outlived(r)

-----------------------------------------------------------------------------
(* Types *)

LEMMA SetupTypes ==
  ASSUME NEW st \in Setups
  PROVE  /\ st.databases \in Seq(Names) /\ st.databases # <<>>
         /\ st.dump_all \in BOOLEAN /\ st.save_s3 \in BOOLEAN
         /\ st.disable_local \in BOOLEAN
         /\ st.keep \in [Stores -> [amount : Nat, days : Nat, storage : Nat]]
BY BackupAssumption

LEMMA StartType ==
  ASSUME NEW st \in Setups, NEW s3 \in BOOLEAN, NEW pc \in {"idle", "create"}
  PROVE  Start(st, s3, pc) \in Job
BY SetupTypes DEF Start, Job, Work, Stores

LEMMA FilesType == /\ \A n \in Names, t \in 0..MAX_TIME : <<n, t>> \in Files
                   /\ Files # {}
<1>1. <<"all", 0>> \in Files
  BY BackupAssumption DEF Files
<1>. QED BY <1>1 DEF Files

LEMMA UnbornType == Unborn \in Row
BY FilesType DEF Unborn, Row

LEMMA InitTyped == Init => TypeOK
<1> SUFFICES ASSUME Init PROVE TypeOK
  OBVIOUS
<1>1. setup \in Setups /\ storage \in BOOLEAN /\ now \in 0..MAX_TIME
  BY BackupAssumption DEF Init
<1>2. rows \in [Ids -> Row]
  BY UnbornType DEF Init
<1>3. copies \in [Stores -> [Files -> {"none", "part", "full"}]]
  BY DEF Init
<1>4. job \in [Jobs -> Job]
  BY <1>1, StartType DEF Init
<1>. QED BY <1>1, <1>2, <1>3, <1>4, BackupAssumption DEF Init, TypeOK

LEMMA SpendType ==
  ASSUME TypeOK, NEW k \in Bounded, Spend(k)
  PROVE  left' \in [Bounded -> Nat]
BY DEF Spend, TypeOK

\* What NextDatabase leaves a job with.
LEMMA NextDatabaseFields ==
  ASSUME TypeOK, NEW j \in Jobs, NEW ok \in BOOLEAN, NextDatabase(j, ok),
         job[j].todo # <<>>
  PROVE  /\ job' \in [Jobs -> Job]
         /\ \A i \in Jobs \ {j} : job'[i] = job[i]
         /\ job'[j].pc \in {"create", "list", "idle"}
         /\ job'[j].pc = "create" => job'[j].todo # <<>>
         /\ job'[j].uploaded = FALSE /\ job'[j].dropped = FALSE
         /\ job'[j].where \in {job[j].where, "local"}
         /\ job'[j].doomed \in {job[j].doomed, {}}
<1> DEFINE rest == Tail(job[j].todo)
           then == [job[j] EXCEPT !.todo = rest, !.row = NoRow, !.uploaded = FALSE,
                                  !.dropped = FALSE]
           next(pc) == [then EXCEPT !.pc = pc]
<1>1. job \in [Jobs -> Job] /\ job[j] \in Job /\ setup \in Setups
  BY DEF TypeOK
<1>2. rest \in Seq(Names)
  <2>1. job[j].todo \in Seq(Names)
    BY <1>1 DEF Job
  <2>. QED BY <2>1
<1>3. ASSUME NEW pc \in {"create", "list"}
      PROVE  /\ next(pc) \in Job /\ next(pc).pc = pc /\ next(pc).todo = rest
             /\ next(pc).uploaded = FALSE /\ next(pc).dropped = FALSE
             /\ next(pc).where = job[j].where /\ next(pc).doomed = job[j].doomed
  <2>. HIDE DEF rest
  <2>. QED BY <1>1, <1>2 DEF Job, Work, Retention
<1>4. /\ Idle \in Job /\ Idle.pc = "idle" /\ Idle.uploaded = FALSE
      /\ Idle.dropped = FALSE /\ Idle.where = "local" /\ Idle.doomed = {}
  <2>1. Idle \in Job
    BY <1>1, StartType DEF Idle
  <2>. QED BY <2>1 DEF Idle, Start
<1>5. \/ job' = [job EXCEPT ![j] = next("create")] /\ rest # <<>>
      \/ job' = [job EXCEPT ![j] = next("list")]
      \/ job' = [job EXCEPT ![j] = Idle]
  BY DEF NextDatabase
<1>. HIDE DEF rest, then, next
<1>6. PICK s \in Job :
        /\ job' = [job EXCEPT ![j] = s]
        /\ s.pc \in {"create", "list", "idle"} /\ (s.pc = "create" => s.todo # <<>>)
        /\ s.uploaded = FALSE /\ s.dropped = FALSE
        /\ s.where \in {job[j].where, "local"} /\ s.doomed \in {job[j].doomed, {}}
  BY <1>3, <1>4, <1>5
<1>. QED BY <1>1, <1>6

-----------------------------------------------------------------------------
(* What each step of a job does, field by field *)

Others(j) == \A i \in Jobs \ {j} : job'[i] = job[i]

\* What a step of job j that only moves on leaves as it was.
Carries(j) == /\ job' \in [Jobs -> Job] /\ Others(j)
              /\ job'[j].setup = job[j].setup /\ job'[j].todo = job[j].todo
              /\ job'[j].row = job[j].row /\ job'[j].where = job[j].where

LEMMA Basics ==
  ASSUME TypeOK
  PROVE  /\ rows \in [Ids -> Row] /\ job \in [Jobs -> Job]
         /\ copies \in [Stores -> [Files -> {"none", "part", "full"}]]
         /\ \A r \in Ids : rows[r] \in Row /\ rows[r].file \in Files
         /\ \A j \in Jobs : /\ job[j] \in Job /\ job[j].doomed \subseteq Ids
                            /\ job[j].where \in Stores
         /\ unremoved \subseteq Stores \X Files /\ cut \subseteq Ids
BY DEF TypeOK, Row, Job

LEMMA DispatchEffect ==
  ASSUME TypeOK, NEW j \in Jobs, Dispatch(j)
  PROVE  /\ job' \in [Jobs -> Job] /\ Others(j) /\ job[j].pc = "idle"
         /\ job'[j].pc = "create" /\ job'[j].todo # <<>> /\ job'[j].uploaded = FALSE
         /\ job'[j].dropped = FALSE /\ job'[j].doomed = {}
         /\ UNCHANGED <<setup, storage, now, rows, copies, left, cut, unremoved>>
<1> DEFINE s == Start(setup, storage, "create")
<1>1. setup \in Setups /\ storage \in BOOLEAN /\ job \in [Jobs -> Job]
  BY DEF TypeOK
<1>2. s \in Job
  BY <1>1, StartType
<1>3. /\ s.pc = "create" /\ s.todo # <<>> /\ s.uploaded = FALSE /\ s.dropped = FALSE
      /\ s.doomed = {}
  BY <1>1, SetupTypes DEF Start
<1>4. job' = [job EXCEPT ![j] = s] /\ job[j].pc = "idle"
  BY DEF Dispatch
<1>. HIDE DEF s
<1>. QED BY <1>1, <1>2, <1>3, <1>4 DEF Dispatch, Others

LEMMA CreateEffect ==
  ASSUME TypeOK, Progress, NEW j \in Jobs, Create(j)
  PROVE  \E r \in Ids :
           /\ rows[r].state = "unborn" /\ rows' \in [Ids -> Row]
           /\ rows'[r].state = "there" /\ rows'[r].status = "running"
           /\ rows'[r].deleted = {} /\ \A q \in Ids \ {r} : rows'[q] = rows[q]
           /\ job[j].pc = "create" /\ job' \in [Jobs -> Job] /\ Others(j)
           /\ job'[j].pc = "dump" /\ job'[j].row = r
           /\ job'[j].todo = job[j].todo /\ job'[j].setup = job[j].setup
           /\ job'[j].uploaded = job[j].uploaded /\ job'[j].dropped = job[j].dropped
           /\ job'[j].where = job[j].where /\ job'[j].doomed = job[j].doomed
           /\ now' \in 0..MAX_TIME /\ UNCHANGED <<setup, storage, copies, left, cut, unremoved>>
<1> DEFINE new == [Unborn EXCEPT !.state = "there", !.filename = TRUE,
                                 !.file = <<Name(j), now'>>]
<1>1. PICK r \in Ids :
        /\ rows[r].state = "unborn" /\ rows' = [rows EXCEPT ![r] = new]
        /\ job' = [job EXCEPT ![j].pc = "dump", ![j].row = r]
  BY DEF Create
<1>2. job[j].pc = "create" /\ job[j].todo \in Seq(Names) /\ job[j].todo # <<>>
  BY Basics DEF Create, Progress, Work, Job
<1>3. Name(j) \in Names
  <2>1. Head(job[j].todo) \in Names
    BY <1>2
  <2>. QED BY <2>1, BackupAssumption DEF Name
<1>4. now' \in 0..MAX_TIME
  BY BackupAssumption DEF Create, TypeOK
<1>5. new \in Row /\ new.state = "there" /\ new.status = "running" /\ new.deleted = {}
  <2>1. <<Name(j), now'>> \in Files
    BY <1>3, <1>4, FilesType
  <2>. QED BY <2>1, UnbornType DEF Unborn, Row
<1>. HIDE DEF new
<1>6. /\ rows' \in [Ids -> Row] /\ rows'[r] = new
      /\ \A q \in Ids \ {r} : rows'[q] = rows[q]
  BY <1>1, <1>5, Basics
<1>7. /\ job' \in [Jobs -> Job] /\ Others(j)
      /\ job'[j].pc = "dump" /\ job'[j].row = r
      /\ job'[j].todo = job[j].todo /\ job'[j].setup = job[j].setup
      /\ job'[j].uploaded = job[j].uploaded /\ job'[j].dropped = job[j].dropped
      /\ job'[j].where = job[j].where /\ job'[j].doomed = job[j].doomed
  <2> DEFINE s == [job[j] EXCEPT !.pc = "dump", !.row = r]
  <2>1. /\ s \in Job /\ s.pc = "dump" /\ s.row = r
        /\ s.todo = job[j].todo /\ s.setup = job[j].setup
        /\ s.uploaded = job[j].uploaded /\ s.dropped = job[j].dropped
        /\ s.where = job[j].where /\ s.doomed = job[j].doomed
    BY Basics DEF Job, Work
  <2>2. job' = [job EXCEPT ![j] = s]
    BY <1>1
  <2>. HIDE DEF s
  <2>. QED BY <2>1, <2>2, Basics DEF Others
<1>. QED BY <1>1, <1>2, <1>4, <1>5, <1>6, <1>7 DEF Create

\* A step that moves a job to another place in its code.
LEMMA GotoEffect ==
  ASSUME TypeOK, NEW j \in Jobs, NEW pc \in Work \cup Retention, Goto(j, pc)
  PROVE  /\ Carries(j) /\ job'[j].pc = pc /\ job'[j].uploaded = job[j].uploaded
         /\ job'[j].dropped = job[j].dropped /\ job'[j].doomed = job[j].doomed
<1> DEFINE s == [job[j] EXCEPT !.pc = pc]
<1>1. /\ s \in Job /\ s.pc = pc /\ s.uploaded = job[j].uploaded
      /\ s.dropped = job[j].dropped /\ s.doomed = job[j].doomed
      /\ s.setup = job[j].setup /\ s.todo = job[j].todo /\ s.row = job[j].row
      /\ s.where = job[j].where
  BY Basics DEF Job
<1>2. job' = [job EXCEPT ![j] = s]
  BY DEF Goto
<1>. HIDE DEF s
<1>. QED BY <1>1, <1>2, Basics DEF Carries, Others

\* The end of an execution: a success or a failure, and the job goes on to the
\* next database, to retention or to its end.
Ends(j) ==
  /\ AtRow(j) /\ Others(j) /\ job' \in [Jobs -> Job]
  /\ job'[j].pc \in {"create", "list", "idle"}
  /\ job'[j].pc = "create" => job'[j].todo # <<>>
  /\ job'[j].uploaded = FALSE /\ job'[j].dropped = FALSE /\ job'[j].doomed = {}
  /\ rows' \in [Ids -> Row] /\ \A q \in Ids \ {Current(j)} : rows'[q] = rows[q]
  /\ rows'[Current(j)].file = rows[Current(j)].file
  /\ rows'[Current(j)].state = rows[Current(j)].state
  /\ ~There(Current(j)) => rows'[Current(j)] = rows[Current(j)]

\* The case of a failure.
Fails(j) ==
  /\ Ends(j) /\ rows'[Current(j)].deleted = {}
  /\ There(Current(j)) => rows'[Current(j)].status = "failed"
  /\ ~There(Current(j)) => rows'[Current(j)].status = "running"

LEMMA LocalFailedEffect ==
  ASSUME TypeOK, Progress, NEW j \in Jobs, AtRow(j), LocalFailed(j)
  PROVE  Fails(j)
<1>1. /\ Current(j) \in Ids /\ job[j].todo # <<>> /\ job[j].doomed = {}
      /\ rows[Current(j)].status = "running" /\ rows[Current(j)].deleted = {}
  BY DEF Progress, AtRow, Removing, Work
<1>2. /\ NextDatabase(j, FALSE)
      /\ Update(j, [rows[Current(j)] EXCEPT !.status = "failed", !.filename = FALSE,
                                            !.s3_uploaded = "null"])
  BY DEF LocalFailed
<1>3. /\ rows' \in [Ids -> Row] /\ \A q \in Ids \ {Current(j)} : rows'[q] = rows[q]
      /\ rows'[Current(j)].file = rows[Current(j)].file
      /\ rows'[Current(j)].state = rows[Current(j)].state
      /\ rows'[Current(j)].deleted = rows[Current(j)].deleted
      /\ There(Current(j)) => rows'[Current(j)].status = "failed"
      /\ ~There(Current(j)) => rows'[Current(j)] = rows[Current(j)]
  BY <1>1, <1>2, Basics DEF Update, Row
<1>. QED BY <1>1, <1>2, <1>3, NextDatabaseFields DEF Fails, Ends, Others

\* A step within an execution: the table stays, and only the file of the
\* execution changes, if any.
Continues(j) ==
  /\ AtRow(j) /\ Carries(j) /\ UNCHANGED <<rows, cut>>
  /\ job'[j].pc \in {"measure", "upload", "drop", "success"}
  /\ job'[j].doomed = job[j].doomed
  /\ copies' \in [Stores -> [Files -> {"none", "part", "full"}]]
  /\ \A w \in Stores, f \in Files : f # File(j) => copies'[w][f] = copies[w][f]

\* The files are gone from store w, or the removal has missed them.
Removed(w, files) ==
  /\ copies' \in [Stores -> [Files -> {"none", "part", "full"}]]
  /\ unremoved' \subseteq Stores \X Files /\ unremoved \subseteq unremoved'
  /\ \A f \in files : copies'[w][f] = "none" \/ <<w, f>> \in unremoved'
  /\ \A v \in Stores, g \in Files :
       v # w \/ g \notin files => copies'[v][g] = copies[v][g]
  /\ \A v \in Stores, g \in Files :
       copies'[v][g] = copies[v][g] \/ copies'[v][g] = "none"

LEMMA RemoveEffect ==
  ASSUME TypeOK, NEW w \in Stores, NEW files \in SUBSET Files, NEW worked \in BOOLEAN,
         Remove(w, files, worked)
  PROVE  Removed(w, files)
<1>1. CASE worked
  <2> DEFINE gone == [f \in Files |-> IF f \in files THEN "none" ELSE copies[w][f]]
  <2>1. copies' = [copies EXCEPT ![w] = gone] /\ unremoved' = unremoved
    BY <1>1 DEF Remove
  <2>2. gone \in [Files -> {"none", "part", "full"}]
    BY Basics
  <2>3. \A f \in Files : gone[f] = IF f \in files THEN "none" ELSE copies[w][f]
    OBVIOUS
  <2>. HIDE DEF gone
  <2>. QED BY <2>1, <2>2, <2>3, Basics DEF Removed
<1>2. CASE ~worked
  BY <1>2, Basics DEF Remove, Removed
<1>. QED BY <1>1, <1>2

\* What the steps within an execution have in common.
Begun(j) == /\ Current(j) \in Ids /\ Born(Current(j)) /\ File(j) \in Files
            /\ rows[Current(j)].status = "running" /\ rows[Current(j)].deleted = {}
            /\ job[j].todo # <<>> /\ job[j].doomed = {}

LEMMA BegunAtRow ==
  ASSUME TypeOK, Progress, NEW j \in Jobs, AtRow(j)
  PROVE  Begun(j)
BY Basics DEF Begun, File, Progress, AtRow, Removing, Work

\* Job j goes on with its execution, the same as before.
Proceeds(j) == Continues(j) /\ job'[j].uploaded = job[j].uploaded
                            /\ job'[j].dropped = job[j].dropped

LEMMA ProceedEffect ==
  ASSUME TypeOK, NEW j \in Jobs, AtRow(j), UNCHANGED <<rows, cut>>,
         NEW pc \in {"measure", "upload", "drop", "success"}, Goto(j, pc),
         copies' \in [Stores -> [Files -> {"none", "part", "full"}]],
         \A w \in Stores, f \in Files : f # File(j) => copies'[w][f] = copies[w][f]
  PROVE  Proceeds(j) /\ job'[j].pc = pc
BY GotoEffect DEF Proceeds, Continues, Work

\* A dump leaves something in the local store, or nothing at all.
Dumped(j) ==
  /\ copies' \in [Stores -> [Files -> {"none", "part", "full"}]]
  /\ \A w \in Stores, f \in Files :
       \/ copies'[w][f] = copies[w][f]
       \/ w = "local" /\ f = File(j) /\ copies'[w][f] # "none"

LEMMA DumpEffect ==
  ASSUME TypeOK, Progress, NEW j \in Jobs, Dump(j)
  PROVE  /\ job[j].pc = "dump" /\ left' \in [Bounded -> Nat] /\ Dumped(j)
         /\ UNCHANGED <<setup, storage, now, cut, unremoved>>
         /\ (Proceeds(j) /\ job'[j].pc = "measure") \/ Fails(j)
<1>1. AtRow(j) /\ job[j].pc = "dump" /\ cut' = cut
  BY DEF Dump, AtRow, Work
<1>2. Begun(j)
  BY <1>1, BegunAtRow
<1>3. left' \in [Bounded -> Nat]
  BY SpendType DEF Dump, Bounded, TypeOK
<1>4. Dumped(j)
  <2>1. ASSUME NEW c \in {"full", "part"}, copies' = [copies EXCEPT !["local"][File(j)] = c]
        PROVE  Dumped(j)
    <3>1. "local" \in Stores /\ File(j) \in Files /\ c \in {"none", "part", "full"}
      BY <1>2 DEF Stores, Begun
    <3>2. /\ copies' \in [Stores -> [Files -> {"none", "part", "full"}]]
          /\ copies'["local"][File(j)] = c
          /\ \A v \in Stores, g \in Files :
               v # "local" \/ g # File(j) => copies'[v][g] = copies[v][g]
      BY <2>1, <3>1, Basics
    <3>. QED BY <3>2 DEF Dumped
  <2>2. CASE copies' = copies
    BY <2>2, Basics DEF Dumped
  <2>. QED BY <2>1, <2>2 DEF Dump
<1>5. ASSUME Goto(j, "measure"), UNCHANGED rows
      PROVE  Proceeds(j) /\ job'[j].pc = "measure"
  BY <1>1, <1>4, <1>5, ProceedEffect DEF Dumped
<1>6. ASSUME LocalFailed(j) PROVE Fails(j)
  BY <1>1, <1>6, LocalFailedEffect
<1>. QED BY <1>1, <1>3, <1>4, <1>5, <1>6 DEF Dump

LEMMA MeasureEffect ==
  ASSUME TypeOK, Progress, NEW j \in Jobs, Measure(j)
  PROVE  /\ job[j].pc = "measure" /\ left' \in [Bounded -> Nat]
         /\ UNCHANGED <<setup, storage, now, copies, cut, unremoved>>
         /\ \/ /\ Proceeds(j) /\ copies["local"][File(j)] # "none"
               /\ \/ job'[j].pc = "upload" /\ job[j].setup.save_s3
                  \/ job'[j].pc = "success" /\ ~job[j].setup.save_s3
            \/ Fails(j)
<1>1. AtRow(j) /\ job[j].pc = "measure" /\ UNCHANGED <<copies, cut>>
  BY DEF Measure, AtRow, Work
<1>2. left' \in [Bounded -> Nat]
  BY SpendType DEF Measure, Bounded, TypeOK
<1>3. ASSUME Goto(j, IF job[j].setup.save_s3 THEN "upload" ELSE "success"), UNCHANGED rows
      PROVE  /\ Proceeds(j)
             /\ \/ job'[j].pc = "upload" /\ job[j].setup.save_s3
                \/ job'[j].pc = "success" /\ ~job[j].setup.save_s3
  BY <1>1, <1>3, ProceedEffect, Basics
<1>4. ASSUME LocalFailed(j) PROVE Fails(j)
  BY <1>1, <1>4, LocalFailedEffect
<1>. QED BY <1>1, <1>2, <1>3, <1>4 DEF Measure

\* An upload copies the local file, which is there, or nothing; the job
\* believes that it did only if it did.
LEMMA UploadEffect ==
  ASSUME TypeOK, Progress, NEW j \in Jobs, Upload(j)
  PROVE  /\ job[j].pc = "upload" /\ Continues(j) /\ left' \in [Bounded -> Nat]
         /\ job'[j].dropped = job[j].dropped /\ job'[j].pc \in {"drop", "success"}
         /\ copies'["local"] = copies["local"]
         /\ \/ copies' = copies /\ job'[j].uploaded = FALSE
            \/ copies'["s3"][File(j)] # "none" /\ job'[j].uploaded \in BOOLEAN
         /\ UNCHANGED <<setup, storage, now, rows, cut, unremoved>>
<1> DEFINE done == IF job[j].setup.disable_local THEN "drop" ELSE "success"
<1>1. AtRow(j) /\ job[j].pc = "upload" /\ UNCHANGED <<rows, cut, setup, storage, now, unremoved>>
  BY DEF Upload, AtRow, Work
<1>2. Begun(j) /\ job[j].uploaded = FALSE
  <2>1. job[j].uploaded \in BOOLEAN /\ ~job[j].uploaded
    BY <1>1, Basics DEF Progress, Job
  <2>. QED BY <1>1, <2>1, BegunAtRow
<1>3. left' \in [Bounded -> Nat]
  BY SpendType DEF Upload, Bounded, TypeOK
<1>4. ASSUME NEW pc \in {"drop", "success"}, NEW u \in BOOLEAN,
             job' = [job EXCEPT ![j].pc = pc, ![j].uploaded = u]
      PROVE  /\ Carries(j) /\ job'[j].pc = pc /\ job'[j].uploaded = u
             /\ job'[j].dropped = job[j].dropped /\ job'[j].doomed = job[j].doomed
  <2> DEFINE s == [job[j] EXCEPT !.pc = pc, !.uploaded = u]
  <2>1. /\ s \in Job /\ s.pc = pc /\ s.uploaded = u /\ s.dropped = job[j].dropped
        /\ s.doomed = job[j].doomed /\ s.setup = job[j].setup /\ s.todo = job[j].todo
        /\ s.row = job[j].row /\ s.where = job[j].where
    BY Basics DEF Job, Work
  <2>2. job' = [job EXCEPT ![j] = s]
    BY <1>4
  <2>. HIDE DEF s
  <2>. QED BY <2>1, <2>2, Basics DEF Carries, Others
<1>5. ASSUME copies["local"][File(j)] # "none", Uploaded(j)
      PROVE  /\ copies' \in [Stores -> [Files -> {"none", "part", "full"}]]
             /\ copies'["s3"][File(j)] # "none" /\ copies'["local"] = copies["local"]
             /\ \A w \in Stores, f \in Files : f # File(j) => copies'[w][f] = copies[w][f]
  <2>1. "s3" \in Stores /\ "local" \in Stores
    BY DEF Stores
  <2>2. copies["local"][File(j)] \in {"none", "part", "full"}
    BY <1>2, <2>1, Basics DEF Begun
  <2>3. copies' = [copies EXCEPT !["s3"][File(j)] = copies["local"][File(j)]]
    BY <1>5 DEF Uploaded
  <2>4. copies'["local"] = copies["local"]
    BY <2>1, <2>3, Basics
  <2>5. File(j) \in Files
    BY <1>2 DEF Begun
  <2>6. /\ copies' \in [Stores -> [Files -> {"none", "part", "full"}]]
        /\ copies'["s3"][File(j)] = copies["local"][File(j)]
        /\ \A v \in Stores, g \in Files :
             v # "s3" \/ g # File(j) => copies'[v][g] = copies[v][g]
    BY <2>1, <2>2, <2>3, <2>5, Basics
  <2>. QED BY <1>5, <2>4, <2>6
<1>6. ASSUME NEW pc \in {"drop", "success"}, NEW u \in BOOLEAN,
             job' = [job EXCEPT ![j].pc = pc, ![j].uploaded = u],
             \/ copies' = copies /\ u = FALSE
             \/ copies["local"][File(j)] # "none" /\ Uploaded(j)
      PROVE  /\ Continues(j)
             /\ job'[j].dropped = job[j].dropped /\ job'[j].pc \in {"drop", "success"}
             /\ copies'["local"] = copies["local"]
             /\ \/ copies' = copies /\ job'[j].uploaded = FALSE
                \/ copies'["s3"][File(j)] # "none" /\ job'[j].uploaded \in BOOLEAN
  <2>1. /\ copies' \in [Stores -> [Files -> {"none", "part", "full"}]]
        /\ copies'["local"] = copies["local"]
        /\ copies' = copies \/ copies'["s3"][File(j)] # "none"
        /\ \A w \in Stores, f \in Files : f # File(j) => copies'[w][f] = copies[w][f]
    BY <1>5, <1>6, Basics
  <2>. QED BY <1>1, <1>4, <1>5, <1>6, <2>1 DEF Continues
<1>7. \E pc \in {"drop", "success"}, u \in BOOLEAN :
        /\ job' = [job EXCEPT ![j].pc = pc, ![j].uploaded = u]
        /\ \/ copies' = copies /\ u = FALSE
           \/ copies["local"][File(j)] # "none" /\ Uploaded(j)
  <2>1. done \in {"drop", "success"}
    OBVIOUS
  <2>2. ASSUME Goto(j, done) PROVE job' = [job EXCEPT ![j].pc = done, ![j].uploaded = FALSE]
    <3>1. [job[j] EXCEPT !.pc = done] = [job[j] EXCEPT !.pc = done, !.uploaded = FALSE]
      BY <1>2, Basics DEF Job
    <3>. QED BY <2>2, <3>1 DEF Goto
  <2>. HIDE DEF done
  <2>. QED BY <2>1, <2>2 DEF Upload, done
<1>. QED BY <1>1, <1>3, <1>6, <1>7

LEMMA DropEffect ==
  ASSUME TypeOK, Progress, NEW j \in Jobs, Drop(j)
  PROVE  /\ job[j].pc = "drop" /\ Continues(j) /\ left' \in [Bounded -> Nat]
         /\ job'[j].pc = "success" /\ job'[j].dropped = TRUE
         /\ job'[j].uploaded = job[j].uploaded /\ copies'["s3"] = copies["s3"]
         /\ copies'["local"][File(j)] = "none" \/ <<"local", File(j)>> \in unremoved'
         /\ unremoved \subseteq unremoved' /\ unremoved' \subseteq Stores \X Files
         /\ UNCHANGED <<setup, storage, now, rows, cut>>
<1>1. AtRow(j) /\ job[j].pc = "drop" /\ UNCHANGED <<rows, cut, setup, storage, now>>
  BY DEF Drop, AtRow, Work
<1>2. {File(j)} \in SUBSET Files /\ "local" \in Stores /\ "s3" \in Stores
  BY <1>1, BegunAtRow DEF Begun, Stores
<1>3. left' \in [Bounded -> Nat]
  BY SpendType DEF Drop, Bounded, TypeOK
<1>4. PICK worked \in BOOLEAN : Remove("local", {File(j)}, worked)
  BY DEF Drop
<1>5. /\ copies' \in [Stores -> [Files -> {"none", "part", "full"}]]
      /\ unremoved' \subseteq Stores \X Files /\ unremoved \subseteq unremoved'
      /\ copies'["local"][File(j)] = "none" \/ <<"local", File(j)>> \in unremoved'
      /\ \A v \in Stores, g \in Files :
           v # "local" \/ g # File(j) => copies'[v][g] = copies[v][g]
  <2> DEFINE files == {File(j)}
             w == "local"
  <2>1. files \in SUBSET Files /\ w \in Stores /\ Remove(w, files, worked)
    BY <1>2, <1>4
  <2>2. File(j) \in files /\ \A g \in Files : g # File(j) => g \notin files
    OBVIOUS
  <2>. HIDE DEF files, w
  <2>3. Removed(w, files)
    BY <2>1, RemoveEffect
  <2>. QED BY <2>2, <2>3 DEF Removed, w
<1>6. copies'["s3"] = copies["s3"]
  BY <1>2, <1>5, Basics
<1>7. /\ Carries(j) /\ job'[j].pc = "success" /\ job'[j].dropped = TRUE
      /\ job'[j].uploaded = job[j].uploaded /\ job'[j].doomed = job[j].doomed
  <2> DEFINE s == [job[j] EXCEPT !.pc = "success", !.dropped = TRUE]
  <2>1. /\ s \in Job /\ s.pc = "success" /\ s.dropped = TRUE
        /\ s.uploaded = job[j].uploaded
        /\ s.doomed = job[j].doomed /\ s.setup = job[j].setup /\ s.todo = job[j].todo
        /\ s.row = job[j].row /\ s.where = job[j].where
    BY Basics DEF Job, Work
  <2>2. job' = [job EXCEPT ![j] = s]
    BY DEF Drop
  <2>. HIDE DEF s
  <2>. QED BY <2>1, <2>2, Basics DEF Carries, Others
<1>. QED BY <1>1, <1>3, <1>5, <1>6, <1>7 DEF Continues

LEMMA SuccessEffect ==
  ASSUME TypeOK, Progress, NEW j \in Jobs, Success(j)
  PROVE  /\ job[j].pc = "success" /\ Ends(j)
         /\ There(Current(j)) =>
              /\ rows'[Current(j)].status = "success"
              /\ rows'[Current(j)].deleted = IF job[j].dropped THEN {"local"} ELSE {}
              /\ rows'[Current(j)].s3_uploaded = "null" => ~job[j].setup.save_s3
              /\ rows'[Current(j)].s3_uploaded = "yes" => job[j].uploaded
         /\ UNCHANGED <<setup, storage, now, copies, left, cut, unremoved>>
<1>1. AtRow(j) /\ job[j].pc = "success" /\ job[j].dropped \in BOOLEAN
      /\ job[j].uploaded \in BOOLEAN
  BY Basics DEF Success, AtRow, Work, Job
<1>2. Begun(j)
  BY <1>1, BegunAtRow
<1> DEFINE put == IF ~job[j].setup.save_s3 THEN "null"
                  ELSE IF job[j].uploaded THEN "yes" ELSE "no"
           gone == IF job[j].dropped THEN {"local"} ELSE {}
           new == [rows[Current(j)] EXCEPT !.status = "success", !.s3_uploaded = put,
                                           !.deleted = gone]
<1>3. /\ new \in Row /\ new.status = "success" /\ new.s3_uploaded = put
      /\ new.deleted = gone
      /\ new.file = rows[Current(j)].file /\ new.state = rows[Current(j)].state
  <2>1. put \in {"null", "yes", "no"} /\ gone \in SUBSET Stores
        /\ rows[Current(j)] \in Row
    BY <1>2, Basics DEF Begun, Stores
  <2>. HIDE DEF put, gone
  <2>. QED BY <2>1 DEF Row
<1>4. rows' = IF There(Current(j)) THEN [rows EXCEPT ![Current(j)] = new] ELSE rows
  BY DEF Success, Update
<1>5. (put = "null" => ~job[j].setup.save_s3) /\ (put = "yes" => job[j].uploaded)
  BY <1>1
<1>. HIDE DEF new, put
<1>6. /\ rows' \in [Ids -> Row] /\ \A q \in Ids \ {Current(j)} : rows'[q] = rows[q]
      /\ There(Current(j)) => rows'[Current(j)] = new
      /\ ~There(Current(j)) => rows'[Current(j)] = rows[Current(j)]
  BY <1>2, <1>3, <1>4, Basics DEF Begun
<1>7. /\ rows'[Current(j)].file = rows[Current(j)].file
      /\ rows'[Current(j)].state = rows[Current(j)].state
      /\ There(Current(j)) =>
           /\ rows'[Current(j)].status = "success"
           /\ rows'[Current(j)].deleted = IF job[j].dropped THEN {"local"} ELSE {}
           /\ rows'[Current(j)].s3_uploaded = "null" => ~job[j].setup.save_s3
           /\ rows'[Current(j)].s3_uploaded = "yes" => job[j].uploaded
  BY <1>3, <1>5, <1>6
<1>8. NextDatabase(j, TRUE)
  BY DEF Success
<1>. QED BY <1>1, <1>2, <1>6, <1>7, <1>8, NextDatabaseFields DEF Success, Ends, Others, Begun

-----------------------------------------------------------------------------
(* Retention *)

\* Whatever makes an execution expire, a newer one is kept.
LEMMA NewestStays ==
  ASSUME TypeOK, NEW w \in Stores, NEW o \in NewestFirst(Kept(w)),
         NEW keep \in [amount : Nat, days : Nat, storage : Nat]
  PROVE  /\ Expired(o, keep) \subseteq Kept(w)
         /\ Expired(o, keep) # {} =>
              \E top \in Kept(w) : \A r \in Expired(o, keep) : r # top /\ At(top) >= At(r)
<1> DEFINE n == Cardinality(Kept(w))
<1>1. /\ o \in [1..n -> Kept(w)]
      /\ \A i, k \in 1..n : i < k => o[i] # o[k] /\ At(o[i]) >= At(o[k])
      /\ DOMAIN o = 1..n
  BY DEF NewestFirst
<1>2. n \in Nat
  <2>1. IsFiniteSet(Ids)
    BY BackupAssumption, FS_Interval DEF Ids
  <2>2. IsFiniteSet(Kept(w))
    BY <2>1, FS_Subset DEF Kept
  <2>. QED BY <2>2, FS_CardinalityType
<1>. HIDE DEF n
<1>3. ASSUME NEW r \in Expired(o, keep)
      PROVE  \E i \in 1..n : r = o[i] /\ i > 1
  <2>1. CASE r \in ByAmount(o, keep)
    <3>1. PICK i \in 1..n : r = o[i] /\ keep.amount > 0 /\ i > keep.amount
      BY <1>1, <2>1 DEF ByAmount
    <3>. QED BY <1>2, <3>1
  <2>2. CASE r \in ByAge(o, keep)
    <3>1. PICK i \in 1..n : r = o[i] /\ keep.days > 0 /\ At(o[i]) + keep.days < At(o[1])
      BY <1>1, <2>2 DEF ByAge
    <3>2. o[i] \in Ids
      BY <1>1, <3>1 DEF Kept
    <3>3. At(o[i]) \in Nat
      BY <3>2, BackupAssumption, Basics DEF At, Files
    <3>4. i # 1
      BY <3>1, <3>3
    <3>. QED BY <1>2, <3>1, <3>4
  <2>3. CASE r \in ByStorage(o, keep)
    <3>1. PICK i \in 1..n : r = o[i] /\ \E f \in 1..n : f < i
      BY <1>1, <2>3 DEF ByStorage
    <3>. QED BY <1>2, <3>1
  <2>. QED BY <2>1, <2>2, <2>3 DEF Expired
<1>4. ASSUME Expired(o, keep) # {}
      PROVE  \E top \in Kept(w) : \A r \in Expired(o, keep) : r # top /\ At(top) >= At(r)
  <2>1. 1 \in 1..n
    BY <1>2, <1>3, <1>4
  <2>2. \A r \in Expired(o, keep) : r # o[1] /\ At(o[1]) >= At(r)
    <3>1. SUFFICES ASSUME NEW r \in Expired(o, keep) PROVE r # o[1] /\ At(o[1]) >= At(r)
      OBVIOUS
    <3>2. PICK i \in 1..n : r = o[i] /\ i > 1
      BY <1>3
    <3>. QED BY <1>1, <2>1, <3>2
  <2>. QED BY <1>1, <2>1, <2>2
<1>. QED BY <1>1, <1>3, <1>4

\* Retention turns to the other store, or to the executions without a copy.
Turns(j) == /\ job' \in [Jobs -> Job] /\ Others(j)
            /\ job'[j].pc \in {"list", "purge"} /\ job'[j].doomed = {}
            /\ job'[j].uploaded = job[j].uploaded /\ job'[j].dropped = job[j].dropped

LEMMA TurnEffect ==
  ASSUME TypeOK, NEW j \in Jobs, job' = [job EXCEPT ![j] = NextStore(j)]
  PROVE  Turns(j)
<1> DEFINE list == [job[j] EXCEPT !.pc = "list", !.where = "s3", !.doomed = {}]
           purge == [job[j] EXCEPT !.pc = "purge", !.doomed = {}]
<1>1. /\ list \in Job /\ list.pc = "list" /\ list.doomed = {}
      /\ list.uploaded = job[j].uploaded /\ list.dropped = job[j].dropped
      /\ purge \in Job /\ purge.pc = "purge" /\ purge.doomed = {}
      /\ purge.uploaded = job[j].uploaded /\ purge.dropped = job[j].dropped
  BY Basics DEF Job, Retention, Stores
<1>2. NextStore(j) \in {list, purge}
  BY DEF NextStore
<1>. HIDE DEF list, purge
<1>. QED BY <1>1, <1>2, Basics DEF Turns, Others

LEMMA ListEffect ==
  ASSUME TypeOK, NEW j \in Jobs, List(j)
  PROVE  /\ job[j].pc = "list"
         /\ UNCHANGED <<setup, storage, now, rows, copies, left, cut, unremoved>>
         /\ \/ Turns(j)
            \/ /\ Carries(j) /\ job'[j].pc = "remove"
               /\ job'[j].uploaded = job[j].uploaded /\ job'[j].dropped = job[j].dropped
               /\ job'[j].doomed \subseteq Kept(job[j].where)
               /\ \E top \in Kept(job[j].where) :
                    \A r \in job'[j].doomed : r # top /\ At(top) >= At(r)
<1> DEFINE w == job[j].where
           keep == job[j].setup.keep[w]
<1>0. w \in Stores /\ keep \in [amount : Nat, days : Nat, storage : Nat]
  <2>1. job[j].setup \in Setups /\ w \in Stores
    BY Basics DEF Job
  <2>. QED BY <2>1, SetupTypes
<1>. HIDE DEF keep
<1>1. PICK o \in NewestFirst(Kept(w)) :
        \/ job' = [job EXCEPT ![j] = NextStore(j)]
        \/ /\ Expired(o, keep) # {}
           /\ job' = [job EXCEPT ![j] = [job[j] EXCEPT !.pc = "remove",
                                                      !.doomed = Expired(o, keep)]]
  BY DEF List, keep
<1>2. CASE job' = [job EXCEPT ![j] = NextStore(j)]
  BY <1>2, TurnEffect DEF List
<1>3. CASE /\ Expired(o, keep) # {}
           /\ job' = [job EXCEPT ![j] = [job[j] EXCEPT !.pc = "remove",
                                                      !.doomed = Expired(o, keep)]]
  <2> DEFINE D == Expired(o, keep)
             s == [job[j] EXCEPT !.pc = "remove", !.doomed = D]
  <2>1. D \subseteq Kept(w) /\ D # {}
        /\ \E top \in Kept(w) : \A r \in D : r # top /\ At(top) >= At(r)
    BY <1>0, <1>3, NewestStays
  <2>2. D \subseteq Ids
    BY <2>1 DEF Kept
  <2>3. job' = [job EXCEPT ![j] = s]
    BY <1>3
  <2>. HIDE DEF D
  <2>4. /\ s \in Job /\ s.pc = "remove" /\ s.doomed = D
        /\ s.uploaded = job[j].uploaded /\ s.dropped = job[j].dropped
        /\ s.setup = job[j].setup /\ s.todo = job[j].todo
        /\ s.row = job[j].row /\ s.where = job[j].where
    BY <2>2, Basics DEF Job, Retention
  <2>. HIDE DEF s
  <2>5. Carries(j) /\ job'[j].pc = "remove" /\ job'[j].doomed = D
        /\ job'[j].uploaded = job[j].uploaded /\ job'[j].dropped = job[j].dropped
    BY <2>3, <2>4, Basics DEF Carries, Others
  <2>. QED BY <2>1, <2>5 DEF List
<1>. QED BY <1>1, <1>2, <1>3

LEMMA RemoveOldEffect ==
  ASSUME TypeOK, Progress, NEW j \in Jobs, RemoveOld(j)
  PROVE  /\ job[j].pc = "remove" /\ Carries(j) /\ job'[j].pc = "mark"
         /\ job'[j].uploaded = job[j].uploaded /\ job'[j].dropped = job[j].dropped
         /\ job'[j].doomed = job[j].doomed /\ left' \in [Bounded -> Nat]
         /\ copies' \in [Stores -> [Files -> {"none", "part", "full"}]]
         /\ unremoved' \subseteq Stores \X Files /\ unremoved \subseteq unremoved'
         /\ \A r \in job[j].doomed :
              \/ copies'[job[j].where][rows[r].file] = "none"
              \/ <<job[j].where, rows[r].file>> \in unremoved'
         /\ \A v \in Stores, g \in Files :
              \/ copies'[v][g] = copies[v][g]
              \/ /\ v = job[j].where /\ copies'[v][g] = "none"
                 /\ \E r \in job[j].doomed : g = rows[r].file
         /\ UNCHANGED <<setup, storage, now, rows, cut>>
<1> DEFINE files == {rows[r].file : r \in job[j].doomed}
<1>1. files \in SUBSET Files /\ job[j].where \in Stores
  BY Basics
<1>2. PICK worked \in BOOLEAN : Remove(job[j].where, files, worked)
  BY DEF RemoveOld
<1>3. \A g \in Files : g \in files <=> \E r \in job[j].doomed : g = rows[r].file
  OBVIOUS
<1>4. \A r \in job[j].doomed : rows[r].file \in files
  OBVIOUS
<1>. HIDE DEF files
<1>5. /\ copies' \in [Stores -> [Files -> {"none", "part", "full"}]]
      /\ unremoved' \subseteq Stores \X Files /\ unremoved \subseteq unremoved'
      /\ \A f \in files : copies'[job[j].where][f] = "none"
                          \/ <<job[j].where, f>> \in unremoved'
      /\ \A v \in Stores, g \in Files :
           v # job[j].where \/ g \notin files => copies'[v][g] = copies[v][g]
      /\ \A v \in Stores, g \in Files :
           copies'[v][g] = copies[v][g] \/ copies'[v][g] = "none"
  <2>1. Removed(job[j].where, files)
    BY <1>1, <1>2, RemoveEffect
  <2>. QED BY <2>1 DEF Removed
<1>6. left' \in [Bounded -> Nat]
  BY SpendType DEF RemoveOld, Bounded, TypeOK
<1>7. Goto(j, "mark") /\ "mark" \in Retention
  BY DEF RemoveOld, Retention
<1>. QED BY <1>3, <1>4, <1>5, <1>6, <1>7, GotoEffect DEF RemoveOld

LEMMA MarkEffect ==
  ASSUME TypeOK, NEW j \in Jobs, MarkDeleted(j)
  PROVE  /\ job[j].pc = "mark" /\ Turns(j) /\ rows' \in [Ids -> Row]
         /\ \A r \in Ids :
              /\ rows'[r].state = rows[r].state /\ rows'[r].status = rows[r].status
              /\ rows'[r].file = rows[r].file
              /\ rows'[r].s3_uploaded = rows[r].s3_uploaded
              /\ ~(r \in job[j].doomed /\ There(r)) => rows'[r] = rows[r]
              /\ r \in job[j].doomed /\ There(r) =>
                   rows'[r].deleted = rows[r].deleted \cup {job[j].where}
         /\ UNCHANGED <<setup, storage, now, copies, left, cut, unremoved>>
<1>1. Turns(j)
  BY TurnEffect DEF MarkDeleted
<1>2. \A r \in Ids : rows'[r] = IF r \in job[j].doomed /\ There(r)
                                THEN [rows[r] EXCEPT !.deleted = @ \cup {job[j].where}]
                                ELSE rows[r]
  BY DEF MarkDeleted
<1>3. ASSUME NEW r \in Ids
      PROVE  /\ rows'[r] \in Row
             /\ rows'[r].state = rows[r].state /\ rows'[r].status = rows[r].status
             /\ rows'[r].file = rows[r].file
             /\ rows'[r].s3_uploaded = rows[r].s3_uploaded
             /\ ~(r \in job[j].doomed /\ There(r)) => rows'[r] = rows[r]
             /\ r \in job[j].doomed /\ There(r) =>
                  rows'[r].deleted = rows[r].deleted \cup {job[j].where}
  <2> DEFINE marked == [rows[r] EXCEPT !.deleted = rows[r].deleted \cup {job[j].where}]
  <2>1. /\ marked \in Row /\ marked.deleted = rows[r].deleted \cup {job[j].where}
        /\ marked.state = rows[r].state /\ marked.status = rows[r].status
        /\ marked.file = rows[r].file /\ marked.s3_uploaded = rows[r].s3_uploaded
    <3>1. rows[r].deleted \cup {job[j].where} \in SUBSET Stores /\ rows[r] \in Row
      BY Basics DEF Row
    <3> DEFINE more == rows[r].deleted \cup {job[j].where}
    <3>2. more \in SUBSET Stores
      BY <3>1
    <3>. HIDE DEF more
    <3>. QED BY <3>1, <3>2 DEF Row
  <2>2. rows'[r] = IF r \in job[j].doomed /\ There(r) THEN marked ELSE rows[r]
    BY <1>2
  <2>. HIDE DEF marked
  <2>. QED BY <2>1, <2>2, Basics
<1>4. rows' \in [Ids -> Row]
  BY <1>3 DEF MarkDeleted
<1>. QED BY <1>1, <1>3, <1>4 DEF MarkDeleted

\* Executions are forgotten, and stay otherwise as they are.
Forgets ==
  /\ rows' \in [Ids -> Row]
  /\ \A r \in Ids :
       /\ rows'[r].status = rows[r].status /\ rows'[r].file = rows[r].file
       /\ rows'[r].s3_uploaded = rows[r].s3_uploaded
       /\ rows'[r].deleted = rows[r].deleted
       /\ \/ rows'[r].state = rows[r].state
          \/ There(r) /\ rows'[r].state = "deleted"
          \/ There(r) /\ rows'[r].state = "purged" /\ Copyless(r)

LEMMA PurgeEffect ==
  ASSUME TypeOK, NEW j \in Jobs, Purge(j)
  PROVE  /\ job[j].pc = "purge" /\ job' \in [Jobs -> Job] /\ Others(j) /\ Forgets
         /\ job'[j].pc = "idle" /\ job'[j].uploaded = FALSE /\ job'[j].dropped = FALSE
         /\ job'[j].doomed = {}
         /\ UNCHANGED <<setup, storage, now, copies, left, cut, unremoved>>
<1>1. /\ Idle \in Job /\ Idle.pc = "idle" /\ Idle.uploaded = FALSE
      /\ Idle.dropped = FALSE /\ Idle.doomed = {}
  <2>1. Idle \in Job
    BY StartType DEF Idle, TypeOK
  <2>. QED BY <2>1 DEF Idle, Start
<1>2. job' = [job EXCEPT ![j] = Idle]
  BY DEF Purge
<1>3. \A r \in Ids : rows'[r] = IF There(r) /\ Copyless(r)
                                THEN [rows[r] EXCEPT !.state = "purged"] ELSE rows[r]
  BY DEF Purge
<1>4. ASSUME NEW r \in Ids
      PROVE  /\ rows'[r] \in Row
             /\ rows'[r].status = rows[r].status /\ rows'[r].file = rows[r].file
             /\ rows'[r].s3_uploaded = rows[r].s3_uploaded
             /\ rows'[r].deleted = rows[r].deleted
             /\ \/ rows'[r].state = rows[r].state
                \/ There(r) /\ rows'[r].state = "purged" /\ Copyless(r)
  BY ZenonT(40), <1>3, Basics DEF Row
<1>5. Forgets
  BY <1>4 DEF Forgets, Purge
<1>. QED BY <1>1, <1>2, <1>5, Basics DEF Purge, Others

-----------------------------------------------------------------------------
(* What a death, a restart and the users do *)

\* Jobs end at once, and a dump among them leaves part of a file or nothing.
Stops ==
  /\ job' \in [Jobs -> Job]
  /\ \A j \in Jobs :
       \/ job'[j] = job[j]
       \/ /\ job'[j].pc = "idle" /\ job'[j].uploaded = FALSE
          /\ job'[j].dropped = FALSE /\ job'[j].doomed = {} /\ AtWork(j) \subseteq cut'
  /\ copies' \in [Stores -> [Files -> {"none", "part", "full"}]]
  /\ \A w \in Stores, f \in Files :
       \/ copies'[w][f] = copies[w][f]
       \/ w = "local" /\ copies'[w][f] = "part"
          /\ \E j \in Jobs : job[j].pc = "dump" /\ job'[j].pc = "idle" /\ File(j) = f
  /\ cut \subseteq cut' /\ cut' \subseteq Ids /\ unremoved' = unremoved
  /\ left' \in [Bounded -> Nat] /\ UNCHANGED <<setup, storage, now>>

LEMMA StopEffect ==
  ASSUME TypeOK, Progress, NEW D \in SUBSET Jobs, Stop(D), Spend("death"),
         UNCHANGED <<setup, storage, now, unremoved>>
  PROVE  Stops /\ \A j \in D : job'[j].pc = "idle"
<1>1. /\ Idle \in Job /\ Idle.pc = "idle" /\ Idle.uploaded = FALSE
      /\ Idle.dropped = FALSE /\ Idle.doomed = {}
  <2>1. Idle \in Job
    BY StartType DEF Idle, TypeOK
  <2>. QED BY <2>1 DEF Idle, Start
<1>2. job' = [j \in Jobs |-> IF j \in D THEN Idle ELSE job[j]]
  BY DEF Stop
<1>3. cut' = cut \cup UNION {AtWork(j) : j \in D}
  BY DEF Stop
<1>4. \A j \in D : AtWork(j) \subseteq cut'
  BY <1>3
<1>5. \A j \in Jobs : AtWork(j) \subseteq Ids
  BY Basics DEF AtWork, Progress, AtRow, Work
<1>6. cut \subseteq cut' /\ cut' \subseteq Ids
  BY <1>3, <1>5, Basics
<1>7. left' \in [Bounded -> Nat]
  BY SpendType DEF Bounded
<1>8. /\ job' \in [Jobs -> Job]
      /\ \A j \in D : job'[j] = Idle
      /\ \A j \in Jobs \ D : job'[j] = job[j]
  BY <1>1, <1>2, Basics
<1>9. /\ copies' \in [Stores -> [Files -> {"none", "part", "full"}]]
      /\ \A w \in Stores, f \in Files :
           \/ copies'[w][f] = copies[w][f]
           \/ w = "local" /\ copies'[w][f] = "part"
              /\ \E j \in Jobs : job[j].pc = "dump" /\ job'[j].pc = "idle" /\ File(j) = f
  <2>1. PICK part \in SUBSET {j \in D : job[j].pc = "dump"} :
          copies' = [copies EXCEPT !["local"] =
            [f \in Files |-> IF \E j \in part : File(j) = f THEN "part"
                             ELSE copies["local"][f]]]
    BY DEF Stop, BreakOff
  <2> DEFINE left_over == [f \in Files |-> IF \E j \in part : File(j) = f THEN "part"
                                           ELSE copies["local"][f]]
  <2>2. copies' = [copies EXCEPT !["local"] = left_over]
    BY <2>1
  <2>3. "local" \in Stores
    BY DEF Stores
  <2>4. left_over \in [Files -> {"none", "part", "full"}]
    BY <2>3, Basics
  <2>5. \A f \in Files : \/ left_over[f] = copies["local"][f]
                         \/ left_over[f] = "part" /\ \E j \in part : File(j) = f
    OBVIOUS
  <2>. HIDE DEF left_over
  <2>6. \A w \in Stores, f \in Files :
          copies'[w][f] = IF w = "local" THEN left_over[f] ELSE copies[w][f]
    BY <2>2, <2>3, Basics
  <2>7. copies' \in [Stores -> [Files -> {"none", "part", "full"}]]
    BY <2>2, <2>3, <2>4, Basics
  <2>8. \A j \in part : j \in Jobs /\ job[j].pc = "dump" /\ job'[j].pc = "idle"
    BY <1>1, <1>8, <2>1
  <2>. QED BY <2>5, <2>6, <2>7, <2>8
<1>. QED BY <1>1, <1>4, <1>6, <1>7, <1>8, <1>9 DEF Stops

LEMMA DiesEffect ==
  ASSUME TypeOK, Progress, NEW j \in Jobs, Dies(j)
  PROVE  Stops /\ UNCHANGED rows
<1> DEFINE D == {j}
<1>1. D \in SUBSET Jobs /\ Stop(D)
  BY DEF Dies
<1>. HIDE DEF D
<1>2. Spend("death") /\ UNCHANGED <<setup, storage, now, unremoved, rows>>
  BY DEF Dies
<1>. QED BY <1>1, <1>2, StopEffect

LEMMA RestartEffect ==
  ASSUME TypeOK, Progress, Restart
  PROVE  /\ Stops /\ \A j \in Jobs : job'[j].pc = "idle"
         /\ rows' \in [Ids -> Row]
         /\ \A r \in Ids :
              /\ rows'[r].state = rows[r].state /\ rows'[r].file = rows[r].file
              /\ rows'[r].s3_uploaded = rows[r].s3_uploaded
              /\ rows'[r].deleted = rows[r].deleted
              /\ rows'[r].status = IF There(r) /\ rows[r].status = "running" THEN "failed"
                                   ELSE rows[r].status
<1>1. Stops /\ \A j \in {i \in Jobs : job[i].pc # "idle"} : job'[j].pc = "idle"
  <2> DEFINE D == {i \in Jobs : job[i].pc # "idle"}
  <2>1. D \in SUBSET Jobs /\ Stop(D)
    BY DEF Restart
  <2>. HIDE DEF D
  <2>2. Stops /\ \A j \in D : job'[j].pc = "idle"
    BY <2>1, StopEffect DEF Restart
  <2>. QED BY <2>2 DEF D
<1>2. \A j \in Jobs : job'[j].pc = "idle"
  BY <1>1 DEF Stops
<1>3. \A r \in Ids : rows'[r] = IF There(r) /\ rows[r].status = "running"
                                THEN [rows[r] EXCEPT !.status = "failed"] ELSE rows[r]
  BY DEF Restart
<1>4. ASSUME NEW r \in Ids
      PROVE  /\ rows'[r] \in Row
             /\ rows'[r].state = rows[r].state /\ rows'[r].file = rows[r].file
             /\ rows'[r].s3_uploaded = rows[r].s3_uploaded
             /\ rows'[r].deleted = rows[r].deleted
             /\ rows'[r].status = IF There(r) /\ rows[r].status = "running" THEN "failed"
                                  ELSE rows[r].status
  BY ZenonT(40), <1>3, Basics DEF Row
<1>5. rows' \in [Ids -> Row]
  BY <1>4 DEF Restart
<1>. QED BY <1>1, <1>2, <1>4, <1>5

LEMMA DeleteExecutionEffect ==
  ASSUME TypeOK, NEW r \in Ids, DeleteExecution(r)
  PROVE  /\ Forgets /\ rows'[r].state = "deleted" /\ left' \in [Bounded -> Nat]
         /\ copies' \in [Stores -> [Files -> {"none", "part", "full"}]]
         /\ \A w \in Stores, f \in Files :
              \/ copies'[w][f] = copies[w][f]
              \/ f = rows[r].file /\ copies'[w][f] = "none"
         /\ UNCHANGED <<setup, storage, now, job, cut, unremoved>>
<1>1. rows' = [rows EXCEPT ![r] = [rows[r] EXCEPT !.state = "deleted"]] /\ There(r)
  BY DEF DeleteExecution
<1>2. rows[r].file \in Files /\ rows[r] \in Row
  BY Basics
<1> DEFINE deleted == [rows[r] EXCEPT !.state = "deleted"]
<1>3. /\ deleted \in Row /\ deleted.state = "deleted"
      /\ deleted.status = rows[r].status /\ deleted.file = rows[r].file
      /\ deleted.s3_uploaded = rows[r].s3_uploaded /\ deleted.deleted = rows[r].deleted
  BY <1>2 DEF Row
<1>4. rows' = [rows EXCEPT ![r] = deleted]
  BY <1>1
<1>. HIDE DEF deleted
<1>5. Forgets /\ rows'[r].state = "deleted"
  BY <1>1, <1>3, <1>4, Basics DEF Forgets
<1>6. left' \in [Bounded -> Nat]
  BY SpendType DEF DeleteExecution, Bounded
<1>7. PICK W \in SUBSET Stores :
        copies' = [w \in Stores |->
                    IF w \in W THEN [copies[w] EXCEPT ![rows[r].file] = "none"]
                    ELSE copies[w]]
  BY DEF DeleteExecution
<1>8. ASSUME NEW w \in Stores
      PROVE  /\ copies'[w] \in [Files -> {"none", "part", "full"}]
             /\ \A f \in Files : \/ copies'[w][f] = copies[w][f]
                                 \/ f = rows[r].file /\ copies'[w][f] = "none"
  BY <1>2, <1>7, Basics
<1>9. copies' \in [Stores -> [Files -> {"none", "part", "full"}]]
  BY <1>7, <1>8
<1>. QED BY <1>5, <1>6, <1>8, <1>9 DEF DeleteExecution

LEMMA CleanupEffect ==
  ASSUME TypeOK, Cleanup
  PROVE  /\ Forgets /\ left' \in [Bounded -> Nat]
         /\ UNCHANGED <<setup, storage, now, copies, job, cut, unremoved>>
<1>1. PICK R : rows' = [r \in Ids |-> IF r \in R /\ There(r)
                                      THEN [rows[r] EXCEPT !.state = "deleted"]
                                      ELSE rows[r]]
  BY DEF Cleanup
<1>2. ASSUME NEW r \in Ids
      PROVE  /\ rows'[r] \in Row
             /\ rows'[r].status = rows[r].status /\ rows'[r].file = rows[r].file
             /\ rows'[r].s3_uploaded = rows[r].s3_uploaded
             /\ rows'[r].deleted = rows[r].deleted
             /\ \/ rows'[r].state = rows[r].state
                \/ There(r) /\ rows'[r].state = "deleted"
  BY <1>1, Basics DEF Row
<1>3. Forgets
  BY <1>1, <1>2 DEF Forgets
<1>4. left' \in [Bounded -> Nat]
  BY SpendType DEF Cleanup, Bounded
<1>. QED BY <1>3, <1>4 DEF Cleanup

\* The schedule is changed, or its storage deleted.
LEMMA SubmitEffect ==
  ASSUME TypeOK, Submit \/ DeleteStorage
  PROVE  /\ setup' \in Setups /\ storage' \in BOOLEAN /\ left' \in [Bounded -> Nat]
         /\ UNCHANGED <<now, rows, copies, job, cut, unremoved>>
<1>1. left' \in [Bounded -> Nat]
  BY SpendType DEF Submit, DeleteStorage, Bounded
<1>. QED BY <1>1 DEF Submit, DeleteStorage, TypeOK

LEMMA StopsTyped ==
  ASSUME TypeOK, Stops, rows' \in [Ids -> Row]
  PROVE  TypeOK'
<1>1. setup' \in Setups /\ storage' \in BOOLEAN /\ now' \in 0..MAX_TIME
  BY DEF TypeOK, Stops
<1>2. unremoved' \subseteq Stores \X Files
  BY DEF TypeOK, Stops
<1>. QED BY <1>1, <1>2 DEF TypeOK, Stops

LEMMA TypedStep ==
  ASSUME TypeOK, Progress, [Next]_vars
  PROVE  TypeOK'
<1>t. /\ setup \in Setups /\ storage \in BOOLEAN /\ now \in 0..MAX_TIME
      /\ rows \in [Ids -> Row] /\ left \in [Bounded -> Nat]
      /\ copies \in [Stores -> [Files -> {"none", "part", "full"}]]
      /\ job \in [Jobs -> Job] /\ cut \subseteq Ids /\ unremoved \subseteq Stores \X Files
  BY DEF TypeOK
<1>1. ASSUME NEW j \in Jobs, Dispatch(j) PROVE TypeOK'
  BY <1>1, <1>t, DispatchEffect DEF TypeOK
<1>2. ASSUME NEW j \in Jobs, Create(j) PROVE TypeOK'
  BY <1>2, <1>t, CreateEffect DEF TypeOK
<1>3. ASSUME NEW j \in Jobs, Dump(j) PROVE TypeOK'
  BY <1>3, <1>t, DumpEffect
     DEF TypeOK, Proceeds, Continues, Carries, Fails, Ends, Dumped
<1>4. ASSUME NEW j \in Jobs, Measure(j) PROVE TypeOK'
  BY <1>4, <1>t, MeasureEffect
     DEF TypeOK, Proceeds, Continues, Carries, Fails, Ends
<1>5. ASSUME NEW j \in Jobs, Upload(j) PROVE TypeOK'
  BY <1>5, <1>t, UploadEffect DEF TypeOK, Continues, Carries
<1>6. ASSUME NEW j \in Jobs, Drop(j) PROVE TypeOK'
  BY <1>6, <1>t, DropEffect DEF TypeOK, Continues, Carries
<1>7. ASSUME NEW j \in Jobs, Success(j) PROVE TypeOK'
  BY <1>7, <1>t, SuccessEffect DEF TypeOK, Ends
<1>8. ASSUME NEW j \in Jobs, List(j) PROVE TypeOK'
  BY <1>8, <1>t, ListEffect DEF TypeOK, Turns, Carries
<1>9. ASSUME NEW j \in Jobs, RemoveOld(j) PROVE TypeOK'
  BY <1>9, <1>t, RemoveOldEffect DEF TypeOK, Carries
<1>10. ASSUME NEW j \in Jobs, MarkDeleted(j) PROVE TypeOK'
  BY <1>10, <1>t, MarkEffect DEF TypeOK, Turns
<1>11. ASSUME NEW j \in Jobs, Purge(j) PROVE TypeOK'
  BY <1>11, <1>t, PurgeEffect DEF TypeOK, Forgets
<1>12. ASSUME NEW j \in Jobs, Dies(j) PROVE TypeOK'
  BY <1>12, <1>t, DiesEffect, StopsTyped
<1>13. CASE Restart
  BY <1>13, RestartEffect, StopsTyped
<1>14. ASSUME NEW r \in Ids, DeleteExecution(r) PROVE TypeOK'
  BY <1>14, <1>t, DeleteExecutionEffect DEF TypeOK, Forgets
<1>15. CASE Cleanup
  BY <1>15, <1>t, CleanupEffect DEF TypeOK, Forgets
<1>16. CASE Submit \/ DeleteStorage
  BY <1>16, <1>t, SubmitEffect DEF TypeOK
<1>17. CASE UNCHANGED vars
  BY <1>17 DEF vars, TypeOK
<1>. QED BY <1>1, <1>2, <1>3, <1>4, <1>5, <1>6, <1>7, <1>8, <1>9, <1>10, <1>11, <1>12,
            <1>13, <1>14, <1>15, <1>16, <1>17 DEF Next, Step

-----------------------------------------------------------------------------
(* Progress *)

LEMMA InitProgress == Init => Progress
BY DEF Init, Progress, Idle, Start, AtRow, Removing, Work

\* What Progress says of one job alone.
OwnProgress(j) ==
  /\ AtRow(j) => /\ Current(j) \in Ids /\ Born(Current(j))
                 /\ rows[Current(j)].status = "running"
                 /\ rows[Current(j)].deleted = {}
  /\ job[j].pc \in Work => job[j].todo # <<>>
  /\ job[j].pc \in {"upload", "drop"} => job[j].setup.save_s3
  /\ job[j].uploaded => job[j].pc \in {"drop", "success"}
  /\ job[j].dropped => job[j].pc = "success"
  /\ ~Removing(j) => job[j].doomed = {}
  /\ \A r \in job[j].doomed : Born(r) /\ rows[r].status = "success"

\* Nothing that matters to a job happens to its execution.
Spared(r) ==
  /\ Born(r) => rows'[r].state # "unborn"
  /\ rows[r].status = "success" => rows'[r].status = "success"
  /\ Born(r) /\ rows[r].status = "running" =>
       rows'[r].status = "running" /\ rows'[r].deleted = rows[r].deleted

LEMMA OthersProgress ==
  ASSUME TypeOK, Progress, NEW j \in Jobs, job'[j] = job[j],
         \A r \in Ids : Spared(r) \/ \E i \in Jobs \ {j} : AtRow(i) /\ r = Current(i)
  PROVE  OwnProgress(j)'
<1>1. AtRow(j) => Spared(Current(j))
  BY DEF Progress
<1>2. \A r \in job[j].doomed : Spared(r)
  BY Basics DEF Progress
<1>. QED BY <1>1, <1>2 DEF Progress, OwnProgress, Spared, AtRow, Removing, Current, Born, Work

\* A step of job j, to which only its own execution is changed.
LEMMA JobProgress ==
  ASSUME TypeOK, Progress, NEW j \in Jobs, Others(j), OwnProgress(j)',
         \A r \in Ids : Spared(r) \/ (AtRow(j) /\ r = Current(j)),
         AtRow(j)' => \/ AtRow(j) /\ Current(j)' = Current(j)
                      \/ ~Born(Current(j)')
  PROVE  Progress'
<1>1. \A i \in Jobs \ {j} : OwnProgress(i)'
  BY OthersProgress DEF Others
<1>2. ASSUME NEW i \in Jobs \ {j}, AtRow(i)', AtRow(j)' PROVE Current(i)' # Current(j)'
  <2>1. AtRow(i) /\ Current(i)' = Current(i)
    BY <1>2 DEF Others, AtRow, Current
  <2>2. Born(Current(i))
    BY <2>1 DEF Progress
  <2>. QED BY <1>2, <2>1, <2>2 DEF Progress
<1>3. ASSUME NEW i \in Jobs \ {j}, NEW k \in Jobs \ {i, j}, AtRow(i)', AtRow(k)'
      PROVE  Current(i)' # Current(k)'
  <2>1. AtRow(i) /\ Current(i)' = Current(i) /\ AtRow(k) /\ Current(k)' = Current(k)
    BY <1>3 DEF Others, AtRow, Current
  <2>. QED BY <2>1 DEF Progress
<1>4. \A i \in Jobs : OwnProgress(i)'
  BY <1>1
<1>5. \A i \in Jobs : \A k \in Jobs \ {i} : AtRow(k)' /\ AtRow(i)' => Current(k)' # Current(i)'
  BY <1>2, <1>3
<1>. QED BY <1>4, <1>5 DEF Progress, OwnProgress, AtRow, Removing, Current, Born, Work

\* A step of none, except that jobs may end.
LEMMA QuietProgress ==
  ASSUME TypeOK, Progress, \A r \in Ids : Spared(r) \/ \A j \in Jobs : job'[j].pc = "idle",
         \A j \in Jobs : \/ job'[j] = job[j]
                         \/ /\ job'[j].pc = "idle" /\ job'[j].uploaded = FALSE
                            /\ job'[j].dropped = FALSE /\ job'[j].doomed = {}
  PROVE  Progress'
<1>1. ASSUME NEW j \in Jobs, job'[j].pc = "idle" PROVE OwnProgress(j)'
  <2>1. job'[j].uploaded = FALSE /\ job'[j].dropped = FALSE /\ job'[j].doomed = {}
    <3>1. CASE job'[j] = job[j]
      <4>1. job[j].uploaded \in BOOLEAN /\ job[j].dropped \in BOOLEAN
        BY Basics DEF Job
      <4>. QED BY <1>1, <3>1, <4>1 DEF Progress, Removing
    <3>. QED BY <3>1
  <2>. QED BY <1>1, <2>1 DEF OwnProgress, AtRow, Removing, Work
<1>2. ASSUME NEW j \in Jobs, job'[j].pc # "idle" PROVE OwnProgress(j)'
  BY <1>2, OthersProgress
<1>3. ASSUME NEW i \in Jobs, NEW k \in Jobs \ {i}, AtRow(i)', AtRow(k)'
      PROVE  Current(i)' # Current(k)'
  <2>1. AtRow(i) /\ Current(i)' = Current(i) /\ AtRow(k) /\ Current(k)' = Current(k)
    BY <1>3 DEF AtRow, Current, Work
  <2>. QED BY <2>1 DEF Progress
<1>4. \A i \in Jobs : OwnProgress(i)'
  BY <1>1, <1>2
<1>. QED BY <1>3, <1>4 DEF Progress, OwnProgress, AtRow, Removing, Current, Born, Work

LEMMA ForgetsSpares ==
  ASSUME TypeOK, Forgets
  PROVE  \A r \in Ids : Spared(r)
BY DEF Forgets, Spared, Born, There

LEMMA SameSpares ==
  ASSUME NEW r, rows'[r] = rows[r]
  PROVE  Spared(r)
BY DEF Spared, Born

\* Executions are born, and stay born.
LEMMA ProgressStep ==
  ASSUME TypeOK, Progress, [Next]_vars
  PROVE  Progress'
<1>0. \A j \in Jobs : job[j].uploaded \in BOOLEAN /\ job[j].dropped \in BOOLEAN
  BY Basics DEF Job
<1>o. \A j \in Jobs : OwnProgress(j)
  BY DEF Progress, OwnProgress
<1>i. ASSUME NEW j \in Jobs, job'[j].doomed = {}, job'[j].uploaded = FALSE,
             job'[j].dropped = FALSE, job'[j].pc \in {"create", "list", "idle", "purge"},
             job'[j].pc = "create" => job'[j].todo # <<>>
      PROVE  OwnProgress(j)' /\ ~AtRow(j)'
  BY <1>i DEF OwnProgress, AtRow, Work, Removing
<1>e. ASSUME NEW j \in Jobs, Ends(j) PROVE Progress'
  <2>1. Others(j) /\ OwnProgress(j)' /\ ~AtRow(j)' /\ AtRow(j)
    BY <1>i, <1>e DEF Ends
  <2>2. \A r \in Ids : Spared(r) \/ (AtRow(j) /\ r = Current(j))
    BY <1>e, SameSpares DEF Ends
  <2>. QED BY <2>1, <2>2, JobProgress
<1>c. ASSUME NEW j \in Jobs, Continues(j), job'[j].uploaded \in BOOLEAN,
             job'[j].dropped \in BOOLEAN,
             job'[j].uploaded => job'[j].pc \in {"drop", "success"},
             job'[j].dropped => job'[j].pc = "success",
             job'[j].pc \in {"upload", "drop"} => job[j].setup.save_s3
      PROVE Progress'
  <2>1. \A r \in Ids : Spared(r)
    BY <1>c, SameSpares DEF Continues
  <2>2. AtRow(j) /\ Others(j) /\ Current(j)' = Current(j)
    BY <1>c DEF Continues, Carries, Current
  <2>3. OwnProgress(j)'
    <3>1. /\ Current(j) \in Ids /\ Born(Current(j)) /\ rows[Current(j)].status = "running"
          /\ rows[Current(j)].deleted = {} /\ job[j].todo # <<>> /\ job[j].doomed = {}
      BY <2>2, BegunAtRow DEF Begun
    <3>2. /\ rows' = rows /\ job'[j].row = job[j].row /\ job'[j].todo = job[j].todo
          /\ job'[j].setup = job[j].setup /\ job'[j].doomed = job[j].doomed
          /\ job'[j].pc \in {"measure", "upload", "drop", "success"}
      BY <1>c DEF Continues, Carries
    <3>. QED BY <1>c, <3>1, <3>2 DEF OwnProgress, AtRow, Removing, Current, Born, Work
  <2>. QED BY <2>1, <2>2, <2>3, JobProgress
<1>t. ASSUME NEW j \in Jobs, Turns(j), job[j].pc \in Retention, \A r \in Ids : Spared(r)
      PROVE  Progress'
  <2>1. job'[j].uploaded = FALSE /\ job'[j].dropped = FALSE
    BY <1>0, <1>o, <1>t DEF Turns, OwnProgress, Retention
  <2>2. OwnProgress(j)' /\ ~AtRow(j)'
    BY <1>i, <1>t, <2>1 DEF Turns
  <2>. QED BY <1>t, <2>2, JobProgress DEF Turns
<1>1. ASSUME NEW j \in Jobs, Dispatch(j) PROVE Progress'
  <2>1. \A r \in Ids : Spared(r)
    BY <1>1, DispatchEffect, SameSpares
  <2>2. OwnProgress(j)' /\ ~AtRow(j)' /\ Others(j)
    BY <1>1, <1>i, DispatchEffect
  <2>. QED BY <2>1, <2>2, JobProgress
<1>2. ASSUME NEW j \in Jobs, Create(j) PROVE Progress'
  <2>1. PICK r \in Ids :
           /\ rows[r].state = "unborn" /\ rows' \in [Ids -> Row]
           /\ rows'[r].state = "there" /\ rows'[r].status = "running"
           /\ rows'[r].deleted = {} /\ \A q \in Ids \ {r} : rows'[q] = rows[q]
           /\ job[j].pc = "create" /\ job' \in [Jobs -> Job] /\ Others(j)
           /\ job'[j].pc = "dump" /\ job'[j].row = r
           /\ job'[j].todo = job[j].todo /\ job'[j].setup = job[j].setup
           /\ job'[j].uploaded = job[j].uploaded /\ job'[j].dropped = job[j].dropped
           /\ job'[j].where = job[j].where /\ job'[j].doomed = job[j].doomed
    BY <1>2, CreateEffect
  <2>2. ~job'[j].uploaded /\ ~job'[j].dropped /\ job'[j].doomed = {} /\ job'[j].todo # <<>>
    BY <2>1, <1>0, <1>o DEF OwnProgress, Removing, Work
  <2>3. OwnProgress(j)'
    BY <2>1, <2>2 DEF OwnProgress, AtRow, Current, Born, Work, Removing
  <2>4. Current(j)' = r /\ ~Born(r)
    BY <2>1 DEF Current, Born
  <2>5. \A q \in Ids : q # r => Spared(q)
    BY <2>1, SameSpares
  <2>6. ~AtRow(j)
    BY <2>1 DEF AtRow, Work
  <2>7. rows'[r].state # "unborn"
    BY <2>1
  <2>8. \A i \in Jobs \ {j} : OwnProgress(i)'
    <3> SUFFICES ASSUME NEW i \in Jobs \ {j} PROVE OwnProgress(i)'
      OBVIOUS
    <3>1. job'[i] = job[i]
      BY <2>1 DEF Others
    <3>2. AtRow(i) => Current(i) # r /\ Current(i) \in Ids
      BY <1>o, <2>4 DEF OwnProgress
    <3>3. \A q \in job[i].doomed : q # r /\ q \in Ids
      BY <1>o, <2>4, Basics DEF OwnProgress
    <3>. QED BY <1>o, <2>5, <3>1, <3>2, <3>3
             DEF Spared, OwnProgress, AtRow, Current, Born, Work, Removing
  <2>9. \A i \in Jobs : \A k \in Jobs \ {i} : AtRow(k)' /\ AtRow(i)' => Current(k)' # Current(i)'
    <3>1. \A i \in Jobs \ {j} : AtRow(i)' => AtRow(i) /\ Current(i)' = Current(i)
      BY <2>1 DEF Others, AtRow, Current
    <3>2. \A i \in Jobs \ {j} : AtRow(i)' => Current(i)' # r
      BY <3>1, <2>4, <1>o DEF OwnProgress
    <3>3. \A i \in Jobs : \A k \in Jobs \ {i} : AtRow(k) /\ AtRow(i) => Current(k) # Current(i)
      BY DEF Progress
    <3>. QED BY <2>4, <3>1, <3>2, <3>3
  <2>10. \A i \in Jobs : OwnProgress(i)'
    BY <2>3, <2>8
  <2>. QED BY <2>9, <2>10 DEF Progress, OwnProgress, AtRow, Removing, Current, Born, Work
<1>3. ASSUME NEW j \in Jobs, Dump(j) PROVE Progress'
  <2>1. job[j].pc = "dump" /\ ((Proceeds(j) /\ job'[j].pc = "measure") \/ Fails(j))
    BY <1>3, DumpEffect
  <2>2. ~job[j].uploaded /\ ~job[j].dropped
    BY <2>1, <1>o DEF OwnProgress
  <2>. QED BY <1>0, <1>c, <1>e, <2>1, <2>2 DEF Proceeds, Fails
<1>4. ASSUME NEW j \in Jobs, Measure(j) PROVE Progress'
  <2>1. /\ job[j].pc = "measure"
        /\ \/ /\ Proceeds(j)
              /\ \/ job'[j].pc = "upload" /\ job[j].setup.save_s3
                 \/ job'[j].pc = "success" /\ ~job[j].setup.save_s3
           \/ Fails(j)
    BY <1>4, MeasureEffect
  <2>2. ~job[j].uploaded /\ ~job[j].dropped
    BY <2>1, <1>o DEF OwnProgress
  <2>. QED BY <1>0, <1>c, <1>e, <2>1, <2>2 DEF Proceeds, Fails
<1>5. ASSUME NEW j \in Jobs, Upload(j) PROVE Progress'
  <2>1. /\ job[j].pc = "upload" /\ Continues(j) /\ job'[j].dropped = job[j].dropped
        /\ job'[j].pc \in {"drop", "success"} /\ job'[j].uploaded \in BOOLEAN
    BY <1>5, UploadEffect
  <2>2. ~job[j].dropped /\ job[j].setup.save_s3
    BY <2>1, <1>o DEF OwnProgress
  <2>. QED BY <1>0, <1>c, <2>1, <2>2
<1>6. ASSUME NEW j \in Jobs, Drop(j) PROVE Progress'
  <2>1. /\ job[j].pc = "drop" /\ Continues(j) /\ job'[j].dropped = TRUE
        /\ job'[j].pc = "success" /\ job'[j].uploaded = job[j].uploaded
    BY <1>6, DropEffect
  <2>. QED BY <1>0, <1>c, <2>1
<1>7. ASSUME NEW j \in Jobs, Success(j) PROVE Progress'
  BY <1>e, <1>7, SuccessEffect
<1>8. ASSUME NEW j \in Jobs, List(j) PROVE Progress'
  <2>1. job[j].pc = "list" /\ job[j].pc \in Retention /\ rows' = rows
    BY <1>8, ListEffect DEF Retention
  <2>2. \A r \in Ids : Spared(r)
    BY <2>1, SameSpares
  <2>3. CASE Turns(j)
    BY <1>t, <2>1, <2>2, <2>3
  <2>4. CASE ~Turns(j)
    <3>1. /\ Carries(j) /\ job'[j].pc = "remove"
          /\ job'[j].uploaded = job[j].uploaded /\ job'[j].dropped = job[j].dropped
          /\ job'[j].doomed \subseteq Kept(job[j].where)
      BY <1>8, <2>4, ListEffect
    <3>2. job'[j].uploaded = FALSE /\ job'[j].dropped = FALSE
      BY <1>0, <1>o, <2>1, <3>1 DEF OwnProgress
    <3>3. \A r \in job'[j].doomed : rows'[r].state # "unborn" /\ rows'[r].status = "success"
      BY <2>1, <3>1 DEF Kept, There
    <3>4. OwnProgress(j)' /\ ~AtRow(j)'
      BY <3>1, <3>2, <3>3 DEF OwnProgress, AtRow, Work, Removing, Born
    <3>. QED BY <2>2, <3>1, <3>4, JobProgress DEF Carries
  <2>. QED BY <2>3, <2>4
<1>9. ASSUME NEW j \in Jobs, RemoveOld(j) PROVE Progress'
  <2>1. /\ job[j].pc = "remove" /\ Carries(j) /\ job'[j].pc = "mark"
        /\ job'[j].uploaded = job[j].uploaded /\ job'[j].dropped = job[j].dropped
        /\ job'[j].doomed = job[j].doomed /\ rows' = rows
    BY <1>9, RemoveOldEffect
  <2>2. \A r \in Ids : Spared(r)
    BY <2>1, SameSpares
  <2>3. job'[j].uploaded = FALSE /\ job'[j].dropped = FALSE
    BY <1>0, <1>o, <2>1 DEF OwnProgress
  <2>4. \A r \in job'[j].doomed : rows'[r].state # "unborn" /\ rows'[r].status = "success"
    BY <1>o, <2>1 DEF OwnProgress, Born
  <2>5. OwnProgress(j)' /\ ~AtRow(j)'
    BY <2>1, <2>3, <2>4 DEF OwnProgress, AtRow, Work, Removing, Born
  <2>. QED BY <2>1, <2>2, <2>5, JobProgress DEF Carries
<1>10. ASSUME NEW j \in Jobs, MarkDeleted(j) PROVE Progress'
  <2>1. job[j].pc = "mark" /\ Turns(j) /\ job[j].pc \in Retention
    BY <1>10, MarkEffect DEF Retention
  <2>2. \A r \in Ids : Spared(r)
    BY <1>10, <1>o, MarkEffect DEF Spared, Born, OwnProgress
  <2>. QED BY <1>t, <2>1, <2>2
<1>11. ASSUME NEW j \in Jobs, Purge(j) PROVE Progress'
  <2>1. OwnProgress(j)' /\ ~AtRow(j)' /\ Others(j) /\ Forgets
    BY <1>i, <1>11, PurgeEffect
  <2>. QED BY <2>1, ForgetsSpares, JobProgress
<1>12. ASSUME NEW j \in Jobs, Dies(j) PROVE Progress'
  <2>1. Stops /\ \A r \in Ids : Spared(r)
    BY <1>12, DiesEffect, SameSpares
  <2>. QED BY <2>1, QuietProgress DEF Stops
<1>13. CASE Restart
  <2>1. Stops /\ \A j \in Jobs : job'[j].pc = "idle"
    BY <1>13, RestartEffect
  <2>. QED BY <2>1, QuietProgress DEF Stops
<1>14. ASSUME NEW r \in Ids, DeleteExecution(r) PROVE Progress'
  <2>1. Forgets /\ job' = job
    BY <1>14, DeleteExecutionEffect
  <2>. QED BY <2>1, ForgetsSpares, QuietProgress
<1>15. CASE Cleanup
  <2>1. Forgets /\ job' = job
    BY <1>15, CleanupEffect
  <2>. QED BY <2>1, ForgetsSpares, QuietProgress
<1>16. CASE (Submit \/ DeleteStorage) \/ UNCHANGED vars
  <2>1. rows' = rows /\ job' = job
    BY <1>16, SubmitEffect DEF vars
  <2>. QED BY <2>1, SameSpares, QuietProgress
<1>. QED BY <1>1, <1>2, <1>3, <1>4, <1>5, <1>6, <1>7, <1>8, <1>9, <1>10, <1>11, <1>12,
            <1>13, <1>14, <1>15, <1>16 DEF Next, Step

-----------------------------------------------------------------------------
(* Every running execution is accounted for *)

Open(r) == There(r) /\ rows[r].status = "running"

\* A job keeps its execution, closes it, or leaves it to the next restart.
LEMMA OpenKept ==
  ASSUME Accounted, cut \subseteq cut',
         \A r \in Ids : Open(r)' => \/ Open(r)
                                    \/ \E j \in Jobs : AtRow(j)' /\ Current(j)' = r,
         \A j \in Jobs, r \in Ids :
           AtRow(j) /\ Current(j) = r => \/ AtRow(j)' /\ Current(j)' = r
                                         \/ r \in cut' \/ ~Open(r)'
  PROVE  Accounted'
<1> SUFFICES ASSUME NEW r \in Ids, Open(r)'
             PROVE  r \in cut' \/ \E j \in Jobs : AtRow(j)' /\ Current(j)' = r
  BY DEF Accounted, AtRow, Open
<1>1. CASE Open(r)
  <2>1. r \in cut \/ \E j \in Jobs : AtRow(j) /\ Current(j) = r
    BY <1>1 DEF Accounted, AtRow, Open
  <2>2. ASSUME NEW j \in Jobs, AtRow(j), Current(j) = r
        PROVE  (AtRow(j)' /\ Current(j)' = r) \/ r \in cut'
    BY <2>2, r \in Ids, Open(r)'
  <2>. QED BY <2>1, <2>2
<1>. QED BY <1>1

LEMMA AccountedStep ==
  ASSUME TypeOK, Progress, Accounted, [Next]_vars
  PROVE  Accounted'
<1>o. /\ \A i \in Jobs : AtRow(i) => Current(i) \in Ids
      /\ \A i, k \in Jobs : AtRow(i) /\ AtRow(k) /\ i # k => Current(i) # Current(k)
  BY DEF Progress
<1>m. ASSUME NEW j \in Jobs, Others(j), cut' = cut, rows' = rows,
             AtRow(j) => AtRow(j)' /\ Current(j)' = Current(j)
      PROVE  Accounted'
  <2>1. \A r \in Ids : Open(r)' => Open(r)
    BY <1>m DEF Open, There
  <2>2. \A i \in Jobs : AtRow(i) => AtRow(i)' /\ Current(i)' = Current(i)
    BY <1>m DEF Others, AtRow, Current
  <2>. QED BY <1>m, <2>1, <2>2, OpenKept
<1>e. ASSUME NEW j \in Jobs, Ends(j), cut' = cut,
             There(Current(j)) => rows'[Current(j)].status # "running"
      PROVE  Accounted'
  <2>1. Others(j) /\ AtRow(j) /\ Current(j) \in Ids
    BY <1>e, <1>o DEF Ends
  <2>2. \A r \in Ids : r = Current(j) => ~Open(r)'
    BY <1>e DEF Ends, Open, There
  <2>3. \A r \in Ids : Open(r)' => Open(r)
    BY <1>e, <2>2 DEF Ends, Open, There
  <2>4. \A i \in Jobs, r \in Ids :
          AtRow(i) /\ Current(i) = r => (AtRow(i)' /\ Current(i)' = r) \/ ~Open(r)'
    BY <2>1, <2>2 DEF Others, AtRow, Current
  <2>. QED BY <1>e, <2>3, <2>4, OpenKept
<1>f. ASSUME Forgets, cut' = cut,
             \A i \in Jobs : AtRow(i) => AtRow(i)' /\ Current(i)' = Current(i)
      PROVE  Accounted'
  <2>1. \A r \in Ids : Open(r)' => Open(r)
    BY <1>f DEF Forgets, Open, There
  <2>. QED BY <1>f, <2>1, OpenKept
<1>s. ASSUME Stops PROVE \A i \in Jobs : AtRow(i) => \/ AtRow(i)' /\ Current(i)' = Current(i)
                                                     \/ Current(i) \in cut'
  <2> SUFFICES ASSUME NEW i \in Jobs, AtRow(i), job'[i] # job[i] PROVE Current(i) \in cut'
    BY DEF AtRow, Current
  <2>1. AtWork(i) \subseteq cut'
    BY <1>s DEF Stops
  <2>2. AtWork(i) = {Current(i)}
    BY DEF AtWork, AtRow, Work
  <2>. QED BY <2>1, <2>2
<1>1. ASSUME NEW j \in Jobs, Dispatch(j) PROVE Accounted'
  <2>1. Others(j) /\ cut' = cut /\ rows' = rows /\ ~AtRow(j)
    BY <1>1, DispatchEffect DEF AtRow, Work
  <2>. QED BY <1>m, <2>1
<1>2. ASSUME NEW j \in Jobs, Create(j) PROVE Accounted'
  <2>1. PICK r \in Ids :
           /\ \A q \in Ids \ {r} : rows'[q] = rows[q]
           /\ job[j].pc = "create" /\ Others(j)
           /\ job'[j].pc = "dump" /\ job'[j].row = r /\ cut' = cut
    BY <1>2, CreateEffect
  <2>2. AtRow(j)' /\ Current(j)' = r /\ ~AtRow(j)
    BY <2>1 DEF AtRow, Current, Work
  <2>3. \A q \in Ids \ {r} : Open(q)' => Open(q)
    BY <2>1 DEF Open, There
  <2>4. \A i \in Jobs : AtRow(i) => AtRow(i)' /\ Current(i)' = Current(i)
    BY <2>1, <2>2 DEF Others, AtRow, Current
  <2>. QED BY <2>1, <2>2, <2>3, <2>4, OpenKept
<1>p. ASSUME NEW j \in Jobs, Continues(j) PROVE Accounted'
  <2>1. Others(j) /\ cut' = cut /\ rows' = rows /\ AtRow(j)' /\ Current(j)' = Current(j)
    BY <1>p DEF Continues, Carries, AtRow, Current, Work
  <2>. QED BY <1>m, <2>1
<1>3. ASSUME NEW j \in Jobs, Dump(j) \/ Measure(j) PROVE Accounted'
  <2>1. cut' = cut /\ (Proceeds(j) \/ Fails(j))
    BY <1>3, DumpEffect, MeasureEffect
  <2>2. Fails(j) => Ends(j) /\ (There(Current(j)) => rows'[Current(j)].status # "running")
    BY DEF Fails
  <2>. QED BY <1>p, <1>e, <2>1, <2>2 DEF Proceeds
<1>4. ASSUME NEW j \in Jobs, Upload(j) \/ Drop(j) PROVE Accounted'
  BY <1>4, <1>p, UploadEffect, DropEffect
<1>5. ASSUME NEW j \in Jobs, Success(j) PROVE Accounted'
  <2>1. Ends(j) /\ cut' = cut /\ (There(Current(j)) => rows'[Current(j)].status # "running")
    BY <1>5, SuccessEffect
  <2>. QED BY <1>e, <2>1
<1>6. ASSUME NEW j \in Jobs, List(j) \/ RemoveOld(j) PROVE Accounted'
  <2>1. Others(j) /\ cut' = cut /\ rows' = rows /\ job[j].pc \in {"list", "remove"}
    BY <1>6, ListEffect, RemoveOldEffect DEF Turns, Carries
  <2>2. ~AtRow(j)
    BY <2>1 DEF AtRow, Work
  <2>. QED BY <1>m, <2>1, <2>2
<1>7. ASSUME NEW j \in Jobs, MarkDeleted(j) PROVE Accounted'
  <2>1. job[j].pc = "mark" /\ Others(j) /\ cut' = cut
    BY <1>7, MarkEffect DEF Turns
  <2>2. \A i \in Jobs : AtRow(i) => AtRow(i)' /\ Current(i)' = Current(i)
    BY <2>1 DEF Others, AtRow, Current, Work
  <2>3. \A r \in Ids : Open(r)' => Open(r)
    BY <1>7, MarkEffect DEF Open, There
  <2>. QED BY <2>1, <2>2, <2>3, OpenKept
<1>8. ASSUME NEW j \in Jobs, Purge(j) PROVE Accounted'
  <2>1. job[j].pc = "purge" /\ Others(j) /\ cut' = cut /\ Forgets
    BY <1>8, PurgeEffect
  <2>2. \A i \in Jobs : AtRow(i) => AtRow(i)' /\ Current(i)' = Current(i)
    BY <2>1 DEF Others, AtRow, Current, Work
  <2>. QED BY <1>f, <2>1, <2>2
<1>9. ASSUME NEW j \in Jobs, Dies(j) PROVE Accounted'
  <2>1. Stops /\ rows' = rows /\ cut \subseteq cut'
    BY <1>9, DiesEffect DEF Stops
  <2>2. \A r \in Ids : Open(r)' => Open(r)
    BY <2>1 DEF Open, There
  <2>. QED BY <1>s, <2>1, <2>2, OpenKept
<1>10. CASE Restart
  <2>1. Stops /\ cut \subseteq cut'
    BY <1>10, RestartEffect DEF Stops
  <2>2. \A r \in Ids : Open(r)' => Open(r)
    BY <1>10, RestartEffect DEF Open, There
  <2>. QED BY <1>s, <2>1, <2>2, OpenKept
<1>11. CASE (\E r \in Ids : DeleteExecution(r)) \/ Cleanup
  <2>1. Forgets /\ cut' = cut /\ job' = job
    BY <1>11, DeleteExecutionEffect, CleanupEffect
  <2>. QED BY <1>f, <2>1 DEF AtRow, Current
<1>12. CASE (Submit \/ DeleteStorage) \/ UNCHANGED vars
  <2>1. rows' = rows /\ job' = job /\ cut' = cut
    BY <1>12, SubmitEffect DEF vars
  <2>. QED BY <2>1, OpenKept DEF Open, There, AtRow, Current
<1>. QED BY <1>1, <1>2, <1>3, <1>4, <1>5, <1>6, <1>7, <1>8, <1>9, <1>10, <1>11, <1>12
         DEF Next, Step

-----------------------------------------------------------------------------
(* What a step does to the table and to the stores *)

\* An execution keeps the name of its file, and what is gone does not return.
Grows == \A r \in Ids : Born(r) => /\ rows'[r].state # "unborn"
                                   /\ rows'[r].file = rows[r].file
                                   /\ ~There(r) => rows'[r].state = rows[r].state

\* Who writes into a store: a dump locally, an upload to S3.
Writer(j, w) == /\ job'[j].pc # job[j].pc
                /\ \/ job[j].pc = "dump" /\ w = "local"
                   \/ job[j].pc = "upload" /\ w = "s3"

Writes ==
  /\ unremoved \subseteq unremoved'
  /\ \A w \in Stores, f \in Files :
       \/ copies'[w][f] \in {copies[w][f], "none"}
       \/ \E j \in Jobs : Writer(j, w) /\ File(j) = f

\* Who erases a copy: the job that has uploaded it, retention, its user.
Erases ==
  \A w \in Stores, f \in Files : copies[w][f] # "none" /\ copies'[w][f] = "none" =>
    \/ \E j \in Jobs : /\ job[j].pc = "drop" /\ w = "local" /\ File(j) = f
                       /\ job'[j].dropped = TRUE
    \/ \E j \in Jobs : /\ job[j].pc = "remove" /\ job'[j].pc = "mark"
                       /\ job'[j].where = w /\ job[j].where = w
                       /\ job'[j].doomed = job[j].doomed
                       /\ \E q \in job[j].doomed : rows[q].file = f
    \/ \E q \in Ids : There(q) /\ rows[q].file = f /\ rows'[q].state = "deleted"

LEMMA GrowsStep ==
  ASSUME TypeOK, Progress, [Next]_vars
  PROVE  Grows
<1>1. CASE rows' = rows
  BY <1>1 DEF Grows, Born, There
<1>2. ASSUME NEW j \in Jobs, Ends(j) PROVE Grows
  BY <1>2 DEF Ends, Grows, Born, There
<1>3. CASE Forgets
  BY <1>3 DEF Forgets, Grows, Born, There
<1>4. ASSUME NEW j \in Jobs, Create(j) PROVE Grows
  <2>1. PICK r \in Ids : ~Born(r) /\ \A q \in Ids \ {r} : rows'[q] = rows[q]
    BY <1>4, CreateEffect DEF Born
  <2>. QED BY <2>1 DEF Grows, Born, There
<1>5. ASSUME NEW j \in Jobs, MarkDeleted(j) PROVE Grows
  BY <1>5, MarkEffect DEF Grows, Born, There
<1>6. CASE Restart
  BY <1>6, RestartEffect DEF Grows, Born, There
<1>7. ASSUME NEW j \in Jobs, Dispatch(j) \/ Upload(j) \/ Drop(j) \/ List(j) \/ RemoveOld(j)
      PROVE  rows' = rows
  BY <1>7, DispatchEffect, UploadEffect, DropEffect, ListEffect, RemoveOldEffect
<1>8. ASSUME NEW j \in Jobs, Dump(j) \/ Measure(j) PROVE rows' = rows \/ Ends(j)
  BY <1>8, DumpEffect, MeasureEffect DEF Proceeds, Continues, Fails
<1>9. ASSUME NEW j \in Jobs, Success(j) PROVE Ends(j)
  BY <1>9, SuccessEffect
<1>10. ASSUME NEW j \in Jobs, Purge(j) PROVE Forgets
  BY <1>10, PurgeEffect
<1>11. ASSUME NEW j \in Jobs, Dies(j) PROVE rows' = rows
  BY <1>11, DiesEffect
<1>12. ASSUME NEW r \in Ids, DeleteExecution(r) PROVE Forgets
  BY <1>12, DeleteExecutionEffect
<1>13. Cleanup => Forgets
  BY CleanupEffect
<1>14. (Submit \/ DeleteStorage) \/ UNCHANGED vars => rows' = rows
  BY SubmitEffect DEF vars
<1>. QED BY <1>1, <1>2, <1>3, <1>4, <1>5, <1>6, <1>7, <1>8, <1>9, <1>10, <1>11, <1>12,
            <1>13, <1>14 DEF Next, Step

LEMMA GrowsShared ==
  ASSUME Grows, NEW r \in Ids, Born(r)
  PROVE  (Shared(r) => Shared(r)') /\ (Tied(r) => Tied(r)') /\ Born(r)'
         /\ At(r)' = At(r) /\ rows'[r].file = rows[r].file
BY DEF Grows, Shared, Tied, At, Born

LEMMA StoresStep ==
  ASSUME TypeOK, Progress, [Next]_vars
  PROVE  Writes /\ Erases
<1>1. CASE copies' = copies /\ unremoved' = unremoved
  BY <1>1 DEF Writes, Erases
<1>2. ASSUME NEW j \in Jobs, Dump(j) PROVE Writes /\ Erases
  <2>1. /\ job[j].pc = "dump" /\ job'[j].pc # "dump" /\ Dumped(j) /\ unremoved' = unremoved
    BY <1>2, DumpEffect DEF Fails, Ends
  <2>2. Writes
    BY <2>1 DEF Dumped, Writes, Writer
  <2>3. Erases
    BY <2>1 DEF Dumped, Erases
  <2>. QED BY <2>2, <2>3
<1>3. ASSUME NEW j \in Jobs, Upload(j) PROVE Writes /\ Erases
  <2>1. /\ job[j].pc = "upload" /\ job'[j].pc # "upload"
        /\ unremoved' = unremoved /\ copies'["local"] = copies["local"]
        /\ copies' = copies \/ copies'["s3"][File(j)] # "none"
        /\ \A w \in Stores, f \in Files : f # File(j) => copies'[w][f] = copies[w][f]
    BY <1>3, UploadEffect DEF Continues
  <2>2. Writes
    BY <2>1 DEF Writes, Writer, Stores
  <2>3. Erases
    BY <2>1 DEF Erases, Stores
  <2>. QED BY <2>2, <2>3
<1>4. ASSUME NEW j \in Jobs, Drop(j) PROVE Writes /\ Erases
  <2>1. /\ job[j].pc = "drop" /\ job'[j].dropped = TRUE /\ copies'["s3"] = copies["s3"]
        /\ unremoved \subseteq unremoved'
        /\ \A w \in Stores, f \in Files : f # File(j) => copies'[w][f] = copies[w][f]
    BY <1>4, DropEffect DEF Continues
  <2>2. Erases
    BY <2>1 DEF Erases, Stores
  <2>3. \A w \in Stores, f \in Files : copies'[w][f] \in {copies[w][f], "none"}
    <3>1. PICK worked \in BOOLEAN : Remove("local", {File(j)}, worked)
      BY <1>4 DEF Drop
    <3>2. "local" \in Stores
      BY DEF Stores
    <3>3. CASE worked
      <4>1. copies' = [copies EXCEPT !["local"] =
                         [f \in Files |-> IF f \in {File(j)} THEN "none"
                                          ELSE copies["local"][f]]]
        BY <3>1, <3>3 DEF Remove
      <4> DEFINE kept == [f \in Files |-> IF f \in {File(j)} THEN "none"
                                          ELSE copies["local"][f]]
      <4>2. \A f \in Files : kept[f] \in {copies["local"][f], "none"}
        OBVIOUS
      <4>3. copies' = [copies EXCEPT !["local"] = kept]
        BY <4>1
      <4>. HIDE DEF kept
      <4>. QED BY <3>2, <4>2, <4>3, Basics
    <3>4. CASE ~worked
      BY <3>1, <3>4 DEF Remove
    <3>. QED BY <3>3, <3>4
  <2>. QED BY <2>1, <2>2, <2>3 DEF Writes
<1>5. ASSUME NEW j \in Jobs, RemoveOld(j) PROVE Writes /\ Erases
  <2>1. /\ job[j].pc = "remove" /\ job'[j].where = job[j].where /\ job'[j].pc = "mark"
        /\ job'[j].doomed = job[j].doomed
        /\ unremoved \subseteq unremoved'
        /\ \A v \in Stores, g \in Files :
              \/ copies'[v][g] = copies[v][g]
              \/ /\ v = job[j].where /\ copies'[v][g] = "none"
                 /\ \E r \in job[j].doomed : g = rows[r].file
    BY <1>5, RemoveOldEffect DEF Carries
  <2>2. Writes
    BY <2>1 DEF Writes
  <2>3. Erases
    BY <2>1 DEF Erases
  <2>. QED BY <2>2, <2>3
<1>6. CASE Stops
  <2>1. Writes
    BY <1>6 DEF Stops, Writes, Writer
  <2>2. Erases
    BY <1>6 DEF Stops, Erases
  <2>. QED BY <2>1, <2>2
<1>7. ASSUME NEW r \in Ids, DeleteExecution(r) PROVE Writes /\ Erases
  <2>1. /\ rows'[r].state = "deleted" /\ unremoved' = unremoved
        /\ \A w \in Stores, f \in Files :
              \/ copies'[w][f] = copies[w][f]
              \/ f = rows[r].file /\ copies'[w][f] = "none"
    BY <1>7, DeleteExecutionEffect
  <2>2. There(r)
    BY <1>7 DEF DeleteExecution
  <2>3. Writes
    BY <2>1 DEF Writes
  <2>4. Erases
    BY <2>1, <2>2 DEF Erases
  <2>. QED BY <2>3, <2>4
<1>8. ASSUME NEW j \in Jobs, Dispatch(j) \/ Create(j) \/ Measure(j) \/ Success(j) \/ List(j)
                             \/ MarkDeleted(j) \/ Purge(j)
      PROVE  copies' = copies /\ unremoved' = unremoved
  BY <1>8 DEF Dispatch, Create, Measure, Success, List, MarkDeleted, Purge
<1>9. ASSUME NEW j \in Jobs, Dies(j) PROVE Stops
  BY <1>9, DiesEffect
<1>10. Restart => Stops
  BY RestartEffect
<1>11. Cleanup \/ (Submit \/ DeleteStorage) \/ UNCHANGED vars =>
         copies' = copies /\ unremoved' = unremoved
  BY DEF Cleanup, Submit, DeleteStorage, vars
<1>. QED BY <1>1, <1>2, <1>3, <1>4, <1>5, <1>6, <1>7, <1>8, <1>9, <1>10, <1>11 DEF Next, Step

-----------------------------------------------------------------------------
(* Marked and Named *)

LEMMA InitMarked == Init => Marked /\ Named
<1> SUFFICES ASSUME Init PROVE Marked /\ Named
  OBVIOUS
<1>1. \A r \in Ids : ~Born(r)
  BY DEF Init, Unborn, Born
<1>2. \A w \in Stores, f \in Files : copies[w][f] = "none"
  BY DEF Init
<1>. QED BY <1>1, <1>2 DEF Marked, Named

LEMMA NamedStep ==
  ASSUME TypeOK, Progress, Named, Grows, Writes
  PROVE  Named'
<1> SUFFICES ASSUME NEW w \in Stores, NEW f \in Files, copies'[w][f] # "none"
             PROVE  \E r \in Ids : Born(r)' /\ rows'[r].file = f
  BY DEF Named
<1>1. \E r \in Ids : Born(r) /\ rows[r].file = f
  <2>1. CASE copies[w][f] # "none"
    BY <2>1 DEF Named
  <2>2. CASE copies[w][f] = "none"
    <3>1. PICK j \in Jobs : Writer(j, w) /\ File(j) = f
      BY <2>2 DEF Writes
    <3>2. Begun(j)
      BY <3>1, BegunAtRow DEF Writer, AtRow, Work
    <3>. QED BY <3>1, <3>2 DEF Begun, File
  <2>. QED BY <2>1, <2>2
<1>. QED BY <1>1, GrowsShared DEF Grows

LEMMA MarkedStep ==
  ASSUME TypeOK, Progress, Marked, [Next]_vars
  PROVE  Marked'
<1> DEFINE Kosher(r) == /\ rows'[r].deleted # {} => rows'[r].status = "success"
                        /\ rows'[r].state = "purged" => Copyless(r)'
<1> SUFFICES ASSUME NEW r \in Ids, Born(r)' PROVE Kosher(r)
  BY DEF Marked
<1>1. ASSUME rows'[r] = rows[r] PROVE Kosher(r)
  BY <1>1 DEF Marked, Born, Copyless
<1>2. ASSUME NEW j \in Jobs, Ends(j),
             r = Current(j) /\ rows'[r].state = "purged" => rows'[r] = rows[r],
             r = Current(j) /\ rows'[r].deleted # {} => rows'[r].status = "success"
      PROVE  Kosher(r)
  <2>1. CASE r = Current(j)
    BY <1>1, <1>2, <2>1
  <2>2. CASE r # Current(j)
    BY <1>1, <1>2, <2>2 DEF Ends
  <2>. QED BY <2>1, <2>2
<1>3. CASE Forgets
  BY <1>3 DEF Forgets, Marked, Born, Copyless, There
<1>4. ASSUME NEW j \in Jobs, Create(j) PROVE Kosher(r)
  <2>1. PICK q \in Ids : /\ rows'[q].deleted = {} /\ rows'[q].state = "there"
                         /\ \A p \in Ids \ {q} : rows'[p] = rows[p]
    BY <1>4, CreateEffect
  <2>. QED BY <1>1, <2>1
<1>5. ASSUME NEW j \in Jobs, Dump(j) \/ Measure(j) PROVE Kosher(r)
  <2>1. Fails(j) \/ rows' = rows
    BY <1>5, DumpEffect, MeasureEffect DEF Proceeds, Continues
  <2>2. CASE Fails(j)
    BY <1>2, <2>2 DEF Fails, Ends, There
  <2>. QED BY <1>1, <2>1, <2>2
<1>6. ASSUME NEW j \in Jobs, Success(j) PROVE Kosher(r)
  <2>1. Ends(j) /\ (There(Current(j)) => rows'[Current(j)].status = "success")
    BY <1>6, SuccessEffect
  <2>2. rows[Current(j)].deleted = {}
    BY <2>1, BegunAtRow DEF Begun, Ends
  <2>. QED BY <1>2, <2>1, <2>2 DEF Ends, There
<1>7. ASSUME NEW j \in Jobs, MarkDeleted(j) PROVE Kosher(r)
  <2>1. CASE r \in job[j].doomed /\ There(r)
    BY <1>7, <2>1, MarkEffect DEF There, Progress
  <2>2. CASE ~(r \in job[j].doomed /\ There(r))
    BY <1>1, <1>7, <2>2, MarkEffect
  <2>. QED BY <2>1, <2>2
<1>8. CASE Restart
  BY <1>8, RestartEffect DEF Marked, Born, There, Copyless
<1>9. ASSUME NEW j \in Jobs, Dispatch(j) \/ Upload(j) \/ Drop(j) \/ List(j) \/ RemoveOld(j)
      PROVE  rows' = rows
  BY <1>9, DispatchEffect, UploadEffect, DropEffect, ListEffect, RemoveOldEffect
<1>10. ASSUME NEW j \in Jobs, Purge(j) PROVE Forgets
  BY <1>10, PurgeEffect
<1>11. ASSUME NEW j \in Jobs, Dies(j) PROVE rows' = rows
  BY <1>11, DiesEffect
<1>12. ASSUME NEW q \in Ids, DeleteExecution(q) PROVE Forgets
  BY <1>12, DeleteExecutionEffect
<1>13. Cleanup => Forgets
  BY CleanupEffect
<1>14. (Submit \/ DeleteStorage) \/ UNCHANGED vars => rows' = rows
  BY SubmitEffect DEF vars
<1>. QED BY <1>1, <1>3, <1>4, <1>5, <1>6, <1>7, <1>8, <1>9, <1>10, <1>11, <1>12,
            <1>13, <1>14 DEF Next, Step

-----------------------------------------------------------------------------
(* Clean *)

\* A job is moved by its own steps, and ended by a death.
LEMMA OwnSteps ==
  ASSUME TypeOK, Progress, [Next]_vars, NEW j \in Jobs, job'[j] # job[j]
  PROVE  \/ Create(j) \/ Dump(j) \/ Measure(j) \/ Upload(j) \/ Drop(j)
         \/ Success(j) \/ List(j) \/ RemoveOld(j) \/ MarkDeleted(j)
         \/ job'[j].pc \in {"idle", "create"} /\ job'[j].doomed = {}
<1>1. ASSUME NEW i \in Jobs, Dispatch(i) PROVE Others(i)
  BY <1>1, DispatchEffect
<1>2. ASSUME NEW i \in Jobs, Step(i) PROVE Others(i)
  <2>1. Create(i) => Others(i)
    BY CreateEffect
  <2>2. Dump(i) \/ Measure(i) \/ Upload(i) \/ Drop(i) \/ Success(i) => Others(i)
    BY DumpEffect, MeasureEffect, UploadEffect, DropEffect, SuccessEffect
       DEF Proceeds, Continues, Carries, Fails, Ends
  <2>3. List(i) \/ RemoveOld(i) \/ MarkDeleted(i) \/ Purge(i) => Others(i)
    BY ListEffect, RemoveOldEffect, MarkEffect, PurgeEffect DEF Turns, Carries
  <2>. QED BY <1>2, <2>1, <2>2, <2>3 DEF Step
<1>3. ASSUME Stops PROVE job'[j].pc = "idle" /\ job'[j].doomed = {}
  BY <1>3 DEF Stops
<1>4. CASE \E i \in Jobs : Dispatch(i) \/ Step(i)
  <2>1. Dispatch(j) \/ Step(j)
    BY <1>1, <1>2, <1>4 DEF Others
  <2>2. Dispatch(j) => job'[j].pc = "create" /\ job'[j].doomed = {}
    BY DispatchEffect
  <2>3. Purge(j) => job'[j].pc = "idle" /\ job'[j].doomed = {}
    BY PurgeEffect
  <2>. QED BY <2>1, <2>2, <2>3 DEF Step
<1>5. ASSUME NEW i \in Jobs, Dies(i) PROVE Stops
  BY <1>5, DiesEffect
<1>6. Restart => Stops
  BY RestartEffect
<1>7. (\E r \in Ids : DeleteExecution(r)) \/ Cleanup \/ (Submit \/ DeleteStorage)
        \/ UNCHANGED vars => job' = job
  BY DeleteExecutionEffect, CleanupEffect, SubmitEffect DEF vars
<1>. QED BY <1>3, <1>4, <1>5, <1>6, <1>7 DEF Next

\* The execution of a job is that of no other.
LEMMA OneWriter ==
  ASSUME TypeOK, Progress, NEW j \in Jobs, NEW w \in Stores, Writer(j, w)
  PROVE  /\ AtRow(j) /\ Current(j) \in Ids /\ Born(Current(j))
         /\ rows[Current(j)].status = "running" /\ rows[Current(j)].deleted = {}
<1>1. AtRow(j)
  BY DEF Writer, AtRow, Work
<1>. QED BY <1>1, BegunAtRow DEF Begun

\* What is gone stays gone, unless its execution is at work again.
LEMMA GoneStays ==
  ASSUME TypeOK, Progress, Grows, Writes, NEW r \in Ids, NEW w \in Stores,
         Born(r), ~Shared(r)', Gone(r, w),
         \A j \in Jobs : Writer(j, w) => Current(j) # r
  PROVE  Gone(r, w)'
<1>1. rows'[r].file = rows[r].file /\ rows[r].file \in Files /\ ~Shared(r)
  BY GrowsShared, Basics
<1>2. ASSUME NEW j \in Jobs, Writer(j, w), File(j) = rows[r].file PROVE FALSE
  <2>1. Current(j) \in Ids \ {r} /\ Born(Current(j))
    BY <1>2, OneWriter
  <2>. QED BY <1>1, <1>2, <2>1 DEF Shared, Born, File
<1>3. copies'[w][rows[r].file] \in {copies[w][rows[r].file], "none"}
  BY <1>1, <1>2 DEF Writes
<1>. QED BY <1>1, <1>3 DEF Gone, Writes

\* What Clean says of an execution.
RowClean(r) ==
  /\ \A w \in rows[r].deleted : Gone(r, w)
  /\ rows[r].status = "success" /\ rows[r].s3_uploaded = "null" => Gone(r, "s3")

LEMMA RowCleanStays ==
  ASSUME TypeOK, Progress, Clean, Grows, Writes, NEW r \in Ids, Born(r), ~Shared(r)'
  PROVE  /\ \A w \in rows[r].deleted : Gone(r, w)'
         /\ rows[r].status = "success" /\ rows[r].s3_uploaded = "null" => Gone(r, "s3")'
<1>1. ~Shared(r)
  BY GrowsShared
<1>2. rows[r].deleted \subseteq Stores
  BY Basics DEF Row
<1>3. ASSUME NEW w \in rows[r].deleted PROVE Gone(r, w)'
  <2>1. \A j \in Jobs : Writer(j, w) => Current(j) # r
    BY <1>2, <1>3, OneWriter
  <2>2. Gone(r, w)
    BY <1>1, <1>3 DEF Clean
  <2>. QED BY <1>2, <2>1, <2>2, GoneStays
<1>4. ASSUME rows[r].status = "success", rows[r].s3_uploaded = "null" PROVE Gone(r, "s3")'
  <2> DEFINE w == "s3"
  <2>1. w \in Stores /\ Gone(r, w)
    BY <1>1, <1>4 DEF Clean, Stores
  <2>. HIDE DEF w
  <2>2. \A j \in Jobs : Writer(j, w) => Current(j) # r
    BY <1>4, <2>1, OneWriter
  <2>3. Gone(r, w)'
    BY <2>1, <2>2, GoneStays
  <2>. QED BY <2>3 DEF w, Gone
<1>. QED BY <1>3, <1>4

LEMMA RowCleanStep ==
  ASSUME TypeOK, Progress, Clean, [Next]_vars, NEW r \in Ids, Born(r)', ~Shared(r)'
  PROVE  RowClean(r)'
<1>0. Grows /\ Writes
  BY GrowsStep, StoresStep
<1>1. ASSUME Born(r), rows'[r].deleted = rows[r].deleted,
             rows'[r].s3_uploaded = rows[r].s3_uploaded,
             rows'[r].status = "success" => rows[r].status = "success"
      PROVE  RowClean(r)'
  BY <1>0, <1>1, RowCleanStays DEF RowClean
<1>2. ASSUME Born(r), rows'[r] = rows[r] PROVE RowClean(r)'
  BY <1>1, <1>2
<1>3. ASSUME rows'[r].deleted = {}, rows'[r].status # "success" PROVE RowClean(r)'
  BY <1>3 DEF RowClean
<1>4. ASSUME NEW j \in Jobs, Create(j) PROVE RowClean(r)'
  <2>1. PICK q \in Ids : /\ rows'[q].deleted = {} /\ rows'[q].status = "running"
                         /\ \A p \in Ids \ {q} : rows'[p] = rows[p]
    BY <1>4, CreateEffect
  <2>2. CASE r # q
    BY <1>2, <2>1, <2>2 DEF Born
  <2>. QED BY <1>3, <2>1, <2>2
<1>5. ASSUME NEW j \in Jobs, Fails(j) PROVE RowClean(r)'
  <2>1. CASE r = Current(j)
    BY <1>3, <1>5, <2>1 DEF Fails
  <2>2. CASE r # Current(j)
    BY <1>2, <1>5, <2>2 DEF Fails, Ends, Born
  <2>. QED BY <2>1, <2>2
<1>6. ASSUME NEW j \in Jobs, Success(j) PROVE RowClean(r)'
  <2>1. Ends(j) /\ job[j].pc = "success" /\ AtRow(j) /\ copies' = copies /\ unremoved' = unremoved
    BY <1>6, SuccessEffect DEF Ends
  <2>2. CASE r # Current(j)
    BY <1>2, <2>1, <2>2 DEF Ends, Born
  <2>3. CASE r = Current(j) /\ ~There(r)
    BY <1>2, <2>1, <2>3 DEF Ends, Born
  <2>4. CASE r = Current(j) /\ There(r)
    <3>1. /\ rows'[r].deleted = IF job[j].dropped THEN {"local"} ELSE {}
          /\ rows'[r].s3_uploaded = "null" => ~job[j].setup.save_s3
          /\ rows'[r].file = rows[r].file
      BY <1>6, <2>4, SuccessEffect DEF Ends
    <3>2. ~Shared(r)
      BY <1>0, <2>4, GrowsShared DEF Born, There
    <3>3. /\ job[j].dropped => Gone(r, "local")
          /\ ~job[j].setup.save_s3 => Gone(r, "s3")
      BY <2>1, <2>4, <3>2 DEF Clean
    <3>. QED BY <2>1, <3>1, <3>3 DEF RowClean, Gone
  <2>. QED BY <2>2, <2>3, <2>4
<1>7. ASSUME NEW j \in Jobs, MarkDeleted(j) PROVE RowClean(r)'
  <2>1. /\ job[j].pc = "mark" /\ copies' = copies /\ unremoved' = unremoved
        /\ rows'[r].file = rows[r].file /\ rows'[r].state = rows[r].state
        /\ rows'[r].status = rows[r].status /\ rows'[r].s3_uploaded = rows[r].s3_uploaded
        /\ rows'[r].deleted \subseteq rows[r].deleted \cup {job[j].where}
        /\ rows'[r].deleted # rows[r].deleted => r \in job[j].doomed
    BY <1>7, MarkEffect
  <2>2. Born(r) /\ ~Shared(r)
    BY <1>0, <2>1, GrowsShared DEF Born
  <2>3. CASE r \in job[j].doomed
    <3>1. Gone(r, job[j].where)
      BY <2>1, <2>2, <2>3 DEF Clean
    <3>2. \A w \in rows[r].deleted : Gone(r, w)
      BY <2>2 DEF Clean
    <3>3. rows[r].status = "success" /\ rows[r].s3_uploaded = "null" => Gone(r, "s3")
      BY <2>2 DEF Clean
    <3>. QED BY <2>1, <3>1, <3>2, <3>3 DEF RowClean, Gone
  <2>4. CASE r \notin job[j].doomed
    BY <1>1, <2>1, <2>2, <2>4
  <2>. QED BY <2>3, <2>4
<1>8. CASE Restart
  BY <1>1, <1>8, RestartEffect DEF Born
<1>9. CASE Forgets
  BY <1>1, <1>9 DEF Forgets, Born, There
<1>10. ASSUME NEW j \in Jobs, Dump(j) \/ Measure(j) PROVE Fails(j) \/ rows' = rows
  BY <1>10, DumpEffect, MeasureEffect DEF Proceeds, Continues
<1>11. ASSUME NEW j \in Jobs, Dispatch(j) \/ Upload(j) \/ Drop(j) \/ List(j) \/ RemoveOld(j)
      PROVE  rows' = rows
  BY <1>11, DispatchEffect, UploadEffect, DropEffect, ListEffect,
     RemoveOldEffect
<1>12. ASSUME NEW j \in Jobs, Purge(j) PROVE Forgets
  BY <1>12, PurgeEffect
<1>13. ASSUME NEW j \in Jobs, Dies(j) PROVE rows' = rows
  BY <1>13, DiesEffect
<1>14. ASSUME NEW q \in Ids, DeleteExecution(q) PROVE Forgets
  BY <1>14, DeleteExecutionEffect
<1>15. Cleanup => Forgets
  BY CleanupEffect
<1>16. (Submit \/ DeleteStorage) \/ UNCHANGED vars => rows' = rows
  BY SubmitEffect DEF vars
<1>17. rows' = rows => RowClean(r)'
  BY <1>2 DEF Born
<1>. QED BY <1>4, <1>5, <1>6, <1>7, <1>8, <1>9, <1>10, <1>11, <1>12,
            <1>13, <1>14, <1>15, <1>16, <1>17 DEF Next, Step

LEMMA RemovedClean ==
  ASSUME TypeOK, Progress, Clean, [Next]_vars, NEW j \in Jobs, job'[j].pc = "mark",
         NEW r \in job'[j].doomed, ~Shared(r)'
  PROVE  Gone(r, job[j].where)'
<1>0. Grows /\ Writes /\ \A i \in Jobs : OwnProgress(i)
  BY GrowsStep, StoresStep DEF Progress, OwnProgress
<1>1. CASE job'[j] = job[j]
  <2>1. /\ job[j].pc = "mark" /\ r \in job[j].doomed /\ r \in Ids
        /\ Born(r) /\ rows[r].status = "success"
    BY <1>0, <1>1, Basics DEF OwnProgress
  <2>2. ~Shared(r)
    BY <1>0, <2>1, GrowsShared
  <2>3. PICK w \in Stores : w = job[j].where /\ w = job'[j].where /\ Gone(r, w)
    BY <1>1, <2>1, <2>2, Basics DEF Clean
  <2>4. \A i \in Jobs : Writer(i, w) => Current(i) # r
    BY <2>1, <2>3, OneWriter
  <2>5. Gone(r, w)'
    BY <1>0, <2>1, <2>3, <2>4, GoneStays
  <2>. QED BY <2>3, <2>5 DEF Gone
<1>2. CASE RemoveOld(j)
  <2>1. /\ r \in job[j].doomed /\ job'[j].where = job[j].where /\ rows' = rows
        /\ \A q \in job[j].doomed :
              \/ copies'[job[j].where][rows[q].file] = "none"
              \/ <<job[j].where, rows[q].file>> \in unremoved'
    BY <1>2, RemoveOldEffect DEF Carries
  <2>. QED BY <2>1 DEF Gone
<1>3. ASSUME job'[j] # job[j], ~RemoveOld(j) PROVE FALSE
  <2>1. ~Create(j) /\ ~List(j) /\ ~MarkDeleted(j)
    BY CreateEffect, ListEffect, MarkEffect DEF Turns
  <2>2. ~Dump(j) /\ ~Measure(j) /\ ~Upload(j) /\ ~Drop(j) /\ ~Success(j)
    BY DumpEffect, MeasureEffect, UploadEffect, DropEffect, SuccessEffect
       DEF Fails, Ends
  <2>. QED BY <1>3, <2>1, <2>2, OwnSteps
<1>. QED BY <1>1, <1>2, <1>3

\* What Clean says of a job at work on execution r.
WorkClean(j, r) ==
  /\ job[j].dropped => Gone(r, "local")
  /\ job[j].pc \in {"dump", "measure", "upload"} \/ ~job[j].setup.save_s3 => Gone(r, "s3")

LEMMA WorkCleanStep ==
  ASSUME TypeOK, Progress, Named, Clean, [Next]_vars, NEW j \in Jobs, AtRow(j)',
         NEW r \in Ids, r = Current(j)', ~Shared(r)'
  PROVE  WorkClean(j, r)'
<1>0. Grows /\ Writes /\ \A i \in Jobs : OwnProgress(i)
  BY GrowsStep, StoresStep DEF Progress, OwnProgress
<1>1. ASSUME AtRow(j), Current(j) = r
      PROVE  /\ WorkClean(j, r)
             /\ \A w \in Stores : Gone(r, w) /\ ~Writer(j, w) => Gone(r, w)'
  <2>1. Born(r) /\ ~Shared(r)
    BY <1>0, <1>1, GrowsShared DEF OwnProgress
  <2>2. \A i \in Jobs \ {j} : \A w \in Stores : Writer(i, w) => Current(i) # r
    BY <1>1, OneWriter DEF Progress
  <2>3. ASSUME NEW w \in Stores, Gone(r, w), ~Writer(j, w) PROVE Gone(r, w)'
    <3>1. \A i \in Jobs : Writer(i, w) => Current(i) # r
      BY <2>2, <2>3
    <3>. QED BY <1>0, <2>1, <2>3, <3>1, GoneStays
  <2>4. WorkClean(j, r)
    BY <1>1, <2>1 DEF Clean, WorkClean
  <2>. QED BY <2>3, <2>4
<1>2. ASSUME AtRow(j), Current(j) = r
      PROVE  /\ Gone(r, "s3") /\ ~Writer(j, "s3") => Gone(r, "s3")'
             /\ Gone(r, "local") /\ ~Writer(j, "local") => Gone(r, "local")'
  <2> DEFINE remote == "s3"
             here == "local"
  <2>1. remote \in Stores /\ here \in Stores
    BY DEF Stores
  <2>. HIDE DEF remote, here
  <2>2. /\ Gone(r, remote) /\ ~Writer(j, remote) => Gone(r, remote)'
        /\ Gone(r, here) /\ ~Writer(j, here) => Gone(r, here)'
    BY <1>1, <1>2, <2>1
  <2>. QED BY <2>2 DEF remote, here, Gone
<1>d. OwnProgress(j)
  BY <1>0
<1>3. CASE job'[j] = job[j]
  <2>1. AtRow(j) /\ Current(j) = r
    BY <1>3 DEF AtRow, Current
  <2>2. ~Writer(j, "s3") /\ ~Writer(j, "local")
    BY <1>3 DEF Writer
  <2>3. WorkClean(j, r)
    BY <1>1, <2>1
  <2>4. /\ Gone(r, "s3") => Gone(r, "s3")'
        /\ Gone(r, "local") => Gone(r, "local")'
    BY <1>2, <2>1, <2>2
  <2>. QED BY <1>3, <2>3, <2>4 DEF WorkClean
<1>4. CASE Create(j)
  <2>1. PICK q \in Ids :
          /\ rows[q].state = "unborn" /\ rows'[q].state = "there"
          /\ job[j].pc = "create" /\ job'[j].pc = "dump" /\ job'[j].row = q
          /\ job'[j].dropped = job[j].dropped /\ copies' = copies /\ rows' \in [Ids -> Row]
    BY <1>4, CreateEffect
  <2>2. r = q /\ ~job'[j].dropped
    BY <1>d, <2>1 DEF Current, OwnProgress
  <2>3. Gone(r, "s3")'
    <3>1. SUFFICES ASSUME copies["s3"][rows'[r].file] # "none" PROVE FALSE
      BY <2>1 DEF Gone
    <3>2. rows'[r].file \in Files /\ "s3" \in Stores
      BY <2>1 DEF Row, Stores
    <3>3. PICK p \in Ids : Born(p) /\ rows[p].file = rows'[r].file
      BY <3>1, <3>2 DEF Named
    <3>4. p # r /\ rows'[p].state # "unborn" /\ rows'[p].file = rows[p].file
      BY <1>0, <2>1, <2>2, <3>3 DEF Born, Grows
    <3>. QED BY <3>3, <3>4 DEF Shared
  <2>. QED BY <2>2, <2>3 DEF WorkClean
<1>5. ASSUME Continues(j)
      PROVE  /\ AtRow(j) /\ Current(j) = r /\ WorkClean(j, r)
             /\ job'[j].setup = job[j].setup
  <2>1. AtRow(j) /\ Current(j) = r /\ job'[j].setup = job[j].setup
    BY <1>5 DEF Continues, Carries, Current
  <2>. QED BY <1>1, <2>1
<1>6. CASE (Dump(j) \/ Measure(j)) /\ Proceeds(j)
  <2>1. /\ job'[j].dropped = job[j].dropped /\ job[j].pc \in {"dump", "measure"}
    BY <1>6, DumpEffect, MeasureEffect DEF Proceeds
  <2>2. Continues(j) /\ ~job[j].dropped
    BY <1>d, <1>6, <2>1 DEF Proceeds, OwnProgress
  <2>3. Gone(r, "s3")
    BY <1>5, <2>1, <2>2 DEF WorkClean
  <2>4. ~Writer(j, "s3")
    BY <2>1 DEF Writer
  <2>5. Gone(r, "s3")'
    BY <1>2, <1>5, <2>2, <2>3, <2>4
  <2>. QED BY <2>1, <2>2, <2>5 DEF WorkClean
<1>7. CASE Upload(j)
  <2>1. /\ Continues(j) /\ job'[j].dropped = job[j].dropped /\ job[j].pc = "upload"
        /\ job'[j].pc \in {"drop", "success"}
    BY <1>7, UploadEffect
  <2>2. ~job'[j].dropped /\ job'[j].setup.save_s3
    BY <1>5, <1>d, <2>1 DEF OwnProgress
  <2>. QED BY <2>1, <2>2 DEF WorkClean
<1>8. CASE Drop(j)
  <2>1. /\ Continues(j) /\ job[j].pc = "drop" /\ job'[j].pc = "success" /\ rows' = rows
        /\ copies'["local"][File(j)] = "none" \/ <<"local", File(j)>> \in unremoved'
    BY <1>8, DropEffect
  <2>2. job'[j].setup.save_s3
    BY <1>5, <1>d, <2>1 DEF OwnProgress
  <2>3. Gone(r, "local")'
    BY <1>5, <2>1 DEF Gone, File
  <2>. QED BY <2>1, <2>2, <2>3 DEF WorkClean
<1>9. ASSUME Ends(j) PROVE FALSE
  BY <1>9 DEF Ends, AtRow, Work
<1>10. (Dump(j) \/ Measure(j)) => Proceeds(j) \/ Ends(j)
  BY DumpEffect, MeasureEffect DEF Fails
<1>11. Success(j) => Ends(j)
  BY SuccessEffect
<1>12. ~List(j) /\ ~RemoveOld(j) /\ ~MarkDeleted(j)
  BY ListEffect, RemoveOldEffect, MarkEffect DEF Turns, AtRow, Work
<1>13. job'[j].pc \notin {"idle", "create"}
  BY DEF AtRow, Work
<1>. QED BY <1>3, <1>4, <1>6, <1>7, <1>8, <1>9, <1>10, <1>11, <1>12, <1>13, OwnSteps

LEMMA CleanStep ==
  ASSUME TypeOK, Progress, Named, Clean, [Next]_vars
  PROVE  Clean'
<1>1. (\A r \in Ids : Born(r) /\ ~Shared(r) => RowClean(r))'
  BY RowCleanStep
<1>2. (\A j \in Jobs : job[j].pc = "mark" =>
         \A r \in job[j].doomed : Shared(r) \/ Gone(r, job[j].where))'
  BY RemovedClean
<1>3. (\A j \in Jobs : AtRow(j) /\ ~Shared(Current(j)) => WorkClean(j, Current(j)))'
  <2> SUFFICES ASSUME NEW j \in Jobs, AtRow(j)', ~Shared(Current(j))'
               PROVE  WorkClean(j, Current(j))'
    OBVIOUS
  <2>1. Current(j)' \in Ids
    BY ProgressStep DEF Progress
  <2>2. PICK r \in Ids : r = job'[j].row
    BY <2>1 DEF Current
  <2>3. WorkClean(j, r)'
    BY <2>2, WorkCleanStep DEF Current, Shared
  <2>. QED BY <2>2, <2>3 DEF WorkClean, Gone, Current
<1>4. (Clean <=> /\ \A r \in Ids : Born(r) /\ ~Shared(r) => RowClean(r)
                 /\ \A j \in Jobs : job[j].pc = "mark" =>
                      \A r \in job[j].doomed : Shared(r) \/ Gone(r, job[j].where)
                 /\ \A j \in Jobs : AtRow(j) /\ ~Shared(Current(j)) => WorkClean(j, Current(j)))'
  BY DEF Clean, RowClean, WorkClean
<1>. QED BY <1>1, <1>2, <1>3, <1>4

-----------------------------------------------------------------------------
(* Copies: what is delivered is there until it is removed *)

\* A copy that goes while its execution stays is dropped by its job or removed
\* by retention.
DropsCopy(j, r, w) == /\ AtRow(j) /\ Current(j) = r /\ w = "local"
                      /\ job[j].pc = "drop" /\ job'[j].dropped = TRUE

RemovesCopy(j, r, w) == /\ job'[j].pc = "mark" /\ job'[j].where = w /\ job[j].where = w
                        /\ r \in job'[j].doomed /\ r \in job[j].doomed

LEMMA CopyLost ==
  ASSUME TypeOK, Progress, Grows, Erases, NEW r \in Ids, NEW w \in Stores, Born(r),
         rows'[r].state # "deleted", ~Shared(r)',
         copies[w][rows[r].file] # "none", copies'[w][rows[r].file] = "none"
  PROVE  \E j \in Jobs : DropsCopy(j, r, w) \/ RemovesCopy(j, r, w)
<1>1. rows[r].file \in Files /\ ~Shared(r)
  BY GrowsShared, Basics
<1>2. \A q \in Ids : Born(q) /\ rows[q].file = rows[r].file => q = r
  BY <1>1 DEF Shared, Born
<1>3. CASE \E j \in Jobs : /\ job[j].pc = "drop" /\ w = "local" /\ File(j) = rows[r].file
                           /\ job'[j].dropped = TRUE
  <2>1. PICK j \in Jobs : /\ job[j].pc = "drop" /\ w = "local" /\ File(j) = rows[r].file
                          /\ job'[j].dropped = TRUE
    BY <1>3
  <2>2. AtRow(j)
    BY <2>1 DEF AtRow, Work
  <2>3. Current(j) \in Ids /\ Born(Current(j))
    BY <2>2 DEF Progress
  <2>. QED BY <1>2, <2>1, <2>2, <2>3 DEF File, DropsCopy
<1>4. CASE \E j \in Jobs : /\ job[j].pc = "remove" /\ job'[j].pc = "mark"
                           /\ job'[j].where = w /\ job[j].where = w
                           /\ job'[j].doomed = job[j].doomed
                           /\ \E q \in job[j].doomed : rows[q].file = rows[r].file
  <2>1. PICK j \in Jobs : /\ job'[j].pc = "mark" /\ job'[j].where = w /\ job[j].where = w
                          /\ job'[j].doomed = job[j].doomed
                          /\ \E q \in job[j].doomed : rows[q].file = rows[r].file
    BY <1>4
  <2>2. PICK q \in job[j].doomed : rows[q].file = rows[r].file
    BY <2>1
  <2>3. q \in Ids /\ Born(q)
    BY <2>2, Basics DEF Progress
  <2>. QED BY <1>2, <2>1, <2>2, <2>3 DEF RemovesCopy
<1>5. CASE \E q \in Ids : There(q) /\ rows[q].file = rows[r].file /\ rows'[q].state = "deleted"
  <2>. QED BY <1>2, <1>5 DEF There, Born
<1>. QED BY <1>1, <1>3, <1>4, <1>5 DEF Erases

\* What Delivered says of a job at work on execution r.
WorkDelivered(j, r) ==
  /\ job[j].pc \in {"upload", "drop", "success"} /\ ~job[j].dropped
       => copies["local"][rows[r].file] # "none"
  /\ job[j].uploaded => copies["s3"][rows[r].file] # "none"

LEMMA WorkDeliveredStep ==
  ASSUME TypeOK, Progress, Delivered, [Next]_vars, NEW j \in Jobs, AtRow(j)',
         NEW r \in Ids, r = Current(j)', There(r)', ~Shared(r)'
  PROVE  WorkDelivered(j, r)'
<1>0. Grows /\ Erases /\ \A i \in Jobs : OwnProgress(i)
  BY GrowsStep, StoresStep DEF Progress, OwnProgress
<1>d. OwnProgress(j)
  BY <1>0
<1>1. ASSUME AtRow(j), Current(j) = r
      PROVE  /\ WorkDelivered(j, r) /\ rows'[r].file = rows[r].file /\ File(j) = rows[r].file
             /\ \A w \in Stores : copies[w][rows[r].file] # "none" =>
                  \/ copies'[w][rows[r].file] # "none"
                  \/ w = "local" /\ job[j].pc = "drop" /\ job'[j].dropped = TRUE
  <2>1. /\ Born(r) /\ rows[r].status = "running" /\ ~Shared(r) /\ There(r)
        /\ rows'[r].file = rows[r].file
    BY <1>0, <1>1, GrowsShared DEF OwnProgress, Grows, There
  <2>2. WorkDelivered(j, r) /\ File(j) = rows[r].file
    BY <1>1, <2>1 DEF Delivered, WorkDelivered, File
  <2>3. ASSUME NEW w \in Stores, copies[w][rows[r].file] # "none",
               copies'[w][rows[r].file] = "none"
        PROVE  w = "local" /\ job[j].pc = "drop" /\ job'[j].dropped = TRUE
    <3>1. CASE \E i \in Jobs : /\ AtRow(i) /\ Current(i) = r /\ w = "local"
                               /\ job[i].pc = "drop" /\ job'[i].dropped = TRUE
      BY <1>1, <3>1 DEF Progress
    <3>2. ASSUME NEW i \in Jobs, r \in job[i].doomed PROVE FALSE
      BY <1>0, <2>1, <3>2 DEF OwnProgress
    <3>3. rows'[r].state # "deleted"
      BY DEF There
    <3>4. \E i \in Jobs : DropsCopy(i, r, w) \/ RemovesCopy(i, r, w)
      BY <1>0, <2>1, <2>3, <3>3, CopyLost
    <3>. QED BY <3>1, <3>2, <3>4 DEF DropsCopy, RemovesCopy
  <2>. QED BY <2>1, <2>2, <2>3
<1>s. "local" \in Stores /\ "s3" \in Stores
  BY DEF Stores
<1>2. CASE job'[j] = job[j]
  <2>1. AtRow(j) /\ Current(j) = r
    BY <1>2 DEF AtRow, Current
  <2>2. job[j].pc = "drop" => ~job'[j].dropped
    BY <1>d, <1>2 DEF OwnProgress
  <2>. QED BY <1>1, <1>2, <1>s, <2>1, <2>2 DEF WorkDelivered
<1>3. CASE Create(j)
  <2>1. /\ job[j].pc = "create" /\ job'[j].pc = "dump" /\ job'[j].uploaded = job[j].uploaded
    BY <1>3, CreateEffect
  <2>. QED BY <1>d, <2>1 DEF WorkDelivered, OwnProgress
<1>4. ASSUME Continues(j) PROVE AtRow(j) /\ Current(j) = r
  BY <1>4 DEF Continues, Carries, Current
<1>5. CASE (Dump(j) \/ Measure(j)) /\ Proceeds(j)
  <2>1. /\ AtRow(j) /\ Current(j) = r /\ ~job'[j].uploaded
    <3>1. Continues(j) /\ job[j].pc \in {"dump", "measure"}
          /\ job'[j].uploaded = job[j].uploaded
      BY <1>5, DumpEffect, MeasureEffect DEF Proceeds
    <3>. QED BY <1>4, <1>d, <3>1 DEF OwnProgress
  <2>2. CASE Dump(j)
    <3>1. job'[j].pc = "measure"
      BY <1>5, <2>2, DumpEffect DEF Fails, Ends, Proceeds, Continues
    <3>. QED BY <2>1, <3>1 DEF WorkDelivered
  <2>3. CASE Measure(j)
    <3>1. copies["local"][File(j)] # "none" /\ copies' = copies
      BY <1>5, <2>3, MeasureEffect DEF Fails, Ends, Proceeds, Continues
    <3>. QED BY <1>1, <2>1, <3>1 DEF WorkDelivered
  <2>. QED BY <1>5, <2>2, <2>3
<1>6. CASE Upload(j)
  <2>1. /\ job[j].pc = "upload" /\ AtRow(j) /\ Current(j) = r /\ ~job[j].dropped
        /\ copies'["local"] = copies["local"]
        /\ \/ copies' = copies /\ job'[j].uploaded = FALSE
           \/ copies'["s3"][File(j)] # "none"
    BY <1>4, <1>6, <1>d, UploadEffect DEF OwnProgress
  <2>. QED BY <1>1, <2>1 DEF WorkDelivered
<1>7. CASE Drop(j)
  <2>1. /\ job[j].pc = "drop" /\ AtRow(j) /\ Current(j) = r /\ job'[j].dropped = TRUE
        /\ job'[j].uploaded = job[j].uploaded /\ copies'["s3"] = copies["s3"]
    BY <1>4, <1>7, DropEffect
  <2>. QED BY <1>1, <2>1 DEF WorkDelivered
<1>9. ASSUME Ends(j) PROVE FALSE
  BY <1>9 DEF Ends, AtRow, Work
<1>10. (Dump(j) \/ Measure(j)) => Proceeds(j) \/ Ends(j)
  BY DumpEffect, MeasureEffect DEF Fails
<1>11. Success(j) => Ends(j)
  BY SuccessEffect
<1>12. ~List(j) /\ ~RemoveOld(j) /\ ~MarkDeleted(j)
  BY ListEffect, RemoveOldEffect, MarkEffect DEF Turns, AtRow, Work
<1>13. job'[j].pc \notin {"idle", "create"}
  BY DEF AtRow, Work
<1>. QED BY <1>2, <1>3, <1>5, <1>6, <1>7, <1>9, <1>10, <1>11, <1>12, <1>13, OwnSteps

LEMMA DeliveredStep ==
  ASSUME TypeOK, Progress, Delivered, [Next]_vars
  PROVE  Delivered'
<1>1. (\A j \in Jobs : AtRow(j) /\ There(Current(j)) /\ ~Shared(Current(j)) =>
         WorkDelivered(j, Current(j)))'
  <2> SUFFICES ASSUME NEW j \in Jobs, AtRow(j)', There(Current(j))', ~Shared(Current(j))'
               PROVE  WorkDelivered(j, Current(j))'
    OBVIOUS
  <2>1. Current(j)' \in Ids
    BY ProgressStep DEF Progress
  <2>2. PICK r \in Ids : r = job'[j].row
    BY <2>1 DEF Current
  <2>3. WorkDelivered(j, r)'
    BY <2>2, WorkDeliveredStep DEF Current, Shared, There
  <2>. QED BY <2>2, <2>3 DEF WorkDelivered, Current
<1>2. (Delivered <=> \A j \in Jobs :
         AtRow(j) /\ There(Current(j)) /\ ~Shared(Current(j)) => WorkDelivered(j, Current(j)))'
  BY DEF Delivered, WorkDelivered, File
<1>. QED BY <1>1, <1>2

\* A success says where its copies are.
Promises(r, w) == /\ There(r) /\ rows[r].status = "success"
                  /\ w \notin rows[r].deleted /\ (w = "s3" => rows[r].s3_uploaded = "yes")

Excused(r, w) ==
  \/ \E j \in Jobs : job[j].pc = "mark" /\ job[j].where = w /\ r \in job[j].doomed
  \/ r \in cut

LEMMA PromiseKept ==
  ASSUME TypeOK, Progress, Delivered, CopiesExist, [Next]_vars, NEW r \in Ids,
         NEW w \in Stores, Promises(r, w)', ~Shared(r)', ~Excused(r, w)'
  PROVE  copies'[w][rows'[r].file] # "none"
<1>0. Grows /\ Erases /\ \A i \in Jobs : OwnProgress(i)
  BY GrowsStep, StoresStep DEF Progress, OwnProgress
<1>1. ASSUME Promises(r, w), cut \subseteq cut',
             \A j \in Jobs : job[j].pc = "mark" /\ r \in job[j].doomed =>
               \/ job'[j] = job[j] \/ r \in cut' \/ w # job[j].where
      PROVE  copies'[w][rows'[r].file] # "none"
  <2>1. /\ Born(r) /\ rows[r].status = "success" /\ ~Shared(r)
        /\ rows'[r].file = rows[r].file
    BY <1>0, <1>1, GrowsShared DEF Promises, There, Born
  <2>2. ~Excused(r, w)
    BY <1>1 DEF Excused
  <2>3. copies[w][rows[r].file] # "none"
    BY <1>1, <2>1, <2>2 DEF CopiesExist, Promises, Excused
  <2>4. SUFFICES ASSUME copies'[w][rows[r].file] = "none" PROVE FALSE
    BY <2>1
  <2>5. ~ \E j \in Jobs : AtRow(j) /\ Current(j) = r
    BY <1>0, <2>1 DEF OwnProgress
  <2>6. rows'[r].state # "deleted"
    BY DEF Promises, There
  <2>7. Born(r) /\ copies[w][rows[r].file] # "none" /\ copies'[w][rows[r].file] = "none"
    BY <2>1, <2>3, <2>4
  <2>8. \E j \in Jobs : DropsCopy(j, r, w) \/ RemovesCopy(j, r, w)
    BY <1>0, <2>6, <2>7, CopyLost
  <2>. QED BY <2>5, <2>8 DEF Excused, DropsCopy, RemovesCopy
<1>m. ASSUME NEW j \in Jobs, Others(j), job[j].pc # "mark", cut' = cut, Promises(r, w)
      PROVE  copies'[w][rows'[r].file] # "none"
  <2>1. \A i \in Jobs : job[i].pc = "mark" => job'[i] = job[i]
    BY <1>m DEF Others
  <2>. QED BY <1>1, <1>m, <2>1
<1>u. rows'[r] = rows[r] => Promises(r, w)
  BY DEF Promises, There
<1>f. Forgets => Promises(r, w)
  BY DEF Promises, There, Forgets
<1>2. ASSUME NEW j \in Jobs, Dispatch(j) \/ Upload(j) \/ Drop(j) \/ List(j) \/ RemoveOld(j)
      PROVE  copies'[w][rows'[r].file] # "none"
  <2>1. rows' = rows /\ job[j].pc # "mark" /\ Others(j) /\ cut' = cut
    BY <1>2, DispatchEffect, UploadEffect, DropEffect, ListEffect,
       RemoveOldEffect
       DEF Continues, Carries, Turns
  <2>. QED BY <1>m, <1>u, <2>1
<1>3. ASSUME NEW j \in Jobs, Create(j) PROVE copies'[w][rows'[r].file] # "none"
  <2>1. PICK q \in Ids :
          /\ rows'[q].status = "running" /\ \A p \in Ids \ {q} : rows'[p] = rows[p]
          /\ job[j].pc = "create" /\ Others(j) /\ cut' = cut
    BY <1>3, CreateEffect
  <2>2. r # q
    BY <2>1 DEF Promises
  <2>. QED BY <1>m, <1>u, <2>1, <2>2
<1>4. ASSUME NEW j \in Jobs, Dump(j) \/ Measure(j) PROVE copies'[w][rows'[r].file] # "none"
  <2>1. job[j].pc # "mark" /\ Others(j) /\ cut' = cut /\ (Fails(j) \/ rows' = rows)
    BY <1>4, DumpEffect, MeasureEffect
       DEF Proceeds, Continues, Carries, Fails, Ends
  <2>2. Fails(j) => Current(j) # r
    BY DEF Fails, Promises
  <2>3. rows'[r] = rows[r]
    BY <2>1, <2>2 DEF Fails, Ends
  <2>. QED BY <1>m, <1>u, <2>1, <2>3
<1>5. ASSUME NEW j \in Jobs, Success(j) PROVE copies'[w][rows'[r].file] # "none"
  <2>1. job[j].pc = "success" /\ Ends(j) /\ Others(j) /\ cut' = cut /\ copies' = copies
    BY <1>5, SuccessEffect DEF Ends
  <2>2. CASE Current(j) # r \/ ~There(r)
    BY <1>m, <1>u, <2>1, <2>2 DEF Ends
  <2>3. CASE Current(j) = r /\ There(r)
    <3>1. /\ rows'[r].deleted = IF job[j].dropped THEN {"local"} ELSE {}
          /\ rows'[r].s3_uploaded = "yes" => job[j].uploaded
          /\ rows'[r].file = rows[r].file
      BY <1>5, <2>1, <2>3, SuccessEffect DEF Ends
    <3>2. ~Shared(r)
      BY <1>0, <2>3, GrowsShared DEF Born, There
    <3>3. WorkDelivered(j, r)
      BY <2>1, <2>3, <3>2 DEF Delivered, WorkDelivered, File, Ends
    <3>4. w \in {"local", "s3"}
      BY DEF Stores
    <3>. QED BY <2>1, <3>1, <3>3, <3>4 DEF Promises, WorkDelivered
  <2>. QED BY <2>2, <2>3
<1>6. ASSUME NEW j \in Jobs, MarkDeleted(j) PROVE copies'[w][rows'[r].file] # "none"
  <2>1. Others(j) /\ cut' = cut
    BY <1>6, MarkEffect DEF Turns
  <2>2. /\ Promises(r, w)
        /\ r \in job[j].doomed => w # job[j].where
    <3>1. /\ rows'[r].state = rows[r].state /\ rows'[r].status = rows[r].status
          /\ rows'[r].s3_uploaded = rows[r].s3_uploaded
          /\ ~(r \in job[j].doomed /\ There(r)) => rows'[r] = rows[r]
          /\ r \in job[j].doomed /\ There(r) =>
               rows'[r].deleted = rows[r].deleted \cup {job[j].where}
      BY <1>6, MarkEffect
    <3>. QED BY <3>1 DEF Promises, There
  <2>3. \A i \in Jobs : job[i].pc = "mark" /\ r \in job[i].doomed =>
                          job'[i] = job[i] \/ w # job[i].where
    BY <2>1, <2>2 DEF Others
  <2>. QED BY <1>1, <2>1, <2>2, <2>3
<1>7. ASSUME NEW j \in Jobs, Purge(j) PROVE copies'[w][rows'[r].file] # "none"
  <2>1. Forgets /\ Others(j) /\ cut' = cut /\ job[j].pc # "mark"
    BY <1>7, PurgeEffect
  <2>. QED BY <1>m, <1>f, <2>1
<1>8. ASSUME Stops, Promises(r, w) PROVE copies'[w][rows'[r].file] # "none"
  <2>1. \A i \in Jobs : job[i].pc = "mark" /\ r \in job[i].doomed =>
                          job'[i] = job[i] \/ r \in cut'
    BY <1>8 DEF Stops, AtWork, Work
  <2>2. cut \subseteq cut'
    BY <1>8 DEF Stops
  <2>. QED BY <1>1, <1>8, <2>1, <2>2
<1>9. ASSUME NEW j \in Jobs, Dies(j) PROVE copies'[w][rows'[r].file] # "none"
  <2>1. Stops /\ rows' = rows
    BY <1>9, DiesEffect
  <2>. QED BY <1>8, <1>u, <2>1
<1>10. CASE Restart
  <2>1. Stops /\ Promises(r, w)
    BY <1>10, RestartEffect DEF Promises, There
  <2>. QED BY <1>8, <2>1
<1>11. CASE (\E q \in Ids : DeleteExecution(q)) \/ Cleanup
  <2>1. Forgets /\ job' = job /\ cut' = cut
    BY <1>11, DeleteExecutionEffect, CleanupEffect
  <2>. QED BY <1>1, <1>f, <2>1
<1>12. CASE (Submit \/ DeleteStorage) \/ UNCHANGED vars
  <2>1. rows' = rows /\ job' = job /\ cut' = cut
    BY <1>12, SubmitEffect DEF vars
  <2>. QED BY <1>1, <1>u, <2>1
<1>. QED BY <1>2, <1>3, <1>4, <1>5, <1>6, <1>7, <1>9, <1>10, <1>11, <1>12 DEF Next, Step

LEMMA CopiesExistStep ==
  ASSUME TypeOK, Progress, Delivered, CopiesExist, [Next]_vars
  PROVE  CopiesExist'
<1>1. \A r \in Ids, w \in Stores :
        Promises(r, w)' /\ ~Shared(r)' /\ ~Excused(r, w)'
          => copies'[w][rows'[r].file] # "none"
  BY PromiseKept
<1>. QED BY <1>1 DEF CopiesExist, Promises, Excused

-----------------------------------------------------------------------------
(* The newest backup stays *)

\* Only what retention lists becomes doomed.
LEMMA DoomedStep ==
  ASSUME TypeOK, Progress, [Next]_vars, NEW j \in Jobs, ~List(j)
  PROVE  /\ job'[j].doomed \in {job[j].doomed, {}}
         /\ job'[j].doomed # {} => job'[j].where = job[j].where
<1>1. CASE job'[j] = job[j]
  BY <1>1
<1>2. Create(j) => job'[j].doomed = job[j].doomed /\ job'[j].where = job[j].where
  BY CreateEffect
<1>3. Dump(j) \/ Measure(j) \/ Upload(j) \/ Drop(j) =>
        \/ job'[j].doomed = job[j].doomed /\ job'[j].where = job[j].where
        \/ job'[j].doomed = {}
  BY DumpEffect, MeasureEffect, UploadEffect, DropEffect
     DEF Proceeds, Continues, Carries, Fails, Ends
<1>4. Success(j) \/ MarkDeleted(j) => job'[j].doomed = {}
  BY SuccessEffect, MarkEffect DEF Ends, Turns
<1>5. RemoveOld(j) => job'[j].doomed = job[j].doomed /\ job'[j].where = job[j].where
  BY RemoveOldEffect DEF Carries
<1>. QED BY <1>1, <1>2, <1>3, <1>4, <1>5, OwnSteps

LEMMA AtType == ASSUME TypeOK PROVE \A r \in Ids : At(r) \in Nat
BY Basics, BackupAssumption DEF At, Files

LEMMA StaysStays ==
  ASSUME TypeOK, Progress, [Next]_vars, NEW q \in Ids, Stays(q),
         \A i \in Jobs : ~List(i)
  PROVE  Stays(q)'
<1>0. Grows /\ Erases /\ \A i \in Jobs : OwnProgress(i)
  BY GrowsStep, StoresStep DEF Progress, OwnProgress
<1>1. Born(q)' /\ (Tied(q) => Tied(q)') /\ (Shared(q) => Shared(q)')
      /\ rows'[q].file = rows[q].file
  BY <1>0, GrowsShared DEF Stays
<1>2. rows'[q].status = "success"
  <2>1. Spared(q) => rows'[q].status = "success"
    BY DEF Stays, Spared
  <2>2. \A i \in Jobs : AtRow(i) => Current(i) # q
    BY <1>0 DEF Stays, OwnProgress
  <2>3. Spared(q)
    <3>1. CASE rows'[q] = rows[q]
      BY <3>1, SameSpares
    <3>2. ASSUME NEW j \in Jobs, Ends(j) PROVE rows'[q] = rows[q]
      BY <2>2, <3>2 DEF Ends
    <3>3. CASE Forgets
      BY <3>3, ForgetsSpares
    <3>4. ASSUME NEW j \in Jobs, Create(j) PROVE rows'[q] = rows[q]
      <4>1. PICK r \in Ids : ~Born(r) /\ \A p \in Ids \ {r} : rows'[p] = rows[p]
        BY <3>4, CreateEffect DEF Born
      <4>. QED BY <4>1 DEF Stays
    <3>5. ASSUME NEW j \in Jobs, MarkDeleted(j) PROVE Spared(q)
      BY <3>5, MarkEffect DEF Stays, Spared, Born
    <3>6. Restart => Spared(q)
      BY RestartEffect DEF Stays, Spared, Born
    <3>7. ASSUME NEW j \in Jobs, Dispatch(j) \/ Upload(j) \/ Drop(j) \/ RemoveOld(j)
          PROVE  rows' = rows
      BY <3>7, DispatchEffect, UploadEffect, DropEffect, RemoveOldEffect
    <3>8. ASSUME NEW j \in Jobs, Dump(j) \/ Measure(j) PROVE rows' = rows \/ Ends(j)
      BY <3>8, DumpEffect, MeasureEffect DEF Proceeds, Continues, Fails
    <3>9. ASSUME NEW j \in Jobs, Success(j) PROVE Ends(j)
      BY <3>9, SuccessEffect
    <3>10. ASSUME NEW j \in Jobs, Purge(j) PROVE Forgets
      BY <3>10, PurgeEffect
    <3>11. ASSUME NEW j \in Jobs, Dies(j) PROVE rows' = rows
      BY <3>11, DiesEffect
    <3>12. ASSUME NEW r \in Ids, DeleteExecution(r) PROVE Forgets
      BY <3>12, DeleteExecutionEffect
    <3>13. Cleanup => Forgets
      BY CleanupEffect
    <3>14. (Submit \/ DeleteStorage) \/ UNCHANGED vars => rows' = rows
      BY SubmitEffect DEF vars
    <3>. QED BY <3>1, <3>2, <3>3, <3>4, <3>5, <3>6, <3>7, <3>8, <3>9, <3>10, <3>11,
                <3>12, <3>13, <3>14 DEF Next, Step
  <2>. QED BY <2>1, <2>3
<1>3. \/ \A i \in Jobs : job'[i].where = "local" => q \notin job'[i].doomed
      \/ Tied(q)'
  BY <1>1, DoomedStep DEF Stays
<1>4. cut \subseteq cut'
  <2>1. ASSUME NEW j \in Jobs, Step(j) \/ Dispatch(j) PROVE cut' = cut
    BY <2>1
       DEF Step, Dispatch, Create, Dump, Measure, Upload, Drop, Success, List,
           RemoveOld, MarkDeleted, Purge
  <2>2. ASSUME NEW j \in Jobs, Dies(j) PROVE cut \subseteq cut'
    BY <2>2, DiesEffect DEF Stops
  <2>3. Restart => cut \subseteq cut'
    BY RestartEffect DEF Stops
  <2>4. (\E r \in Ids : DeleteExecution(r)) \/ Cleanup \/ Submit \/ DeleteStorage
          \/ UNCHANGED vars => cut' = cut
    BY DEF DeleteExecution, Cleanup, Submit, DeleteStorage, vars
  <2>. QED BY <2>1, <2>2, <2>3, <2>4 DEF Next
<1>5. \/ copies'["local"][rows'[q].file] # "none"
      \/ rows'[q].state = "deleted" \/ q \in cut' \/ Tied(q)'
  <2>1. Shared(q)' => Tied(q)'
    BY DEF Shared, Tied, At
  <2>2. rows[q].state = "deleted" => rows'[q].state = "deleted"
    BY <1>0 DEF Stays, Grows, There
  <2>3. SUFFICES ASSUME copies["local"][rows[q].file] # "none", ~Tied(q)',
                        rows'[q].state # "deleted", copies'["local"][rows[q].file] = "none"
                 PROVE  FALSE
    BY <1>1, <1>4, <2>2 DEF Stays
  <2> DEFINE w == "local"
  <2>4. /\ w \in Stores /\ copies[w][rows[q].file] # "none" /\ Born(q) /\ ~Shared(q)'
        /\ copies'[w][rows[q].file] = "none" /\ w = "local"
    BY <2>1, <2>3 DEF Stores, Stays
  <2>. HIDE DEF w
  <2>5. \E j \in Jobs : DropsCopy(j, q, w) \/ RemovesCopy(j, q, w)
    BY <1>0, <2>3, <2>4, CopyLost
  <2>6. ~ \E j \in Jobs : AtRow(j) /\ Current(j) = q
    BY <1>0 DEF Stays, OwnProgress
  <2>7. PICK j \in Jobs : job[j].where = "local" /\ q \in job[j].doomed
    BY <2>4, <2>5, <2>6 DEF DropsCopy, RemovesCopy
  <2>. QED BY <1>1, <2>3, <2>7 DEF Stays
<1>. QED BY <1>1, <1>2, <1>3, <1>5 DEF Stays

\* What a job finds expired in the local store, a newer backup outlives; and if
\* that one is doomed by another job, what outlives it.
LEMMA ListNewest ==
  ASSUME TypeOK, Progress, CopiesExist, Newest, NEW j \in Jobs, List(j)
  PROVE  Newest'
<1>1. /\ job[j].pc = "list" /\ job[j].doomed = {} /\ Others(j)
      /\ rows' = rows /\ copies' = copies /\ cut' = cut
  BY ListEffect DEF Progress, Removing, Turns, Carries
<1>2. \A q \in Ids : (Tied(q)' <=> Tied(q)) /\ At(q)' = At(q) /\ (Born(q)' <=> Born(q))
  BY <1>1 DEF Tied, At, Born
<1> DEFINE D == IF job'[j].where = "local" THEN job'[j].doomed ELSE {}
<1>3. ASSUME NEW q \in Ids, Stays(q), q \notin D \/ Tied(q) PROVE Stays(q)'
  BY <1>1, <1>2, <1>3 DEF Stays, Others
<1>4. ASSUME NEW d \in D PROVE d \in Ids /\ Outlived(d)'
  <2>1. /\ job'[j].where = "local" /\ d \in job'[j].doomed
        /\ job[j].where = "local" /\ job'[j].doomed \subseteq Kept("local")
        /\ \E top \in Kept("local") :
             \A r \in job'[j].doomed : r # top /\ At(top) >= At(r)
    BY <1>4, ListEffect DEF Turns, Carries
  <2>2. PICK top \in Kept("local") : \A r \in D : r # top /\ At(top) >= At(r)
    BY <2>1
  <2>3. /\ top \in Ids /\ Born(top) /\ There(top) /\ rows[top].status = "success"
        /\ "local" \notin rows[top].deleted /\ d \in Ids
    BY <2>1 DEF Kept, There, Born
  <2>4. Shared(top) => Tied(top)
    BY DEF Shared, Tied, At
  <2>5. CASE Tied(top)
    <3>1. Stays(top)'
      BY <1>1, <1>2, <2>3, <2>5 DEF Stays
    <3>. QED BY <1>2, <1>4, <2>2, <2>3, <3>1 DEF Outlived
  <2>6. CASE ~Tied(top) /\ \A i \in Jobs : job[i].where = "local" => top \notin job[i].doomed
    <3>1. copies["local"][rows[top].file] # "none" \/ top \in cut
      <4>1. "local" \in Stores /\ "local" # "s3"
        BY DEF Stores
      <4>2. copies["local"][rows[top].file] = "none" =>
              \/ \E i \in Jobs : job[i].pc = "mark" /\ job[i].where = "local"
                                 /\ top \in job[i].doomed
              \/ top \in cut \/ Shared(top)
        BY <2>3, <4>1 DEF CopiesExist
      <4>. QED BY <2>4, <2>6, <4>2
    <3>2. Stays(top)
      BY <2>3, <2>6, <3>1 DEF Stays
    <3>3. top \notin D
      BY <2>2
    <3>4. Stays(top)'
      BY <1>3, <2>3, <3>2, <3>3
    <3>. QED BY <1>2, <1>4, <2>2, <2>3, <3>4 DEF Outlived
  <2>7. CASE ~Tied(top) /\ \E i \in Jobs : job[i].where = "local" /\ top \in job[i].doomed
    <3>1. PICK q \in Ids : Stays(q) /\ At(q) >= At(top)
      BY <2>7 DEF Newest, Outlived
    <3>2. q \in D => Tied(q)
      <4>1. SUFFICES ASSUME q \in D PROVE Tied(q)
        OBVIOUS
      <4>2. q # top /\ At(top) >= At(q)
        BY <2>2, <4>1
      <4>3. At(q) = At(top)
        BY <2>3, <3>1, <4>2, AtType
      <4>. QED BY <2>3, <4>2, <4>3 DEF Tied, Born
    <3>3. Stays(q)'
      BY <1>3, <3>1, <3>2
    <3>4. At(q) >= At(d)
      <4>1. At(top) >= At(d)
        BY <1>4, <2>2
      <4>. QED BY <2>3, <3>1, <4>1, AtType
    <3>. QED BY <1>2, <2>3, <3>3, <3>4 DEF Outlived
  <2>. QED BY <2>3, <2>5, <2>6, <2>7
<1>5. ASSUME NEW r \in Ids, Outlived(r) PROVE Outlived(r)'
  <2>1. CASE Tied(r)
    BY <1>2, <2>1 DEF Outlived
  <2>2. ASSUME NEW q \in Ids, Stays(q), At(q) >= At(r) PROVE Outlived(r)'
    <3>1. CASE q \notin D \/ Tied(q)
      <4>1. Stays(q)'
        BY <1>3, <2>2, <3>1
      <4>. QED BY <1>2, <2>2, <4>1 DEF Outlived
    <3>2. CASE q \in D /\ ~Tied(q)
      <4>1. PICK p \in Ids : Stays(p)' /\ At(p)' >= At(q)'
        BY <1>2, <1>4, <3>2 DEF Outlived
      <4>2. At(p) >= At(r)
        BY <1>2, <2>2, <4>1, AtType
      <4>. QED BY <1>2, <4>1, <4>2 DEF Outlived
    <3>. QED BY <3>1, <3>2
  <2>. QED BY <1>5, <2>1, <2>2 DEF Outlived
<1>6. ASSUME NEW i \in Jobs, job'[i].where = "local", NEW r \in job'[i].doomed
      PROVE  Outlived(r)'
  <2>1. CASE i = j
    BY <1>4, <1>6, <2>1
  <2>2. CASE i # j
    <3>1. job'[i] = job[i]
      BY <1>1, <2>2 DEF Others
    <3>2. r \in Ids /\ Outlived(r)
      BY <1>6, <3>1, Basics DEF Newest
    <3>. QED BY <1>5, <3>2
  <2>. QED BY <2>1, <2>2
<1>. QED BY <1>6 DEF Newest

LEMMA NewestStep ==
  ASSUME TypeOK, Progress, CopiesExist, Newest, [Next]_vars
  PROVE  Newest'
<1>1. CASE \E j \in Jobs : List(j)
  BY <1>1, ListNewest
<1>2. CASE \A j \in Jobs : ~List(j)
  <2> SUFFICES ASSUME NEW j \in Jobs, job'[j].where = "local", NEW r \in job'[j].doomed
               PROVE  Outlived(r)'
    BY DEF Newest
  <2>1. r \in job[j].doomed /\ job[j].where = "local"
    BY <1>2, DoomedStep
  <2>2. r \in Ids /\ Born(r) /\ Outlived(r)
    BY <2>1, Basics DEF Newest, Progress
  <2>3. (Tied(r) => Tied(r)') /\ At(r)' = At(r)
    BY <2>2, GrowsStep, GrowsShared
  <2>4. CASE Tied(r)
    BY <2>3, <2>4 DEF Outlived
  <2>5. ASSUME NEW q \in Ids, Stays(q), At(q) >= At(r) PROVE Outlived(r)'
    <3>1. Stays(q)' /\ At(q)' = At(q)
      BY <1>2, <2>5, StaysStays, GrowsStep, GrowsShared DEF Stays
    <3>. QED BY <2>3, <2>5, <3>1 DEF Outlived
  <2>. QED BY <2>2, <2>4, <2>5 DEF Outlived
<1>. QED BY <1>1, <1>2

-----------------------------------------------------------------------------
(* The theorems *)

IInv == TypeOK /\ Progress /\ Accounted /\ Marked /\ Named /\ Clean /\ Delivered
          /\ CopiesExist /\ Newest

LEMMA InitIInv == Init => IInv
<1> SUFFICES ASSUME Init PROVE IInv
  OBVIOUS
<1>1. \A r \in Ids : ~Born(r) /\ ~There(r)
  BY DEF Init, Unborn, Born, There
<1>2. \A j \in Jobs : job[j].pc = "idle" /\ job[j].doomed = {} /\ ~AtRow(j)
  BY DEF Init, Start, AtRow, Work
<1>3. Accounted /\ CopiesExist
  BY <1>1 DEF Accounted, CopiesExist
<1>4. Clean /\ Delivered /\ Newest
  BY <1>1, <1>2 DEF Clean, Delivered, Newest
<1>. QED BY <1>3, <1>4, InitTyped, InitProgress, InitMarked DEF IInv

LEMMA IInvStep == IInv /\ [Next]_vars => IInv'
<1> SUFFICES ASSUME IInv, [Next]_vars PROVE IInv'
  OBVIOUS
<1>1. TypeOK' /\ Progress' /\ Accounted' /\ Marked'
  BY TypedStep, ProgressStep, AccountedStep, MarkedStep DEF IInv
<1>2. Named' /\ Clean'
  BY NamedStep, GrowsStep, StoresStep, CleanStep DEF IInv
<1>3. Delivered' /\ CopiesExist' /\ Newest'
  BY DeliveredStep, CopiesExistStep, NewestStep DEF IInv
<1>. QED BY <1>1, <1>2, <1>3 DEF IInv

LEMMA Invariance == Spec => []IInv
BY InitIInv, IInvStep, PTL DEF Spec

\* The rows, the stores and the jobs of a schedule keep their types, whatever
\* DatabaseBackupJob, its retention and the users do.
THEOREM Typed == Spec => []TypeOK
<1>1. IInv => TypeOK
  BY DEF IInv
<1>. QED BY <1>1, Invariance, PTL

\* An execution that says it is running is that of a job at work, whatever fails
\* in it: only one whose job has died is left to app:init.
THEOREM RunningIsRun == Spec => []Accounted
<1>1. IInv => Accounted
  BY DEF IInv
<1>. QED BY <1>1, Invariance, PTL

\* A successful execution has the copies that its columns promise, but for a
\* removal under way or cut short, and for two executions that share a file.
THEOREM SuccessHasCopies == Spec => []CopiesExist
<1>1. IInv => CopiesExist
  BY DEF IInv
<1>. QED BY <1>1, Invariance, PTL

\* What removeOldBackups deletes from the table has left no copy behind that a
\* failed removal has not missed: 'purged' needs both columns, and each column
\* was written after a removal or where nothing had been uploaded.
THEOREM ForgottenIsGone == Spec => []PurgedClean
<1>1. IInv => PurgedClean
  <2> SUFFICES ASSUME IInv, NEW r \in Ids, rows[r].state = "purged", ~Shared(r),
                      NEW w \in Stores
               PROVE  Gone(r, w)
    BY DEF PurgedClean, Gone
  <2>1. Born(r) /\ Copyless(r) /\ rows[r].status = "success"
    BY DEF IInv, Marked, Born, Copyless
  <2>2. w \in {"local", "s3"}
    BY DEF Stores
  <2>. QED BY <2>1, <2>2 DEF IInv, Clean, Copyless
<1>. QED BY <1>1, Invariance, PTL

\* Retention of any number of jobs side by side, each with a list of its own that
\* may be out of date, leaves a backup that is not older than what it removes.
THEOREM RetentionLeavesNewest == Spec => []NewestKept
<1>1. IInv => NewestKept
  <2> SUFFICES ASSUME IInv, NEW j \in Jobs, job[j].where = "local",
                      NEW r \in job[j].doomed
               PROVE  Outlived(r)
    BY DEF NewestKept, Outlived, Stays
  <2>. QED BY DEF IInv, Newest
<1>. QED BY <1>1, Invariance, PTL

=============================================================================
