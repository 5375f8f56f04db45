--------------------------- MODULE DatabaseBackup ---------------------------
(***************************************************************************)
(* The backups of one schedule: DatabaseBackupJob, the retention that ends *)
(* it (bootstrap/helpers/databases.php) and what a user does meanwhile.    *)
(*                                                                         *)
(* Nothing keeps two jobs of a schedule apart: the scheduler and 'Backup   *)
(* now' dispatch, several workers run.  A step of a job is one command on  *)
(* a server or one statement of the database; rows of executions and the   *)
(* two stores of files agree only as far as these steps make them.         *)
(* Copies are addressed by name: database and second, without a row's id.  *)
(***************************************************************************)
EXTENDS Naturals, Sequences, FiniteSets

CONSTANTS
  Jobs,      \* workers of the queue 'high'
  Setups,    \* what a schedule may be set to
  Names,     \* databases, and "all"
  Budgets,   \* bounds to choose from: executions, failures, deaths, users' deeds
  MAX_ROWS,  \* bound on the bound on executions
  MAX_TIME,  \* bound: seconds, each of which counts as a day of retention
  SIZE       \* of a file, in units of the limit on storage

Stores == {"local", "s3"}
Bounded == {"rows", "dump", "upload", "rm", "death", "user"}

ASSUME BackupAssumption ==
  /\ MAX_ROWS \in Nat /\ MAX_TIME \in Nat /\ SIZE \in Nat \ {0}
  /\ Budgets \subseteq [Bounded -> Nat]
  /\ \A b \in Budgets : b["rows"] <= MAX_ROWS
  /\ "all" \in Names
  /\ \A st \in Setups :
       /\ st.databases \in Seq(Names) /\ st.databases # <<>>
       /\ st.dump_all \in BOOLEAN /\ st.save_s3 \in BOOLEAN
       /\ st.disable_local \in BOOLEAN /\ (st.disable_local => st.save_s3)
       /\ st.keep \in [Stores -> [amount : Nat, days : Nat, storage : Nat]]

Ids   == 1..MAX_ROWS   \* of executions, in the order of their creation
NoRow == 0
Files == Names \X (0..MAX_TIME)

VARIABLES
  setup,      \* the row of the schedule
  storage,    \* its S3 storage still exists
  now,        \* when the last execution was created; nothing else reads time
  rows,       \* executions
  copies,     \* store -> file -> what is there
  job,        \* worker -> the job it runs
  left,       \* what is left of each bound
  cut,        \* history: executions whose job died at work on them
  unremoved   \* history: copies that a removal missed

vars == <<setup, storage, now, rows, copies, job, left, cut, unremoved>>

Row == [state : {"unborn", "there", "purged", "deleted"},
        status : {"running", "success", "failed"},
        file : Files,            \* the name it was created with
        filename : BOOLEAN,      \* the column still holds it
        s3_uploaded : {"null", "yes", "no"},
        deleted : SUBSET Stores] \* local_storage_deleted, s3_storage_deleted

Work == {"create", "dump", "measure", "upload", "drop", "success"}
Retention == {"list", "remove", "mark"}

Job == [pc : {"idle", "purge"} \cup Work \cup Retention,
        setup : Setups, s3 : BOOLEAN,   \* as loaded when the job started
        todo : Seq(Names),              \* databases left, the current one first
        row : Ids \cup {NoRow},
        uploaded : BOOLEAN, dropped : BOOLEAN,
        where : Stores,                 \* the store retention is at
        doomed : SUBSET Ids]            \* what it is removing there

TypeOK ==
  /\ setup \in Setups /\ storage \in BOOLEAN /\ now \in 0..MAX_TIME
  /\ rows \in [Ids -> Row]
  /\ copies \in [Stores -> [Files -> {"none", "part", "full"}]]
  /\ job \in [Jobs -> Job]
  /\ left \in [Bounded -> Nat]
  /\ cut \subseteq Ids /\ unremoved \subseteq Stores \X Files

Unborn == [state |-> "unborn", status |-> "running",
           file |-> CHOOSE f \in Files : TRUE, filename |-> FALSE,
           s3_uploaded |-> "null", deleted |-> {}]

Start(st, s3, pc) ==
  [pc |-> pc, setup |-> st, s3 |-> s3, todo |-> st.databases, row |-> NoRow,
   uploaded |-> FALSE, dropped |-> FALSE, where |-> "local", doomed |-> {}]

Init ==
  /\ setup \in Setups /\ storage = TRUE /\ now = 0
  /\ rows = [r \in Ids |-> Unborn]
  /\ copies = [w \in Stores |-> [f \in Files |-> "none"]]
  /\ job = [j \in Jobs |-> Start(setup, FALSE, "idle")]
  /\ left \in Budgets
  /\ cut = {} /\ unremoved = {}

-----------------------------------------------------------------------------
(* Helpers *)

Spend(k) == left[k] > 0 /\ left' = [left EXCEPT ![k] = @ - 1]

There(r)   == rows[r].state = "there"
Current(j) == job[j].row
File(j)    == rows[Current(j)].file

\* Eloquent's update of the current execution; of a deleted one, nothing.
Update(j, row) ==
  rows' = IF There(Current(j)) THEN [rows EXCEPT ![Current(j)] = row] ELSE rows

Goto(j, pc) == job' = [job EXCEPT ![j].pc = pc]
Idle == Start(setup, FALSE, "idle")

\* On to the next database; after the last, retention if that one succeeded.
NextDatabase(j, succeeded) ==
  LET rest == Tail(job[j].todo)
      then == [job[j] EXCEPT !.todo = rest, !.row = NoRow, !.uploaded = FALSE,
                             !.dropped = FALSE] IN
  job' = [job EXCEPT ![j] = IF rest # <<>> THEN [then EXCEPT !.pc = "create"]
                            ELSE IF succeeded THEN [then EXCEPT !.pc = "list"]
                            ELSE Idle]

\* Mutation: the failure is not written.
LocalFailedUnwritten(j) == NextDatabase(j, FALSE) /\ UNCHANGED rows

\* Step 1 throws: the execution forgets the name of its file.
LocalFailed(j) ==
  /\ Update(j, [rows[Current(j)] EXCEPT !.status = "failed", !.filename = FALSE,
                                        !.s3_uploaded = "null"])
  /\ NextDatabase(j, FALSE)

\* rm -f and Storage::delete: a failure goes unnoticed.
Remove(w, files, worked) ==
  /\ copies' = IF worked
               THEN [copies EXCEPT ![w] = [f \in Files |-> IF f \in files THEN "none"
                                                           ELSE @[f]]]
               ELSE copies
  /\ unremoved' = IF worked THEN unremoved ELSE unremoved \cup ({w} \X files)

-----------------------------------------------------------------------------
(* DatabaseBackupJob::handle *)

Promised == Cardinality({r \in Ids : rows[r].state # "unborn"})
              + Cardinality({p \in Jobs \X (1..MAX_ROWS) :
                              /\ job[p[1]].pc # "idle" /\ p[2] <= Len(job[p[1]].todo)
                              /\ (p[2] = 1 => job[p[1]].pc = "create")})

\* The scheduler or 'Backup now'; the job loads the schedule and its storage.
Dispatch(j) ==
  /\ job[j].pc = "idle"
  /\ Promised + Len(setup.databases) <= left["rows"]
  /\ job' = [job EXCEPT ![j] = Start(setup, storage, "create")]
  /\ UNCHANGED <<setup, storage, now, rows, copies, left, cut, unremoved>>

\* Mutation: the list instead of the database.
NameOfList(j) == IF job[j].setup.dump_all THEN "all" ELSE job[j].todo

Name(j) == IF job[j].setup.dump_all THEN "all" ELSE Head(job[j].todo)

Create(j) ==
  /\ job[j].pc = "create"
  /\ now' \in now..MAX_TIME
  /\ \E r \in Ids :
       /\ rows[r].state = "unborn"
       /\ \A q \in Ids : rows[q].state = "unborn" => r <= q
       /\ rows' = [rows EXCEPT ![r] =
                    [Unborn EXCEPT !.state = "there", !.filename = TRUE,
                                   !.file = <<Name(j), now'>>]]
       /\ job' = [job EXCEPT ![j].pc = "dump", ![j].row = r]
  /\ UNCHANGED <<setup, storage, copies, left, cut, unremoved>>

\* A dump that breaks off leaves part of a file.  That of all databases goes
\* through 'gzip', whose exit status is the one that is looked at.  A file that
\* is deleted while it is written is lost.
Dump(j) ==
  /\ job[j].pc = "dump"
  /\ \/ /\ copies' = [copies EXCEPT !["local"][File(j)] = "full"]
        /\ Goto(j, "measure")
        /\ UNCHANGED <<rows, left>>
     \/ /\ ~There(Current(j))
        /\ Goto(j, "measure")
        /\ UNCHANGED <<rows, copies, left>>
     \/ /\ Spend("dump")
        /\ copies' = [copies EXCEPT !["local"][File(j)] = "part"]
        /\ IF job[j].setup.dump_all
           THEN Goto(j, "measure") /\ UNCHANGED rows
           ELSE LocalFailed(j)
     \/ /\ Spend("dump")
        /\ LocalFailed(j)
        /\ UNCHANGED copies
  /\ UNCHANGED <<setup, storage, now, cut, unremoved>>

\* calculate_size: no file, or no answer.
Measure(j) ==
  /\ job[j].pc = "measure"
  /\ \/ /\ copies["local"][File(j)] # "none"
        /\ Goto(j, IF job[j].setup.save_s3 THEN "upload" ELSE "success")
        /\ UNCHANGED <<rows, left>>
     \/ /\ copies["local"][File(j)] = "none"
        /\ LocalFailed(j) /\ UNCHANGED left
     \/ Spend("dump") /\ LocalFailed(j)
  /\ UNCHANGED <<setup, storage, now, copies, cut, unremoved>>

Uploaded(j) ==
  copies' = [copies EXCEPT !["s3"][File(j)] = copies["local"][File(j)]]

\* upload_to_s3 returns at once where there is no storage.  It may fail before
\* or after the copy is there, and also in the removal of its container, when
\* s3_uploaded is set already.
Upload(j) ==
  /\ job[j].pc = "upload"
  /\ LET done == IF job[j].setup.disable_local THEN "drop" ELSE "success"
         there == copies["local"][File(j)] # "none" IN
     \/ /\ ~job[j].s3
        /\ Goto(j, done) /\ UNCHANGED <<copies, left>>
     \/ /\ job[j].s3 /\ there
        /\ Uploaded(j)
        /\ job' = [job EXCEPT ![j].pc = done, ![j].uploaded = TRUE]
        /\ UNCHANGED left
     \/ /\ \/ Spend("upload")
           \/ job[j].s3 /\ ~there /\ UNCHANGED left
        /\ job' = [job EXCEPT ![j].pc = "success", ![j].uploaded = FALSE]
        /\ UNCHANGED copies
     \/ /\ job[j].s3 /\ there
        /\ Spend("upload")
        /\ Uploaded(j)
        /\ \E u \in BOOLEAN :
             job' = [job EXCEPT ![j].pc = "success", ![j].uploaded = u]
  /\ UNCHANGED <<setup, storage, now, rows, cut, unremoved>>

\* disable_local_backup: the local file goes once the upload has returned.
Drop(j) ==
  /\ job[j].pc = "drop"
  /\ \/ Remove("local", {File(j)}, TRUE) /\ UNCHANGED left
     \/ Remove("local", {File(j)}, FALSE) /\ Spend("rm")
  /\ job' = [job EXCEPT ![j].pc = "success", ![j].dropped = TRUE]
  /\ UNCHANGED <<setup, storage, now, rows, cut>>

\* Mutation: the execution does not learn that its local file is gone.
SuccessKeepsLocal(j) ==
  /\ job[j].pc = "success"
  /\ Update(j, [rows[Current(j)] EXCEPT
                  !.status = "success",
                  !.s3_uploaded = IF ~job[j].setup.save_s3 THEN "null"
                                  ELSE IF job[j].uploaded THEN "yes" ELSE "no"])
  /\ NextDatabase(j, TRUE)
  /\ UNCHANGED <<setup, storage, now, copies, left, cut, unremoved>>

Success(j) ==
  /\ job[j].pc = "success"
  /\ Update(j, [rows[Current(j)] EXCEPT
                  !.status = "success",
                  !.s3_uploaded = IF ~job[j].setup.save_s3 THEN "null"
                                  ELSE IF job[j].uploaded THEN "yes" ELSE "no",
                  !.deleted = IF job[j].dropped THEN {"local"} ELSE {}])
  /\ NextDatabase(j, TRUE)
  /\ UNCHANGED <<setup, storage, now, copies, left, cut, unremoved>>

-----------------------------------------------------------------------------
(* removeOldBackups *)

\* What retention in store w looks at, newest first: in whichever order the
\* database returns executions of the same second.
Kept(w) == {r \in Ids : /\ There(r) /\ rows[r].status = "success"
                        /\ w \notin rows[r].deleted}

At(r) == rows[r].file[2]

NewestFirst(R) ==
  {o \in [1..Cardinality(R) -> R] :
     \A i, k \in DOMAIN o : i < k => o[i] # o[k] /\ At(o[i]) >= At(o[k])}

\* Mutation: one less is skipped.
AmountOffByOne(o, keep) ==
  {o[i] : i \in {i \in DOMAIN o : keep.amount > 0 /\ i >= keep.amount}}

ByAmount(o, keep) ==
  {o[i] : i \in {i \in DOMAIN o : keep.amount > 0 /\ i > keep.amount}}

ByAge(o, keep) ==
  {o[i] : i \in {i \in DOMAIN o : keep.days > 0 /\ At(o[i]) + keep.days < At(o[1])}}

\* Sizes are added up from the second newest on.  Where the sum passes the
\* limit, those as old as that one go, all but the first of them.
ByStorage(o, keep) ==
  LET over == {i \in DOMAIN o : i > 1 /\ (i - 1) * SIZE > keep.storage} IN
  {o[i] : i \in {i \in DOMAIN o :
                   /\ keep.storage > 0
                   /\ \E k \in over, f \in DOMAIN o :
                        /\ \A l \in over : k <= l
                        /\ f < i /\ At(o[f]) <= At(o[k]) /\ At(o[i]) <= At(o[k])}}

Expired(o, keep) == ByAmount(o, keep) \cup ByAge(o, keep) \cup ByStorage(o, keep)

Applies(j, w) == IF w = "local" THEN ~job[j].setup.disable_local
                 ELSE job[j].setup.save_s3 /\ job[j].s3

\* The local store, then S3, then the executions without a copy.
NextStore(j) ==
  IF job[j].where = "local"
  THEN [job[j] EXCEPT !.pc = "list", !.where = "s3", !.doomed = {}]
  ELSE [job[j] EXCEPT !.pc = "purge", !.doomed = {}]

List(j) ==
  /\ job[j].pc = "list"
  /\ LET w == job[j].where IN
     \E o \in NewestFirst(Kept(w)) :
       LET doomed == Expired(o, job[j].setup.keep[w]) IN
       job' = [job EXCEPT ![j] = IF Applies(j, w) /\ doomed # {}
                                 THEN [@ EXCEPT !.pc = "remove", !.doomed = doomed]
                                 ELSE NextStore(j)]
  /\ UNCHANGED <<setup, storage, now, rows, copies, left, cut, unremoved>>

RemoveOld(j) ==
  /\ job[j].pc = "remove"
  /\ LET files == {rows[r].file : r \in job[j].doomed} IN
     \/ Remove(job[j].where, files, TRUE) /\ UNCHANGED left
     \/ Remove(job[j].where, files, FALSE) /\ Spend("rm")
  /\ Goto(j, "mark")
  /\ UNCHANGED <<setup, storage, now, rows, cut>>

MarkDeleted(j) ==
  /\ job[j].pc = "mark"
  /\ rows' = [r \in Ids |-> IF r \in job[j].doomed /\ There(r)
                            THEN [rows[r] EXCEPT !.deleted = @ \cup {job[j].where}]
                            ELSE rows[r]]
  /\ job' = [job EXCEPT ![j] = NextStore(j)]
  /\ UNCHANGED <<setup, storage, now, copies, left, cut, unremoved>>

\* Mutation: an upload that failed counts as one that was never tried.
CopylessIfNotUploaded(r) == /\ "local" \in rows[r].deleted
                            /\ "s3" \in rows[r].deleted \/ rows[r].s3_uploaded # "yes"

Copyless(r) == /\ "local" \in rows[r].deleted
               /\ "s3" \in rows[r].deleted \/ rows[r].s3_uploaded = "null"

Purge(j) ==
  /\ job[j].pc = "purge"
  /\ rows' = [r \in Ids |-> IF There(r) /\ Copyless(r)
                            THEN [rows[r] EXCEPT !.state = "purged"] ELSE rows[r]]
  /\ job' = [job EXCEPT ![j] = Idle]
  /\ UNCHANGED <<setup, storage, now, copies, left, cut, unremoved>>

-----------------------------------------------------------------------------
(* Failures: failed() runs on a fresh copy of the job, which does not know   *)
(* the execution; only the start of the instance closes it                   *)

AtWork(j) == IF job[j].pc \in {"idle", "create"} THEN {}
             ELSE IF job[j].pc \in Work THEN {Current(j)} ELSE job[j].doomed

\* What is left of the dump that is cut short.
BreakOff(D) ==
  \E part \in SUBSET {j \in D : job[j].pc = "dump"} :
    copies' = [copies EXCEPT !["local"] =
                [f \in Files |-> IF \E j \in part : File(j) = f THEN "part" ELSE @[f]]]

Stop(D) ==
  /\ BreakOff(D)
  /\ job' = [j \in Jobs |-> IF j \in D THEN Idle ELSE job[j]]
  /\ cut' = cut \cup UNION {AtWork(j) : j \in D}

\* The timeout of the job, or the death of its worker.
Dies(j) ==
  /\ job[j].pc # "idle"
  /\ Spend("death")
  /\ Stop({j})
  /\ UNCHANGED <<setup, storage, now, rows, unremoved>>

\* The container restarts; app:init.
Restart ==
  /\ Spend("death")
  /\ Stop({j \in Jobs : job[j].pc # "idle"})
  /\ rows' = [r \in Ids |-> IF There(r) /\ rows[r].status = "running"
                            THEN [rows[r] EXCEPT !.status = "failed"] ELSE rows[r]]
  /\ UNCHANGED <<setup, storage, now, unremoved>>

-----------------------------------------------------------------------------
(* Users *)

\* The delete button and the API: an execution in any status.
DeleteExecution(r) ==
  /\ Spend("user")
  /\ There(r)
  /\ rows' = [rows EXCEPT ![r].state = "deleted"]
  /\ \E W \in SUBSET Stores :   \* where the file goes
       /\ W # {} => rows[r].filename
       /\ "s3" \in W => storage
       /\ copies' = [w \in Stores |->
                      IF w \in W THEN [copies[w] EXCEPT ![rows[r].file] = "none"]
                      ELSE copies[w]]
  /\ UNCHANGED <<setup, storage, now, job, cut, unremoved>>

\* 'Cleanup failed' and 'Cleanup deleted': executions, whatever copies they have.
Cleanup ==
  /\ Spend("user")
  /\ \E R \in {{r \in Ids : rows[r].status = "failed"},
               {r \in Ids : "local" \in rows[r].deleted}} :
       rows' = [r \in Ids |-> IF r \in R /\ There(r)
                              THEN [rows[r] EXCEPT !.state = "deleted"] ELSE rows[r]]
  /\ UNCHANGED <<setup, storage, now, copies, job, cut, unremoved>>

Submit ==
  /\ Spend("user")
  /\ setup' \in Setups
  /\ UNCHANGED <<storage, now, rows, copies, job, cut, unremoved>>

\* Schedules that save to a storage do not hear of its deletion.
DeleteStorage ==
  /\ Spend("user")
  /\ storage /\ storage' = FALSE
  /\ UNCHANGED <<setup, now, rows, copies, job, cut, unremoved>>

-----------------------------------------------------------------------------

Step(j) == \/ Create(j) \/ Dump(j) \/ Measure(j) \/ Upload(j) \/ Drop(j)
           \/ Success(j) \/ List(j) \/ RemoveOld(j) \/ MarkDeleted(j) \/ Purge(j)

Next == \/ \E j \in Jobs : Dispatch(j) \/ Step(j) \/ Dies(j)
        \/ Restart
        \/ \E r \in Ids : DeleteExecution(r)
        \/ Cleanup \/ Submit \/ DeleteStorage

Spec == Init /\ [][Next]_vars

-----------------------------------------------------------------------------
(* Properties *)

Tied(r) == \E q \in Ids \ {r} : rows[q].state # "unborn" /\ At(q) = At(r)

Shared(r) == \E q \in Ids \ {r} : rows[q].state # "unborn" /\ rows[q].file = rows[r].file

\* An execution that promises a copy has it: the local one until it is marked
\* deleted, that on S3 if it was uploaded.  Excepted are a removal under way or
\* cut short, and two executions that share a file.
CopiesExist ==
  \A r \in Ids, w \in Stores :
    /\ There(r) /\ rows[r].status = "success"
    /\ w \notin rows[r].deleted /\ (w = "s3" => rows[r].s3_uploaded = "yes")
    /\ copies[w][rows[r].file] = "none"
    => \/ \E j \in Jobs : job[j].pc = "mark" /\ job[j].where = w /\ r \in job[j].doomed
       \/ r \in cut \/ Shared(r)

\* Whatever retention removes locally, a backup that is not older stays, unless
\* a user deletes that: jobs side by side never leave a schedule without one.
\* Two executions of the same second, which retention may see in either order,
\* are excepted.
NewestKept ==
  \A j \in Jobs : job[j].pc = "remove" /\ job[j].where = "local" =>
    \A r \in job[j].doomed : Tied(r) \/ \E q \in Ids :
      /\ rows[q].status = "success" /\ At(q) >= At(r)
      /\ \/ \A i \in Jobs : job[i].where = "local" => q \notin job[i].doomed
         \/ Tied(q)
      /\ \/ copies["local"][rows[q].file] # "none"
         \/ rows[q].state = "deleted" \/ q \in cut \/ Tied(q)

\* Retention forgets an execution only when no copy of it is left that a
\* removal has not missed.
PurgedClean ==
  \A r \in Ids : rows[r].state = "purged" /\ ~Shared(r) =>
    \A w \in Stores : \/ copies[w][rows[r].file] = "none"
                      \/ <<w, rows[r].file>> \in unremoved

\* An execution that says it is running has a job at work on it, whatever fails
\* in that job: only if the job died is it left to the next restart.
Accounted ==
  \A r \in Ids : There(r) /\ rows[r].status = "running" =>
    r \in cut \/ \E j \in Jobs : job[j].pc \in Work \ {"create"} /\ Current(j) = r

\* The local file is dropped only once the copy on S3 is there.
DroppedAfterUpload ==
  \A j \in Jobs :
    job[j].pc = "drop" /\ There(Current(j)) /\ ~Shared(Current(j))
      => copies["s3"][File(j)] # "none"

=============================================================================
