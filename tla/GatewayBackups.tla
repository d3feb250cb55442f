--------------------------- MODULE GatewayBackups ---------------------------
(***************************************************************************)
(* Archives and the database file of awg-gateway.  A backup writes an      *)
(* archive with a copy of the database and then a record of it; a record   *)
(* counts when its session commits, an archive at once.  A restore and a   *)
(* factory reset replace the file of the database, while connections of    *)
(* the pool stay with the file that they opened.  A file is a generation:  *)
(* an index of databases.                                                  *)
(***************************************************************************)
EXTENDS Integers, Sequences, FiniteSets, Functions

CONSTANTS
    BackupSlot,         \* requests and cycles in flight, no more than db_pool_size
    UploadName,         \* names under which archives are sent
    Retention,          \* backup_retention_count
    MaxBackupRequests,  \* bound on the requests and cycles in a behaviour
    MaxBackupFaults     \* bound on the faults in a behaviour

ASSUME BackupsAssumption ==
    /\ Retention \in Nat \ {0} /\ UploadName \subseteq Nat
    /\ MaxBackupRequests \in Nat /\ MaxBackupFaults \in Nat
    /\ "none" \notin BackupSlot

VARIABLES
    archives,    \* files of backup_dir by name: when written, records in the copy
    databases,   \* committed backup_records of each generation of gateway.db
    current,     \* the generation at db_path
    pool,        \* idle connections in the order of their return: the generations they opened
    jobs,        \* requests and cycles in flight
    resetLock,   \* holder of _reset_lock, or "none"; _db_ready is its opposite
    restored,    \* history: a restore replaced the file and nothing closed the pool since
    stragglers,  \* history: a session was in flight when a reset closed the pool
    torn,        \* history: records and archives parted by an accident
    stamp,       \* time, and name of the next archive
    backupRequests, backupFaults

storeVars == <<archives, databases, current, torn, stamp>>
doorVars  == <<resetLock, restored, stragglers>>
poolVars  == <<pool, doorVars>>
boundVars == <<backupRequests, backupFaults>>
backupVars == <<storeVars, poolVars, jobs, boundVars>>

\* 0 is the name of the scheduled archive of the day, others are named by their time.
Daily    == 0
NoJob    == [phase |-> "idle"]
InFlight == {j \in BackupSlot : jobs[j] # NoJob}
FilesOf(records)  == {r.file : r \in records}
WithFile(records) == {r \in records : ~r.restore}
Present  == DOMAIN archives

---------------------------------------------------------------------------
(* Sessions *)

\* The pool opens a connection when none is idle; otherwise the longest idle one is taken.
Checkout == IF pool = <<>> THEN current ELSE Head(pool)

PoolAfterCheckout == IF pool = <<>> THEN pool ELSE Tail(pool)

\* A connection goes back to the pool that it came from.
PoolAfter(j) == IF jobs[j].pooled THEN Append(pool, jobs[j].gen) ELSE pool

\* Who has flushed and holds SQLite's writer of a generation
Writing(g) == {j \in InFlight : jobs[j].gen = g /\ jobs[j].add # {}}
Locked(j)  == Writing(jobs[j].gen) \ {j} # {}

Ends(j) ==
    /\ jobs' = [jobs EXCEPT ![j] = NoJob]
    /\ pool' = PoolAfter(j)
Goes(j, phase) == jobs' = [jobs EXCEPT ![j].phase = phase]

\* What a session sees: the committed records and those that it flushed
Visible(j) == databases[jobs[j].gen] \cup jobs[j].add

Without(files) == [f \in Present \ files |-> archives[f]]

\* Nobody else counts on these archives: the session has the database at db_path, and no
\* other one has flushed a record of them.
OwnFiles(j, files) ==
    /\ jobs[j].gen = current
    /\ \A i \in InFlight \ {j} : files \cap FilesOf(WithFile(jobs[i].add)) = {}

OneRecordEach(records) == \A r, s \in WithFile(records) : r.file = s.file => r = s

---------------------------------------------------------------------------
(* Requests and cycles *)

\* create and daily write an archive and prune, export does not prune and is a GET;
\* delete and restore work on a record, remove and refile on a file by its name, upload
\* on an archive without records that is sent under any name; reset is the factory reset;
\* change stands for a handler that commits and then queries again with the same session.
BackupKinds == {"create", "daily", "export", "delete", "restore", "remove", "refile",
                "upload", "reset", "change"}

FirstPhase(kind) ==
    CASE kind \in {"create", "daily", "export"} -> "write"
      [] kind \in {"remove", "refile"} -> "sync"
      [] kind = "reset" -> "lock"
      [] kind = "change" -> "commit"
      [] OTHER -> "act"

\* The door, a connection, the rows; a cycle that finds the record of the day ends, and
\* there is one loop of cycles.
BeginBackup(j) ==
    LET named == [file: Present \cup {Daily} \cup UploadName, at: {0}, restore: {FALSE}]
    IN \E kind \in BackupKinds, r \in databases[Checkout] \cup named :
        /\ jobs[j] = NoJob /\ resetLock = "none" /\ backupRequests > 0
        /\ CASE kind \in {"delete", "restore"} -> r \in databases[Checkout]
             [] kind \in {"remove", "refile"} -> r.at = 0 /\ r.file \in Present
             [] kind = "daily" -> r.at = 0 /\ r.file = Daily /\ Daily \notin FilesOf(databases[Checkout])
                                  /\ \A i \in InFlight : jobs[i].kind # "daily"
             [] kind = "upload" -> r.at = 0 /\ r.file \in UploadName
             [] OTHER -> r.at = 0 /\ r.file = Daily
        /\ pool' = PoolAfterCheckout
        /\ jobs' = [jobs EXCEPT ![j] = [phase |-> FirstPhase(kind), kind |-> kind, record |-> r,
                                        gen |-> Checkout, pooled |-> TRUE,
                                        seen |-> IF kind \in {"remove", "refile"} THEN FilesOf(databases[Checkout]) ELSE {},
                                        add |-> {}, drop |-> {}]]
        /\ backupRequests' = backupRequests - 1
        /\ UNCHANGED <<storeVars, resetLock, restored, stragglers, backupFaults>>

\* create_backup_file up to the flush, _capture_pre_reset_backup
WriteArchive(j) ==
    /\ jobs[j].phase \in {"write", "capture"}
    /\ LET name == IF jobs[j].kind = "daily" THEN Daily ELSE stamp
       IN /\ archives' = [f \in Present \cup {name} |->
                IF f = name THEN [at |-> stamp, holds |-> databases[current]] ELSE archives[f]]
          /\ jobs' = [jobs EXCEPT ![j].phase = IF @ = "write" THEN "flush" ELSE "dispose",
                                  ![j].record = [file |-> name, at |-> stamp, restore |-> FALSE]]
    /\ stamp' = stamp + 1
    /\ UNCHANGED <<databases, current, torn, poolVars, boundVars>>

\* record_backup
RecordBackup(j) ==
    /\ jobs[j].phase = "flush" /\ ~Locked(j)
    /\ jobs' = [jobs EXCEPT ![j].add = @ \cup {jobs[j].record},
                            ![j].phase = CASE jobs[j].kind \in {"create", "daily"} -> "prune"
                                           [] jobs[j].kind = "export" -> "close"
                                           [] OTHER -> "commit"]
    /\ torn' = (torn \/ (~jobs[j].record.restore
                         /\ jobs[j].record.file \notin Present \ FilesOf(WithFile(databases[jobs[j].gen]))))
    /\ UNCHANGED <<archives, databases, current, stamp, poolVars, boundVars>>

\* Mutant of Surplus: the slice starts one row early
SurplusEarly(records) ==
    {r \in WithFile(records) : Cardinality({s \in WithFile(records) : s.at > r.at}) >= Retention - 1}

\* What prune_backup_files takes away: all but the newest
Surplus(records) ==
    {r \in WithFile(records) : Cardinality({s \in WithFile(records) : s.at > r.at}) >= Retention}

\* Mutant of CyclePhase: deleted rows alone do not make a cycle commit
CyclePhaseOfNew(kind, drop) == IF kind = "daily" THEN "close" ELSE "commit"

\* _run_db_cycle_with_retry commits what is new, dirty or deleted, and what is flushed is
\* not new any more; get_db commits in any case.
CyclePhase(kind, drop) == IF kind = "daily" /\ drop = {} THEN "close" ELSE "commit"

\* prune_backup_files
PruneArchives(j) ==
    /\ jobs[j].phase = "prune"
    /\ LET drop == Surplus(Visible(j))
       IN /\ archives' = Without(FilesOf(drop))
          /\ jobs' = [jobs EXCEPT ![j].drop = drop, ![j].phase = CyclePhase(jobs[j].kind, drop)]
          /\ torn' = (torn \/ (drop # {} /\ ~OwnFiles(j, FilesOf(drop))))
    /\ UNCHANGED <<databases, current, stamp, poolVars, boundVars>>

\* sync_backup_records_from_files: the glob is newer than the rows
SyncRecords(j) ==
    /\ jobs[j].phase = "sync" /\ (Present \subseteq jobs[j].seen \/ ~Locked(j))
    /\ jobs' = [jobs EXCEPT ![j].phase = "act",
            ![j].add = {[file |-> f, at |-> archives[f].at, restore |-> FALSE] : f \in Present \ jobs[j].seen}]
    /\ UNCHANGED <<storeVars, poolVars, boundVars>>

\* delete_backup_record, delete_backup_by_filename
DeleteArchive(j) ==
    /\ jobs[j].phase = "act" /\ jobs[j].kind \in {"delete", "remove"}
    /\ jobs[j].kind = "remove" => jobs[j].record.file \in Present
    /\ archives' = Without({jobs[j].record.file})
    /\ jobs' = [jobs EXCEPT ![j].phase = "commit",
            ![j].drop = IF jobs[j].kind = "delete" THEN {jobs[j].record}
                        ELSE {r \in Visible(j) : r.file = jobs[j].record.file}]
    \* The record of a restore has the name of an archive, and a record may be gone by now.
    /\ torn' = (torn \/ ~OwnFiles(j, {jobs[j].record.file})
                     \/ (jobs[j].kind = "delete"
                         /\ jobs[j].record \notin WithFile(databases[jobs[j].gen])))
    /\ UNCHANGED <<databases, current, stamp, poolVars, boundVars>>

\* restore_backup_bytes: os.replace, the pool is left alone
RestoreArchive(j) ==
    /\ jobs[j].phase = "act" /\ jobs[j].kind \in {"restore", "refile", "upload"}
    /\ jobs[j].kind = "upload" \/ jobs[j].record.file \in Present
    /\ LET holds == IF jobs[j].kind = "upload" THEN {} ELSE archives[jobs[j].record.file].holds
       IN /\ databases' = Append(databases, holds)
          /\ torn' = ~(FilesOf(WithFile(holds)) \subseteq Present /\ OneRecordEach(holds))
    /\ current' = Len(databases) + 1
    /\ restored' = TRUE
    /\ jobs' = [jobs EXCEPT ![j].phase = "flush",
            ![j].record = [file |-> jobs[j].record.file, at |-> stamp, restore |-> TRUE]]
    /\ stamp' = stamp + 1
    /\ UNCHANGED <<archives, pool, resetLock, stragglers, boundVars>>

\* commit_with_lock, and the end of the session
CommitBackup(j) ==
    /\ jobs[j].phase = "commit" /\ ~Locked(j)
    /\ databases' = [databases EXCEPT ![jobs[j].gen] = (@ \cup jobs[j].add) \ jobs[j].drop]
    /\ IF jobs[j].kind = "change"
       THEN jobs' = [jobs EXCEPT ![j].phase = "again", ![j].pooled = FALSE] /\ pool' = PoolAfter(j)
       ELSE Ends(j)
    \* The session may have read the rows before a record was committed.
    /\ torn' = (torn \/ FilesOf(WithFile(jobs[j].add)) \cap FilesOf(WithFile(databases[jobs[j].gen])) # {})
    /\ UNCHANGED <<archives, current, stamp, doorVars, boundVars>>

\* The next query of a session that has committed: the door is behind it.
TakeAgain(j) ==
    /\ jobs[j].phase = "again"
    /\ pool' = PoolAfterCheckout
    /\ jobs' = [jobs EXCEPT ![j].phase = "close", ![j].pooled = TRUE, ![j].gen = Checkout]
    /\ UNCHANGED <<storeVars, resetLock, restored, stragglers, boundVars>>

\* A GET, or a cycle with nothing left to flush; 404 for a file that is gone meanwhile
CloseSession(j) ==
    /\ \/ jobs[j].phase = "close"
       \/ /\ jobs[j].phase = "act" /\ jobs[j].kind \in {"remove", "refile", "restore"}
          /\ jobs[j].record.file \notin Present
    /\ Ends(j)
    /\ UNCHANGED <<storeVars, doorVars, boundVars>>

\* "database is locked", or any error of a commit; the session rolls back, the unlinked
\* archives stay away.
Rollback(j) ==
    /\ \/ /\ jobs[j].phase \in {"flush", "commit"} /\ jobs[j].kind # "change" /\ Locked(j)
          /\ UNCHANGED backupFaults
       \/ jobs[j].phase = "sync" /\ Locked(j) /\ ~(Present \subseteq jobs[j].seen) /\ UNCHANGED backupFaults
       \/ jobs[j].phase = "commit" /\ backupFaults > 0 /\ backupFaults' = backupFaults - 1
    /\ torn' = (torn \/ jobs[j].drop # {})
    /\ Ends(j)
    /\ UNCHANGED <<archives, databases, current, stamp, doorVars, backupRequests>>

---------------------------------------------------------------------------
(* Factory reset *)

CloseDoor(j) ==
    /\ jobs[j].phase = "lock" /\ resetLock = "none"
    /\ resetLock' = j
    /\ Goes(j, "capture")
    /\ UNCHANGED <<storeVars, pool, restored, stragglers, boundVars>>

\* Mutant of Disposed: the engine keeps its pool
DisposedNot == pool

\* engine.dispose: a new pool; who has a connection of the old one keeps it
Disposed == <<>>

DisposePool(j) ==
    /\ jobs[j].phase = "dispose"
    /\ pool' = Disposed
    /\ stragglers' = (InFlight # {j})
    /\ jobs' = [i \in BackupSlot |->
            IF jobs[i] = NoJob THEN NoJob
            ELSE [jobs[i] EXCEPT !.pooled = FALSE, !.phase = IF i = j THEN "recreate" ELSE @]]
    /\ UNCHANGED <<storeVars, resetLock, restored, boundVars>>

\* _delete_sqlite_family and the tables of a new file
RecreateDatabase(j) ==
    /\ jobs[j].phase = "recreate"
    /\ databases' = Append(databases, {})
    /\ current' = Len(databases) + 1
    /\ torn' = FALSE /\ restored' = FALSE
    /\ Goes(j, "answer")
    /\ UNCHANGED <<archives, stamp, pool, resetLock, stragglers, boundVars>>

OpenDoor(j) ==
    /\ jobs[j].phase = "answer"
    /\ resetLock' = "none"
    /\ Ends(j)
    /\ UNCHANGED <<storeVars, restored, stragglers, boundVars>>

\* The process ends, at any time, and starts again.
RestartBackups ==
    /\ backupFaults > 0 /\ backupFaults' = backupFaults - 1
    /\ torn' = (torn \/ \E j \in InFlight : jobs[j].drop # {})
    /\ jobs' = [j \in BackupSlot |-> NoJob]
    /\ pool' = <<>>
    /\ resetLock' = "none" /\ restored' = FALSE /\ stragglers' = FALSE
    /\ UNCHANGED <<archives, databases, current, stamp, backupRequests>>

---------------------------------------------------------------------------

\* Records of archives that are named by their time
RecordsOf(times) == {[file |-> t, at |-> t, restore |-> FALSE] : t \in times}

\* Retention archives with their records, so that the next one is pruned
BackupsInit ==
    /\ archives = [f \in 1..Retention |-> [at |-> f, holds |-> RecordsOf(1..f - 1)]]
    /\ databases = <<RecordsOf(1..Retention)>>
    /\ current = 1 /\ pool = <<>>
    /\ jobs = [j \in BackupSlot |-> NoJob]
    /\ resetLock = "none" /\ restored = FALSE /\ stragglers = FALSE /\ torn = FALSE
    /\ stamp = Retention + 1
    /\ backupRequests = MaxBackupRequests /\ backupFaults = MaxBackupFaults

BackupsNext ==
    \/ \E j \in BackupSlot :
        \/ BeginBackup(j) \/ WriteArchive(j) \/ RecordBackup(j) \/ PruneArchives(j)
        \/ SyncRecords(j) \/ DeleteArchive(j) \/ RestoreArchive(j)
        \/ CommitBackup(j) \/ TakeAgain(j) \/ CloseSession(j) \/ Rollback(j)
        \/ CloseDoor(j) \/ DisposePool(j) \/ RecreateDatabase(j) \/ OpenDoor(j)
    \/ RestartBackups

BackupsSpec == BackupsInit /\ [][BackupsNext]_backupVars

---------------------------------------------------------------------------
(* Properties *)

\* Types of the variables
BackupsTypeOK ==
    /\ current \in DOMAIN databases
    /\ Range(pool) \subseteq DOMAIN databases
    /\ resetLock \in BackupSlot \cup {"none"}
    /\ {restored, stragglers, torn} \subseteq BOOLEAN
    /\ \A f \in Present : f \in Nat /\ archives[f].at < stamp

\* Outside a reset every connection of the pool is one to the file at db_path, so that
\* what a request is told to be saved is saved there.  Excepted is the time from a restore to
\* the restart that the documentation asks for, and from a reset that found sessions in
\* flight, which may bring a connection to the deleted file into the new pool.
SessionsShareDatabase ==
    resetLock = "none" /\ ~restored /\ ~stragglers =>
        Range(pool) \cup {jobs[j].gen : j \in {i \in InFlight : jobs[i].pooled}} \subseteq {current}

\* Whenever no request is under way, each record of an archive has its file.  Excepted is
\* what the code loses: a request whose commit failed after it had unlinked, the deletion of
\* a record that is one of a restore or is gone by then, an archive unlinked while another
\* session was about to record it or by a session that has a replaced database, two records
\* of one archive, and a database restored whose archives are gone.
RecordsHaveArchives ==
    InFlight = {} /\ ~torn => FilesOf(WithFile(databases[current])) \subseteq Present

\* Pruning never leaves fewer archives than the operator asked to keep, whatever requests
\* overlap, whatever fails and whichever records are added from files; archives whose deletion
\* is not committed yet count, as their records do. The exceptions are the same.
Deleting == UNION {FilesOf(jobs[j].drop) : j \in InFlight}

PruneKeepsEnough ==
    [][(\E j \in BackupSlot : jobs[j] # NoJob /\ jobs[j].phase = "prune" /\ jobs'[j] # jobs[j]
                              /\ Present # DOMAIN archives')
         /\ ~torn' => Cardinality(DOMAIN archives' \cup Deleting) >= Retention]_backupVars
=============================================================================
