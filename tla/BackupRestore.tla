--------------------------- MODULE BackupRestore ----------------------------
(***************************************************************************)
(* exportBackup and restoreBackup next to administrators who change the    *)
(* organizations.  Two tables stand for the 21 of the archive: one that    *)
(* refers to itself and is exported from its roots, as strategies and kpis *)
(* are too, and one that refers to it.  The rows of backup_jobs are left   *)
(* out.                                                                    *)
(*                                                                         *)
(* An export is REPEATABLE READ: it reads all tables as they are at its    *)
(* first query.  TRUNCATE is not part of that promise: it waits for        *)
(* transactions that have read a table, but for a transaction that has     *)
(* its snapshot and not read the table yet, the table is empty.            *)
(***************************************************************************)
EXTENDS Organizations

CONSTANTS Backup,     \* the slots of concurrent exports and restores
          CodeRank,   \* CodeRank[o]: the place of its code among all codes
          MaxFiles,   \* bound of the model: the archives that are kept
          MaxActive   \* bound of the model: the requests at one time

ASSUME BackupAssumption ==
    /\ CodeRank \in [Org -> 1 .. Cardinality(Org)]
    /\ MaxFiles \in Nat
    /\ MaxActive \in Nat

VARIABLES
    files,   \* the signed archives that administrators have downloaded
    job      \* job[b]: the export or restore in slot b

vars == <<orgVars, files, job>>

\* parent and line: the rows of organizations.ndjson, by their line; users: the
\* rows of users.ndjson.  Complete and undisturbed are no part of the file: is
\* it the database of the export's snapshot, and did neither a cycle nor a
\* restore get in the way of the export?
IsFile(file) ==
    /\ IsTable(file.parent, Org)
    /\ file.line \in [DOMAIN file.parent -> Nat]
    /\ IsTable(file.users, User)
    /\ {file.complete, file.undisturbed} \subseteq BOOLEAN

NoTable == [x \in {} |-> None]

NoFile == [parent |-> NoTable, line |-> NoTable, users |-> NoTable,
           complete |-> FALSE, undisturbed |-> FALSE]

NoJob == [phase |-> "idle", snapshot |-> [organizations |-> NoTable, users |-> NoTable],
          truncated |-> FALSE, file |-> NoFile]

JobPhases == {"idle", "export_organizations", "export_users", "restore_clear",
              "restore_fill"}

TypeOK ==
    /\ OrgTypeOK
    /\ \A file \in files : IsFile(file)
    /\ \A b \in Backup :
          /\ job[b].phase \in JobPhases
          /\ IsTable(job[b].snapshot.organizations, Org)
          /\ IsTable(job[b].snapshot.users, User)
          /\ job[b].truncated \in BOOLEAN
          /\ IsFile(job[b].file)

Init ==
    /\ OrgInit
    /\ files = {}
    /\ job = [b \in Backup |-> NoJob]

-----------------------------------------------------------------------------
(* Table locks *)

Clearing(b) == job[b].phase = "restore_fill"

\* Whoever reads or writes a table waits for the end of a TRUNCATE.
TablesFree == \A b \in Backup : ~Clearing(b)

\* TRUNCATE waits for exports that have read a table.
TablesUnused == TablesFree /\ \A b \in Backup : job[b].phase # "export_users"

FinishJob(b) == job' = [job EXCEPT ![b] = NoJob]

\* Disconnect, timeout, failing statement or process stop: no archive, and a
\* restore is rolled back.
CancelJob(b) ==
    /\ job[b].phase # "idle"
    /\ FinishJob(b)
    /\ UNCHANGED <<orgVars, files>>

-----------------------------------------------------------------------------
(* exportBackup *)

Exporting == {b \in Backup : job[b].phase \in {"export_organizations", "export_users"}}

\* The query for the schema version takes the snapshot.
StartExport(b) ==
    /\ job[b].phase = "idle"
    /\ Cardinality(files) + Cardinality(Exporting) < MaxFiles
    /\ job' = [job EXCEPT ![b] =
           [NoJob EXCEPT !.phase = "export_organizations",
                         !.snapshot = [organizations |-> organizations,
                                       users |-> users]]]
    /\ UNCHANGED <<orgVars, files>>

\* What the snapshot shows of a table.
Visible(b, table) == IF job[b].truncated THEN NoTable ELSE table

\* The recursive query walks down from the organizations without a parent, and
\* counts the levels above each.
Rooted(t) == Descendants(t, None)

Depth(t, o) == Cardinality({x \in DOMAIN t : o \in Descendants(t, x)})

\* (mutant) ORDER BY code
LineByCode(t, o) == CodeRank[o]

\* ORDER BY depth, code
Line(t, o) == Depth(t, o) * (Cardinality(Org) + 1) + CodeRank[o]

ExportOrganizations(b) ==
    LET t == Visible(b, job[b].snapshot.organizations) IN
    /\ job[b].phase = "export_organizations"
    /\ TablesFree
    /\ job' = [job EXCEPT ![b].phase = "export_users",
                          ![b].file = [@ EXCEPT
                              !.parent = [o \in Rooted(t) |-> t[o]],
                              !.line = [o \in Rooted(t) |-> Line(t, o)]]]
    /\ UNCHANGED <<orgVars, files>>

Signed(b, rows) ==
    [job[b].file EXCEPT
        !.users = rows,
        !.complete = /\ job[b].file.parent = job[b].snapshot.organizations
                     /\ rows = job[b].snapshot.users,
        !.undisturbed = Forest(job[b].snapshot.organizations) /\ ~job[b].truncated]

\* (mutant) READ COMMITTED: every query has its own snapshot
ExportUsersCommitted(b) ==
    /\ job[b].phase = "export_users"
    /\ files' = files \cup {Signed(b, users)}
    /\ FinishJob(b)
    /\ UNCHANGED orgVars

\* The last table; the archive is signed and delivered.
ExportUsers(b) ==
    /\ job[b].phase = "export_users"
    /\ files' = files \cup {Signed(b, Visible(b, job[b].snapshot.users))}
    /\ FinishJob(b)
    /\ UNCHANGED orgVars

-----------------------------------------------------------------------------
(* restoreBackup *)

\* The upload is one of the signed archives, and it is confirmed.
StartRestore(b, file) ==
    /\ job[b].phase = "idle"
    /\ job' = [job EXCEPT ![b] = [NoJob EXCEPT !.phase = "restore_clear",
                                               !.file = file]]
    /\ UNCHANGED <<orgVars, files>>

\* TRUNCATE ... CASCADE.
RestoreClear(b) ==
    /\ job[b].phase = "restore_clear"
    /\ TablesUnused
    /\ job' = [job EXCEPT ![b].phase = "restore_fill"]
    /\ UNCHANGED <<orgVars, files>>

\* Line by line, every row refers to a row that was inserted before.
Insertable(file) ==
    /\ \A o \in DOMAIN file.parent :
          LET parent == file.parent[o] IN
          parent # None => /\ parent \in DOMAIN file.parent
                           /\ file.line[parent] < file.line[o]
    /\ \A u \in DOMAIN file.users : Refers(file.parent, file.users[u])

\* 409 restore_record_failed.
RestoreRefused(b) ==
    /\ job[b].phase = "restore_fill"
    /\ ~Insertable(job[b].file)
    /\ FinishJob(b)
    /\ UNCHANGED <<orgVars, files>>

\* (mutant) the lines of the two entries are inserted into each other's table
RestoreSwapped(b) ==
    /\ job[b].phase = "restore_fill"
    /\ Insertable(job[b].file)
    /\ organizations' = job[b].file.users
    /\ users' = job[b].file.parent
    /\ FinishJob(b)
    /\ UNCHANGED <<move, raced, files>>

\* COMMIT: exports that have not read a table yet will find it empty, and what
\* a move has checked is out of date.
RestoreCommitted(b) ==
    /\ job[b].phase = "restore_fill"
    /\ Insertable(job[b].file)
    /\ organizations' = job[b].file.parent
    /\ users' = job[b].file.users
    /\ move' = [r \in Mover |-> [move[r] EXCEPT !.stale = @ \/ move[r].phase = "write"]]
    /\ job' = [c \in Backup |->
           IF c = b THEN NoJob
           ELSE [job[c] EXCEPT !.truncated = @ \/ job[c].phase = "export_organizations"]]
    /\ UNCHANGED <<raced, files>>

-----------------------------------------------------------------------------

HandleJob(b) ==
    \/ ExportOrganizations(b)
    \/ ExportUsers(b)
    \/ RestoreClear(b)
    \/ RestoreRefused(b)
    \/ RestoreCommitted(b)

RoomForOne ==
    Cardinality({r \in Mover : move[r].phase # "idle"})
  + Cardinality({b \in Backup : job[b].phase # "idle"}) < MaxActive

Arrive ==
    /\ RoomForOne
    /\ \/ /\ \E r \in Mover, o \in Org, parent \in Org \cup {None} :
                 StartMove(r, o, parent)
          /\ UNCHANGED <<files, job>>
       \/ \E b \in Backup :
             StartExport(b) \/ \E file \in files : StartRestore(b, file)

Next ==
    \/ Arrive
    \/ TablesFree /\ OrgStatement /\ UNCHANGED <<files, job>>
    \/ (\E r \in Mover : CancelMove(r)) /\ UNCHANGED <<files, job>>
    \/ \E b \in Backup : HandleJob(b) \/ CancelJob(b)

Spec == Init /\ [][Next]_vars

-----------------------------------------------------------------------------
(* Properties *)

\* An archive is the database of one moment, however long its export took and
\* whatever was changed meanwhile, unless organizations were on a cycle or a
\* restore was committed after the export's first query.
UndisturbedArchivesAreComplete ==
    \A file \in files : file.undisturbed => file.complete

\* Such an archive can be restored: its lines are in an order in which every
\* row finds the rows it refers to.
UndisturbedArchivesRestore ==
    \A file \in files : file.undisturbed => Insertable(file)

\* docs/operations.md: "exports a complete logical .plxbackup archive" with
\* "table snapshots": every archive that was signed holds all rows of the
\* export's snapshot.
ArchivesAreComplete == \A file \in files : file.complete

=============================================================================
