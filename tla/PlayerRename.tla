---------------------------- MODULE PlayerRename ----------------------------
(***************************************************************************)
(* rename_player_everywhere of src/player_rename.c: a character gets a new *)
(* name in the database, in its files, in the files of those who know it,  *)
(* in the player index and in memory.  The database has transactions, the  *)
(* file system has rename() and snapshots, and what fails is undone step   *)
(* by step.                                                                *)
(*                                                                         *)
(* Any step may fail, and so may any step of the undoing; the server may   *)
(* drop the connection, and with it the transaction; the answer to COMMIT  *)
(* may be lost after the server has committed; the game may crash between  *)
(* any two steps.  Nothing else runs meanwhile: the command loop has one   *)
(* thread and the rename holds mysql_mutex.  Names, rows and contents are  *)
(* only old or new.                                                        *)
(***************************************************************************)
CONSTANTS
  Tables,  \* the active keys: table columns that hold the name
  Aux,     \* the auxiliary files the player has
  Intros   \* the player files in which others are introduced to the name

\* player_data is a required key: the name is in one table at least.
ASSUME TablesAssumption == Tables # {}

VARIABLES
  pc,        \* where rename_player_everywhere is
  alive,     \* the game has not crashed
  db,        \* the tables whose committed rows have the new name
  open,      \* the server has a transaction open for the connection
  view,      \* the tables whose rows have the new name inside it
  pfile,     \* the content of the player file at the old and at the new path
  aux,       \* the path of each auxiliary file
  intros,    \* the introductions of each other player
  index,     \* the player index file
  memory,    \* player_table and the character
  caches,    \* account lists and live strings
  snaps,     \* the snapshots on disk
  ctx,       \* the rename_context
  report     \* the player_rename_report

disk == <<pfile, aux, intros, index, snaps>>
server == <<db, open, view>>
heap == <<memory, caches>>
renameVars == <<pc, alive, server, disk, heap, ctx, report>>

Names == {"old", "new"}
Snapshots == {"pfile", "index"} \cup Intros

\* started: transaction_started.  attempted: database_updates_attempted.
\* pmoved, moved, changed, written: files[0].moved, the other files moved,
\* intro_files changed and index_written.  ok: rollback_ok.
Ctx == [started : BOOLEAN, attempted : BOOLEAN, pmoved : BOOLEAN, moved : SUBSET Aux,
        changed : SUBSET Intros, written : BOOLEAN, ok : BOOLEAN]

Forward == {"plan", "begin", "lock", "backup", "move", "update", "memory", "rewrite",
            "introduce", "index", "verify", "commit", "finish"}
Undo == {"rollback", "check_db", "undo_memory", "undo_index", "undo_intros", "undo_pfile",
         "unlink_new", "undo_aux", "check_files", "discard"}

RenameInit ==
  /\ pc = "plan" /\ alive = TRUE
  /\ db = {} /\ open = FALSE /\ view = {}
  /\ pfile = [old |-> "old", new |-> "none"]
  /\ aux = [a \in Aux |-> "old"]
  /\ intros = [i \in Intros |-> "old"]
  /\ index = "old" /\ memory = "old" /\ caches = "old"
  /\ snaps = {}
  /\ ctx = [started |-> FALSE, attempted |-> FALSE, pmoved |-> FALSE, moved |-> {},
            changed |-> {}, written |-> FALSE, ok |-> TRUE]
  /\ report = "none"

At(p) == alive /\ pc = p
Goto(p) == pc' = p /\ UNCHANGED alive

-----------------------------------------------------------------------------
(* The way forward.                                                        *)

\* Validation, collision checks and the planning of files; nothing is changed.
Plan ==
  /\ At("plan") /\ Goto("begin")
  /\ UNCHANGED <<server, disk, heap, ctx, report>>

Begin ==
  /\ At("begin") /\ Goto("lock")
  /\ open' = TRUE
  /\ view' = db
  /\ ctx' = [ctx EXCEPT !.started = TRUE]
  /\ UNCHANGED <<db, disk, heap, report>>

\* The canonical row is locked, the rows of both names are counted, and captured.
Lock ==
  /\ At("lock") /\ Goto("backup")
  /\ UNCHANGED <<server, disk, heap, ctx, report>>

\* Mutant: the files of others need no snapshot.
BackedUpOwn == {"pfile", "index"}

BackedUp == Snapshots

\* rename_create_backups: the player file, the index, then each introduction file.
Backup ==
  /\ At("backup")
  /\ \/ \E s \in BackedUp \ snaps :
          /\ s # "pfile" => "pfile" \in snaps
          /\ s \in Intros => "index" \in snaps
          /\ snaps' = snaps \cup {s}
          /\ Goto("backup")
     \/ /\ BackedUp \subseteq snaps
        /\ Goto("move")
        /\ UNCHANGED snaps
  /\ UNCHANGED <<server, pfile, aux, intros, index, heap, ctx, report>>

\* rename_move_files: the auxiliary files, then the player file.
MoveAux ==
  /\ At("move") /\ Goto("move")
  /\ \E a \in Aux \ ctx.moved :
       /\ aux' = [aux EXCEPT ![a] = "new"]
       /\ ctx' = [ctx EXCEPT !.moved = @ \cup {a}]
  /\ UNCHANGED <<server, pfile, intros, index, snaps, heap, report>>

MovePfile ==
  /\ At("move") /\ Goto("update")
  /\ ctx.moved = Aux
  /\ pfile' = [old |-> "none", new |-> pfile.old]
  /\ ctx' = [ctx EXCEPT !.pmoved = TRUE, !.attempted = TRUE]
  /\ UNCHANGED <<server, aux, intros, index, snaps, heap, report>>

\* Mutant: the updates are committed at once.
AfterUpdatesAtOnce == "commit"

AfterUpdates == "memory"

\* rename_update_db_rows, one table at a time, inside the transaction.
Update ==
  /\ At("update")
  /\ \/ \E t \in Tables \ view :
          /\ open
          /\ view' = view \cup {t}
          /\ Goto("update")
     \/ /\ view = Tables
        /\ Goto(AfterUpdates)
        /\ UNCHANGED view
  /\ UNCHANGED <<db, open, disk, heap, ctx, report>>

ChangeMemory ==
  /\ At("memory") /\ Goto("rewrite")
  /\ memory' = "new"
  /\ UNCHANGED <<server, disk, caches, ctx, report>>

\* rename_rewrite_files: a new file is renamed over the moved one ...
RewritePfile ==
  /\ At("rewrite") /\ Goto("introduce")
  /\ pfile' = [pfile EXCEPT !.new = "new"]
  /\ UNCHANGED <<server, aux, intros, index, snaps, heap, ctx, report>>

\* ... and over each that mentions the name.
Introduce ==
  /\ At("introduce")
  /\ \/ \E i \in Intros \ ctx.changed :
          /\ intros' = [intros EXCEPT ![i] = "new"]
          /\ ctx' = [ctx EXCEPT !.changed = @ \cup {i}]
          /\ Goto("introduce")
     \/ /\ ctx.changed = Intros
        /\ Goto("index")
        /\ UNCHANGED <<intros, ctx>>
  /\ UNCHANGED <<server, pfile, aux, index, snaps, heap, report>>

\* save_player_index_checked
SaveIndex ==
  /\ At("index") /\ Goto("verify")
  /\ index' = "new"
  /\ ctx' = [ctx EXCEPT !.written = TRUE]
  /\ UNCHANGED <<server, pfile, aux, intros, snaps, heap, report>>

FilesAre(name) ==
  /\ pfile[name] = name
  /\ \A other \in Names \ {name} : pfile[other] = "none"
  /\ \A a \in Aux : aux[a] = name
  /\ \A i \in Intros : intros[i] = name
  /\ index = name

\* What a query of the connection sees.
Visible == IF open THEN view ELSE db

\* The counts of rows, the canonical row, the view of old characters and every file; the
\* replacements of live strings are made ready.
Verify ==
  /\ At("verify") /\ Goto("commit")
  /\ Visible = Tables
  /\ FilesAre("new")
  /\ UNCHANGED <<server, disk, heap, ctx, report>>

\* COMMIT succeeds.
Commit ==
  /\ At("commit") /\ Goto("finish")
  /\ open
  /\ db' = view
  /\ open' = FALSE
  /\ ctx' = [ctx EXCEPT !.started = FALSE]
  /\ UNCHANGED <<view, disk, heap, report>>

\* The server commits, and its answer is lost with the connection.
CommitUnheard ==
  /\ At("commit") /\ Goto("rollback")
  /\ open
  /\ db' = view
  /\ open' = FALSE
  /\ UNCHANGED <<view, disk, heap, ctx, report>>

\* rename_refresh_live_state and rename_remove_backups; unlink may fail, and is logged.
FinishRename ==
  /\ At("finish") /\ Goto("done")
  /\ caches' = "new"
  /\ snaps' \in SUBSET snaps
  /\ report' = "ok"
  /\ UNCHANGED <<server, pfile, aux, intros, index, memory, ctx>>

\* Any of these steps fails: nothing of it is done, and the rest is undone.
Fail ==
  /\ \E p \in Forward \ {"finish"} : At(p)
  /\ Goto("rollback")
  /\ UNCHANGED <<server, disk, heap, ctx, report>>

\* The server drops the connection and its transaction; the client does not reconnect
\* inside one, so the next query of the rename fails.
Disconnect ==
  /\ alive
  /\ open
  /\ open' = FALSE
  /\ view' = db
  /\ UNCHANGED <<pc, alive, db, disk, heap, ctx, report>>

-----------------------------------------------------------------------------
(* rename_rollback.                                                        *)

Noted(fine) == [ctx EXCEPT !.ok = @ /\ fine]

Rollback ==
  /\ At("rollback") /\ Goto("check_db")
  /\ \E fine \in BOOLEAN :
       /\ ctx' = [Noted(fine \/ ~ctx.started) EXCEPT !.started = FALSE]
       /\ open' = (open /\ ~(fine /\ ctx.started))
  /\ view' = IF open' THEN view ELSE db
  /\ UNCHANGED <<db, disk, heap, report>>

\* Mutant: the rows are not counted again.
RolledBackAnyhow == TRUE

RolledBack == Visible = {}

\* rename_verify_database_rollback, whose queries may fail, too.
CheckDb ==
  /\ At("check_db") /\ Goto("undo_memory")
  /\ \E fine \in BOOLEAN : ctx' = Noted(ctx.attempted => RolledBack /\ fine)
  /\ UNCHANGED <<server, disk, heap, report>>

UndoMemory ==
  /\ At("undo_memory") /\ Goto("undo_index")
  /\ memory' = "old"
  /\ UNCHANGED <<server, disk, caches, ctx, report>>

\* rename_restore_backup, a copy of the snapshot renamed over the index.
UndoIndex ==
  /\ At("undo_index") /\ Goto("undo_intros")
  /\ \E fine \in BOOLEAN :
       /\ index' = IF ctx.written /\ fine THEN "old" ELSE index
       /\ ctx' = Noted(ctx.written => fine)
  /\ UNCHANGED <<server, pfile, aux, intros, snaps, heap, report>>

UndoIntros ==
  /\ At("undo_intros") /\ Goto("undo_pfile")
  /\ \E lost \in SUBSET ctx.changed :
       /\ intros' = [i \in Intros |->
                       IF i \in (ctx.changed \cap snaps) \ lost THEN "old" ELSE intros[i]]
       /\ ctx' = Noted(lost = {})
  /\ UNCHANGED <<server, pfile, aux, index, snaps, heap, report>>

\* The snapshot is restored at the old path ...
UndoPfile ==
  /\ At("undo_pfile")
  /\ \E fine \in BOOLEAN :
       /\ pfile' = IF ctx.pmoved /\ fine THEN [pfile EXCEPT !.old = "old"] ELSE pfile
       /\ ctx' = Noted(ctx.pmoved => fine)
       /\ Goto(IF ctx.pmoved /\ fine THEN "unlink_new" ELSE "undo_aux")
  /\ UNCHANGED <<server, aux, intros, index, snaps, heap, report>>

\* ... before the file at the new path goes.
UnlinkNew ==
  /\ At("unlink_new") /\ Goto("undo_aux")
  /\ \E fine \in BOOLEAN :
       /\ pfile' = IF fine THEN [pfile EXCEPT !.new = "none"] ELSE pfile
       /\ ctx' = Noted(fine)
  /\ UNCHANGED <<server, aux, intros, index, snaps, heap, report>>

UndoAux ==
  /\ At("undo_aux") /\ Goto("check_files")
  /\ \E lost \in SUBSET ctx.moved :
       /\ aux' = [a \in Aux |-> IF a \in ctx.moved \ lost THEN "old" ELSE aux[a]]
       /\ ctx' = Noted(lost = {})
  /\ UNCHANGED <<server, pfile, intros, index, snaps, heap, report>>

\* rename_verify_file_rollback, once there is a snapshot of the player file.
CheckFiles ==
  /\ At("check_files") /\ Goto("discard")
  /\ \E fine \in BOOLEAN : ctx' = Noted("pfile" \in snaps => FilesAre("old") /\ fine)
  /\ UNCHANGED <<server, disk, heap, report>>

MayDiscard == ctx.ok

\* The snapshots are kept unless everything was put back.
Discard ==
  /\ At("discard") /\ Goto("done")
  /\ snaps' \in (IF MayDiscard THEN SUBSET snaps ELSE {snaps})
  /\ report' = IF ctx.ok THEN "undone" ELSE "unproven"
  /\ UNCHANGED <<server, pfile, aux, intros, index, heap, ctx>>

\* There is no code for what a crash leaves.
Crash ==
  /\ alive
  /\ pc # "done"
  /\ alive' = FALSE
  /\ open' = FALSE
  /\ view' = db
  /\ UNCHANGED <<pc, db, disk, heap, ctx, report>>

-----------------------------------------------------------------------------
GoForward ==
  \/ Plan \/ Begin \/ Lock \/ Backup \/ MoveAux \/ MovePfile \/ Update \/ ChangeMemory
  \/ RewritePfile \/ Introduce \/ SaveIndex \/ Verify \/ Commit \/ CommitUnheard \/ FinishRename

GoBack ==
  \/ Rollback \/ CheckDb \/ UndoMemory \/ UndoIndex \/ UndoIntros \/ UndoPfile \/ UnlinkNew
  \/ UndoAux \/ CheckFiles \/ Discard

RenameNext == GoForward \/ Fail \/ GoBack \/ Disconnect \/ Crash

RenameSpec == RenameInit /\ [][RenameNext]_renameVars

-----------------------------------------------------------------------------
(* Properties.                                                             *)

RenameTypeOK ==
  /\ pc \in Forward \cup Undo \cup {"done"} /\ alive \in BOOLEAN
  /\ db \subseteq Tables /\ open \in BOOLEAN /\ view \subseteq Tables
  /\ pfile \in [Names -> Names \cup {"none"}]
  /\ aux \in [Aux -> Names] /\ intros \in [Intros -> Names] /\ index \in Names
  /\ memory \in Names /\ caches \in Names
  /\ snaps \subseteq Snapshots
  /\ ctx \in Ctx
  /\ report \in {"none", "ok", "undone", "unproven"}

EverythingIs(name) ==
  /\ FilesAre(name)
  /\ memory = name
  /\ caches = name
  /\ db = (IF name = "new" THEN Tables ELSE {})

OldIsOnDisk ==
  /\ "old" \in {pfile.old, pfile.new} \/ "pfile" \in snaps
  /\ index = "old" \/ "index" \in snaps
  /\ \A i \in Intros : intros[i] = "old" \/ i \in snaps

\* What the administrator is told is so: the character has the new name everywhere, or
\* the old one everywhere, in memory, on disk and in the database, whatever failed and
\* in whichever order; and whoever is told neither can put the old files back.
ReportIsTrue ==
  /\ RenameTypeOK
  /\ report = "ok" => EverythingIs("new")
  /\ report = "undone" => EverythingIs("old") /\ ~open
  /\ report = "unproven" => OldIsOnDisk

\* Until the database has the new name, the old player file, the old index and the old
\* introductions are on disk, in place or in a snapshot, at every step forward and back,
\* with any failure, and after a crash.
NothingLost == db = {} => OldIsOnDisk

\* The database commits all tables or none, and only when every file has the new name:
\* a crash after it leaves nothing to finish but the snapshots.
CommitIsLast ==
  /\ db \in {{}, Tables}
  /\ db # {} /\ pc \in Forward \cup {"done"} /\ report # "unproven" => FilesAre("new")

\* What the documentation demands: a failed rename leaves the old name everywhere.
FailureLeavesOld == report \in {"undone", "unproven"} => EverythingIs("old")
=============================================================================
