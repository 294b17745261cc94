---------------------------- MODULE StagedApply ----------------------------
(***************************************************************************)
(* The Client and its Sessions (client.rs), the windows that drive them    *)
(* (main.rs, session.rs), the transaction in which an Engine applies the   *)
(* Staged Changes of a Session (apply_staged), and the other programs that *)
(* use the same Database meanwhile.                                        *)
(*                                                                         *)
(* Every call of the Client runs to its end on the one UI thread, so the   *)
(* windows never interleave with each other inside a handler.  Everyone    *)
(* else interleaves between any two statements of a handler: Apply is cut  *)
(* at each statement, at its commit, and at the reload that follows it.    *)
(*                                                                         *)
(* All Sessions are on one Database, which is the case where they can      *)
(* disturb each other.  The grids of a Session are one grid over the whole *)
(* Table.                                                                  *)
(***************************************************************************)
EXTENDS StagedChanges, Sequences, FiniteSets

CONSTANTS
  Projections,   \* column sets the grids show: Col for a Table Tab, any
                 \* subset for a Result Tab
  MaxSessions,   \* bound on Sessions ever opened
  MaxChanges     \* bound on Staged Changes ever staged in one Session

ASSUME BoundsAssumption ==
  /\ MaxSessions \in Nat
  /\ MaxChanges \in Nat
  /\ Projections \subseteq SUBSET Col

SessionId == 1..MaxSessions
Table     == [Key -> Slot]

VARIABLES
  sessions,        \* Client.sessions: ids of the Sessions it holds
  next_id,         \* Client.next_id
  staged,          \* Session.staged, in the order staged
  next_change_id,  \* Session.next_change_id
  alive,           \* the Engine's only connection of the Session still works
  windows,         \* Sessions that have an OS window
  prompt,          \* Sessions whose window shows the close prompt
  grid,            \* rows the grid of the Session shows
  at,              \* where the UI thread is
  who,             \* the Session whose handler it runs
  closing,         \* the handler is the Apply button of the close prompt
  done,            \* Staged Changes the running transaction has executed
  touched,         \* Row Identities it has read or written
  work,            \* its uncommitted rows, for the touched Row Identities
  waiting,         \* its current statement waits for a lock
  db,              \* the committed rows of the Table
  held,            \* Row Identities locked by other programs
  committed,       \* history: <<session, change id>> whose effect is in db
  unseen           \* history: Row Identities the Session wrote itself since
                   \* it last read its grids

clientVars == <<sessions, next_id, staged, next_change_id>>
viewVars   == <<windows, prompt, grid>>
uiVars     == <<at, who, closing>>
txVars     == <<done, touched, work, waiting>>
dbVars     == <<db, held>>
history    == <<committed, unseen>>
vars == <<clientVars, alive, viewVars, uiVars, txVars, dbVars, history>>

Empty  == [k \in Key |-> Absent]
Ids(s) == {staged[s][i].id : i \in DOMAIN staged[s]}

\* Row locks in Postgres and MySQL, one write lock for the file in SQLite.
Locks(K) == IF Engine = "sqlite" /\ K # {} THEN Key ELSE K

\* What a statement of the running transaction sees.
View == [k \in Key |-> IF k \in touched THEN work[k] ELSE db[k]]

\* The handler is over, its transaction committed, rolled back or not begun.
EndTransaction == done' = 0 /\ touched' = {} /\ work' = Empty /\ waiting' = FALSE
Return         == at' = "idle" /\ closing' = FALSE /\ UNCHANGED who
Call(s, to)    == at' = to /\ who' = s

\* The window of s takes an event: no handler runs and no modal covers it.
Free(s) == at = "idle" /\ s \in windows \ prompt

Init ==
  /\ sessions = {} /\ next_id = 1
  /\ staged = [s \in SessionId |-> <<>>]
  /\ next_change_id = [s \in SessionId |-> 1]
  /\ alive = [s \in SessionId |-> FALSE]
  /\ windows = {} /\ prompt = {}
  /\ grid = [s \in SessionId |-> Empty]
  /\ at = "idle" /\ who = 0 /\ closing = FALSE
  /\ done = 0 /\ touched = {} /\ work = Empty /\ waiting = FALSE
  /\ db \in Table /\ held = {}
  /\ committed = {}
  /\ unseen = [s \in SessionId |-> {}]

-----------------------------------------------------------------------------
(* Opening and closing Sessions.                                           *)

\* open_selected: the Client opens the Session first, then the window opens;
\* a window that does not open leaves the Session behind.
OpenSession(opens) ==
  /\ at = "idle"
  /\ next_id \in SessionId
  /\ sessions' = sessions \cup {next_id}
  /\ next_id' = next_id + 1
  /\ alive' = [alive EXCEPT ![next_id] = TRUE]
  /\ windows' = IF opens THEN windows \cup {next_id} ELSE windows
  /\ UNCHANGED <<staged, next_change_id, prompt, grid, uiVars, txVars,
                 dbVars, history>>

\* remove_window, on_release and close_session: the Session is dropped with
\* its Staged Changes and its connection.
DropLeavesPrompt(s) ==            \* fault: the close prompt outlives its window
  /\ sessions' = sessions \ {s}
  /\ staged' = [staged EXCEPT ![s] = <<>>]
  /\ alive' = [alive EXCEPT ![s] = FALSE]
  /\ windows' = windows \ {s}
  /\ grid' = [grid EXCEPT ![s] = Empty]
  /\ unseen' = [unseen EXCEPT ![s] = {}]
  /\ UNCHANGED prompt

Drop(s) ==
  /\ sessions' = sessions \ {s}
  /\ staged' = [staged EXCEPT ![s] = <<>>]
  /\ alive' = [alive EXCEPT ![s] = FALSE]
  /\ windows' = windows \ {s}
  /\ prompt' = prompt \ {s}
  /\ grid' = [grid EXCEPT ![s] = Empty]
  /\ unseen' = [unseen EXCEPT ![s] = {}]

\* on_should_close: without Staged Changes the window closes at once, with
\* them it opens the close prompt.
CloseClean(s) ==
  /\ at = "idle" /\ s \in windows
  /\ staged[s] = <<>>
  /\ Drop(s)
  /\ UNCHANGED <<next_id, next_change_id, uiVars, txVars, dbVars, committed>>

CloseDirty(s) ==
  /\ Free(s)
  /\ staged[s] # <<>>
  /\ prompt' = prompt \cup {s}
  /\ UNCHANGED <<clientVars, alive, windows, grid, uiVars, txVars,
                 dbVars, history>>

PromptDiscard(s) ==
  /\ at = "idle" /\ s \in prompt
  /\ Drop(s)
  /\ UNCHANGED <<next_id, next_change_id, uiVars, txVars, dbVars, committed>>

PromptCancel(s) ==
  /\ at = "idle" /\ s \in prompt
  /\ prompt' = prompt \ {s}
  /\ UNCHANGED <<clientVars, alive, windows, grid, uiVars, txVars,
                 dbVars, history>>

-----------------------------------------------------------------------------
(* Reading and staging.                                                    *)

\* reload and show_page: the grid shows what one statement reads, or nothing if
\* it fails.
LoadGrid(s) ==
  /\ \/ alive[s] /\ grid' = [grid EXCEPT ![s] = db]
     \/ grid' = [grid EXCEPT ![s] = Empty]
  /\ unseen' = [unseen EXCEPT ![s] = IF staged[s] = <<>> THEN {} ELSE @]

Reload(s) ==
  /\ Free(s)
  /\ LoadGrid(s)
  /\ UNCHANGED <<clientVars, alive, windows, prompt, uiVars, txVars, dbVars,
                 committed>>

PushNumbersByLength(s, ch) ==     \* fault: the next id is the size of the bag
  /\ s \in sessions
  /\ next_change_id[s] <= MaxChanges
  /\ staged' = [staged EXCEPT ![s] = Append(@, ch)]
  /\ next_change_id' = [next_change_id EXCEPT ![s] = Len(staged[s]) + 1]
  /\ UNCHANGED <<sessions, next_id, alive, viewVars, uiVars, txVars, dbVars,
                 history>>

\* stage_insert, stage_update and stage_delete push under a fresh id.
Push(s, ch) ==
  /\ s \in sessions
  /\ next_change_id[s] <= MaxChanges
  /\ staged' = [staged EXCEPT ![s] = Append(@, ch)]
  /\ next_change_id' = [next_change_id EXCEPT ![s] = @ + 1]
  /\ UNCHANGED <<sessions, next_id, alive, viewVars, uiVars, txVars, dbVars,
                 history>>

StageInsert(s, k, row) ==
  /\ Free(s)
  /\ Push(s, [op |-> "insert", id |-> next_change_id[s], key |-> k,
              values |-> row])

\* named_row: the columns C of the row the grid shows.
Seen(s, k, C) == [c \in C |-> grid[s][k][c]]

\* commit_cell on a data column.  Enter and Blur of the cell editor reach it,
\* the Blur also when the close prompt takes the focus.  A cell that was read
\* as text and is typed as a number differs from the cell read and stores the
\* same value, so v may be the value seen.  Looking up the Row Identity
\* queries the Database.
StageUpdate(s, k, C, c, v) ==
  /\ at = "idle" /\ s \in windows
  /\ alive[s]
  /\ grid[s][k] # Absent
  /\ c \in C
  /\ Push(s, [op |-> "update", id |-> next_change_id[s], key |-> k,
              seen |-> Seen(s, k, C), to |-> k, set |-> [x \in {c} |-> v]])

\* commit_cell on a column of the Row Identity.
StageRekey(s, k, C, to) ==
  /\ at = "idle" /\ s \in windows
  /\ alive[s]
  /\ grid[s][k] # Absent
  /\ to # k
  /\ Push(s, [op |-> "update", id |-> next_change_id[s], key |-> k,
              seen |-> Seen(s, k, C), to |-> to, set |-> [x \in {} |-> 0]])

StageDelete(s, k, C) ==
  /\ Free(s)
  /\ alive[s]
  /\ grid[s][k] # Absent
  /\ Push(s, [op |-> "delete", id |-> next_change_id[s], key |-> k,
              seen |-> Seen(s, k, C)])

\* unstage_one.  The button holds the id it was drawn with, which may have
\* left the bag since: then nothing is removed.
Without(bag, id) ==
  IF \E i \in DOMAIN bag : bag[i].id = id
    THEN LET i == CHOOSE j \in DOMAIN bag : bag[j].id = id
         IN  SubSeq(bag, 1, i - 1) \o SubSeq(bag, i + 1, Len(bag))
    ELSE bag

Unstage(s, id) ==
  /\ Free(s)
  /\ staged' = [staged EXCEPT ![s] = Without(@, id)]
  /\ UNCHANGED <<sessions, next_id, next_change_id, alive, viewVars, uiVars,
                 txVars, dbVars, history>>

\* discard_all
Discard(s) ==
  /\ Free(s)
  /\ staged' = [staged EXCEPT ![s] = <<>>]
  /\ UNCHANGED <<sessions, next_id, next_change_id, alive, viewVars, uiVars,
                 txVars, dbVars, history>>

-----------------------------------------------------------------------------
(* The two other mutation paths: their own transaction, and only while the *)
(* Session has no Staged Changes.                                          *)

ExecuteMutatingAnyBag(s, k, slot) == \* fault: Staged Changes do not stop SQL
  /\ Free(s)
  /\ alive[s] /\ Locks({k}) \cap held = {}
  /\ db' = [db EXCEPT ![k] = slot]
  /\ Call(s, "reload")
  /\ unseen' = [unseen EXCEPT ![s] = @ \cup {k}]
  /\ UNCHANGED <<clientVars, alive, viewVars, closing, txVars, held, committed>>

\* execute_mutating; the SQL is taken to write one row.  SQL that is refused or
\* fails in the Database is rolled back and changes nothing.
ExecuteMutating(s, k, slot) ==
  /\ Free(s)
  /\ staged[s] = <<>>
  /\ alive[s] /\ Locks({k}) \cap held = {}
  /\ db' = [db EXCEPT ![k] = slot]
  /\ Call(s, "reload")
  /\ unseen' = [unseen EXCEPT ![s] = @ \cup {k}]
  /\ UNCHANGED <<clientVars, alive, viewVars, closing, txVars, held, committed>>

\* run_schema_change; what DDL does to the columns is not represented.
ExecuteSchemaChange(s) ==
  /\ Free(s)
  /\ staged[s] = <<>>
  /\ alive[s] /\ held = {}
  /\ Call(s, "reload")
  /\ UNCHANGED <<clientVars, alive, viewVars, closing, txVars, dbVars, history>>

-----------------------------------------------------------------------------
(* Apply: apply_changes, Client::apply, apply_staged.                      *)

\* The Apply button of the Session, or that of its close prompt.
BeginApply(s) ==
  /\ at = "idle" /\ s \in windows
  /\ closing' = (s \in prompt)
  /\ Call(s, "apply")
  /\ UNCHANGED <<clientVars, alive, viewVars, txVars, dbVars, history>>

Current == staged[who][done + 1]

\* The next statement of apply_change is sent; it waits while another program
\* holds a lock it needs, and the window with it.
Sent ==
  /\ at = "apply" /\ alive[who]
  /\ done < Len(staged[who])
Executing == Sent /\ Locks(Targets(Current)) \cap held = {}

ApplyWait ==
  /\ Sent /\ ~waiting
  /\ Locks(Targets(Current)) \cap held # {}
  /\ waiting' = TRUE
  /\ UNCHANGED <<clientVars, alive, viewVars, uiVars, done, touched, work,
                 dbVars, history>>

\* Postgres and MySQL queue for row locks; SQLite polls until its timeout.
Queued == IF waiting /\ Engine # "sqlite" THEN Targets(Current) ELSE {}

ApplyStatement ==
  /\ Executing
  /\ Succeeds(Current, View)
  /\ done' = done + 1
  /\ touched' = touched \cup Targets(Current)
  /\ work' = [k \in Key |->
                IF k \in touched' THEN ApplyChange(Current, View)[k] ELSE Absent]
  /\ waiting' = FALSE
  /\ UNCHANGED <<clientVars, alive, viewVars, uiVars, dbVars, history>>

FailDropsBag ==                   \* fault: the bag is cleared before the result
  /\ EndTransaction /\ Return
  /\ staged' = [staged EXCEPT ![who] = <<>>]
  /\ UNCHANGED <<sessions, next_id, next_change_id, viewVars>>

\* The transaction is dropped without commit; the Staged Changes stay.
Fail == EndTransaction /\ Return /\ UNCHANGED <<clientVars, viewVars>>

ApplyConflictSkips ==             \* fault: goes on with the next Staged Change
  /\ Executing
  /\ ~AffectsOneRow(Current, View)
  /\ done' = done + 1
  /\ UNCHANGED <<clientVars, alive, viewVars, uiVars, touched, work, waiting,
                 dbVars, history>>

ApplyConflictRetries ==           \* fault: executes the statement again
  Executing /\ ~AffectsOneRow(Current, View) /\ UNCHANGED vars

ApplyConflict ==
  /\ Executing
  /\ ~AffectsOneRow(Current, View)
  /\ Fail
  /\ UNCHANGED <<alive, dbVars, history>>

\* The Database refuses the statement.
ApplyRefused ==
  /\ Executing
  /\ AffectsOneRow(Current, View) /\ ViolatesIdentity(Current, View)
  /\ Fail
  /\ UNCHANGED <<alive, dbVars, history>>

\* Any other failure before the commit takes effect: another constraint, a
\* lock timeout or a deadlock, a refused commit, a lost connection.  The
\* connection is opened once and never again.
ApplyError(lost) ==
  /\ at = "apply"
  /\ lost => Engine # "sqlite"
  /\ alive' = [alive EXCEPT ![who] = @ /\ ~lost]
  /\ Fail
  /\ UNCHANGED <<dbVars, history>>

CommitAnyPrefix ==                \* fault: the loop ends early
  /\ at = "apply" /\ alive[who]
  /\ done <= Len(staged[who])
  /\ db' = View
  /\ committed' = committed \cup ({who} \X Ids(who))
  /\ unseen' = [unseen EXCEPT ![who] = @ \cup touched]
  /\ UNCHANGED held

Commit ==
  /\ at = "apply" /\ alive[who]
  /\ done = Len(staged[who])
  /\ db' = View
  /\ committed' = committed \cup ({who} \X Ids(who))
  /\ unseen' = [unseen EXCEPT ![who] = @ \cup touched]
  /\ UNCHANGED held

ApplyCommitKeepsBag ==            \* fault: the bag is not cleared on success
  /\ Commit
  /\ EndTransaction
  /\ Call(who, "reload")
  /\ UNCHANGED <<clientVars, alive, viewVars, closing>>

ApplyCommit ==
  /\ Commit
  /\ staged' = [staged EXCEPT ![who] = <<>>]
  /\ EndTransaction
  /\ Call(who, "reload")
  /\ UNCHANGED <<sessions, next_id, next_change_id, alive, viewVars, closing>>

ApplyCommitReconnects ==          \* fault: the lost connection is opened again
  Engine # "sqlite" /\ Commit /\ Fail /\ UNCHANGED alive

\* The server commits and the connection is lost before the answer arrives.
ApplyCommitUnknown ==
  /\ Engine # "sqlite"
  /\ Commit
  /\ alive' = [alive EXCEPT ![who] = FALSE]
  /\ Fail

ReturnWithoutReload ==            \* fault: the grids keep what they showed
  /\ at = "reload"
  /\ IF closing
       THEN Drop(who)
       ELSE UNCHANGED <<sessions, staged, alive, windows, prompt, grid, unseen>>
  /\ Return
  /\ UNCHANGED <<next_id, next_change_id, txVars, dbVars, committed>>

\* reload_all_grids, the end of the handlers that wrote; the Apply of a close
\* prompt then removes the window, and what the reload showed with it.
ReloadAfterWrite ==
  /\ at = "reload"
  /\ IF closing
       THEN Drop(who)
       ELSE LoadGrid(who) /\ UNCHANGED <<sessions, staged, alive, windows, prompt>>
  /\ Return
  /\ UNCHANGED <<next_id, next_change_id, txVars, dbVars, committed>>

-----------------------------------------------------------------------------
(* Other programs: each of their transactions locks a row, writes it, and  *)
(* commits or rolls back (writes what was there).                          *)

ExternalLock(k) ==
  /\ Locks({k}) \cap (held \cup Locks(touched) \cup Queued) = {}
  /\ held' = held \cup Locks({k})
  /\ UNCHANGED <<clientVars, alive, viewVars, uiVars, txVars, db, history>>

ExternalCommit(k, slot) ==
  /\ k \in held
  /\ db' = [db EXCEPT ![k] = slot]
  /\ held' = held \ Locks({k})
  /\ UNCHANGED <<clientVars, alive, viewVars, uiVars, txVars, history>>

-----------------------------------------------------------------------------
WindowNext(s) ==
  \/ CloseClean(s) \/ CloseDirty(s) \/ PromptDiscard(s) \/ PromptCancel(s)
  \/ Reload(s)
  \/ \E k \in Key, row \in Row : StageInsert(s, k, row)
  \/ \E k \in Key, C \in Projections, c \in Col, v \in Val :
       StageUpdate(s, k, C, c, v)
  \/ \E k \in Key, C \in Projections, to \in Key : StageRekey(s, k, C, to)
  \/ \E k \in Key, C \in Projections : StageDelete(s, k, C)
  \/ \E id \in 1..MaxChanges : Unstage(s, id)
  \/ Discard(s)
  \/ \E k \in Key, slot \in Slot : ExecuteMutating(s, k, slot)
  \/ ExecuteSchemaChange(s)
  \/ BeginApply(s)

ApplyNext ==
  \/ ApplyWait \/ ApplyStatement \/ ApplyConflict \/ ApplyRefused
  \/ \E lost \in BOOLEAN : ApplyError(lost)
  \/ ApplyCommit \/ ApplyCommitUnknown
  \/ ReloadAfterWrite

ExternalEnd(k) == \E slot \in Slot : ExternalCommit(k, slot)

Next ==
  \/ \E opens \in BOOLEAN : OpenSession(opens)
  \/ \E s \in SessionId : WindowNext(s)
  \/ ApplyNext
  \/ \E k \in Key : ExternalLock(k) \/ ExternalEnd(k)

Spec == Init /\ [][Next]_vars

(***************************************************************************)
(* Fairness.  The UI thread runs its handler, a statement on a connection  *)
(* that is lost or locked out of a SQLite file for too long fails, and     *)
(* other programs end their transactions.  No user action is fair, and no  *)
(* failure that is not forced.                                             *)
(***************************************************************************)
Forced ==
  /\ at = "apply"
  /\ ~alive[who] \/ (waiting /\ Engine = "sqlite")

Progress ==
  \/ ApplyWait \/ ApplyStatement \/ ApplyConflict \/ ApplyRefused
  \/ ApplyCommit
  \/ Forced /\ ApplyError(FALSE)
  \/ ReloadAfterWrite

FairSpec ==
  /\ Spec
  /\ WF_vars(Progress)
  /\ \A k \in Key : WF_vars(ExternalEnd(k))

-----------------------------------------------------------------------------
(* Properties.                                                             *)

\* Every variable has its type; a window and a close prompt belong to a
\* Session the Client holds.
TypeOK ==
  /\ sessions \subseteq SessionId
  /\ next_id \in 1..(MaxSessions + 1)
  /\ staged \in [SessionId -> Seq(StagedChange)]
  /\ next_change_id \in [SessionId -> 1..(MaxChanges + 1)]
  /\ alive \in [SessionId -> BOOLEAN]
  /\ windows \subseteq sessions /\ prompt \subseteq windows
  /\ grid \in [SessionId -> Table]
  /\ at \in {"idle", "apply", "reload"}
  /\ at # "idle" => who \in windows
  /\ closing \in BOOLEAN
  /\ done \in Nat /\ touched \subseteq Key /\ work \in Table
  /\ waiting \in BOOLEAN
  /\ db \in Table /\ held \subseteq Key
  /\ committed \subseteq SessionId \X Nat
  /\ unseen \in [SessionId -> SUBSET Key]

\* The row is there and shows what the grid it was read into shows.
AsRead(slot, seen) == slot # Absent /\ \A c \in DOMAIN seen : slot[c] = seen[c]

\* The change expects the row k of the committed Table to be what `slot' is:
\* the row it was staged from, or no row where it puts one.
Covers(ch, k, slot) ==
  \/ ch.op # "insert" /\ ch.key = k /\ AsRead(slot, ch.seen)
  \/ ch.op = "insert" /\ ch.key = k /\ slot = Absent
  \/ ch.op = "update" /\ ch.to = k /\ slot = Absent

\* While Apply runs, every row its transaction has touched is still, in the
\* committed Table, what one of the executed Staged Changes was staged
\* against: no other program gets between a checked row and the commit.
TouchedAsStaged ==
  at = "apply" =>
    \A k \in touched : \E i \in 1..done : Covers(staged[who][i], k, db[k])

\* Optimistic Apply: the step in which an Apply takes effect changes a row
\* only if a Staged Change of the Session was staged against the very row it
\* replaces.  What another program wrote since the grid was read is never
\* overwritten.
ApplyTakesEffect == at = "apply" /\ at' # "apply"
NoLostUpdate ==
  [][ApplyTakesEffect =>
       \A k \in Key : db'[k] # db[k] =>
         \E i \in DOMAIN staged[who] : Covers(staged[who][i], k, db[k])]_vars

\* Apply changes a cell of a row that stays only where that cell was edited:
\* columns a Result Tab does not show keep what other programs put there.
EditedCellsOnly ==
  [][ApplyTakesEffect =>
       \A k \in Key, c \in Col :
         (db[k] # Absent /\ db'[k] # Absent /\ db'[k][c] # db[k][c]) =>
           \E i \in DOMAIN staged[who] :
             LET ch == staged[who][i]
             IN  \/ ch.op = "insert" /\ ch.key = k
                 \/ ch.op = "update" /\ ch.to = k /\ ch.key # k
                 \/ ch.op = "update" /\ ch.to = k /\ c \in DOMAIN ch.set]_vars

\* A Staged Change that took effect is never in the bag of a Session that can
\* still apply it, also when the answer to the commit was lost.
NothingAppliedTwice ==
  \A s \in SessionId : alive[s] => \A id \in Ids(s) : <<s, id>> \notin committed

\* The ids in a bag grow in the order staged and are below the next id, so a
\* button drawn for a change that left the bag can never name another one.
StagedIdsInOrder ==
  \A s \in SessionId :
    /\ \A i, j \in DOMAIN staged[s] : i < j => staged[s][i].id < staged[s][j].id
    /\ \A id \in Ids(s) : id < next_change_id[s]

\* A Staged Change leaves its bag only because it took effect, was unstaged,
\* or was discarded: not by a failed Apply, a closed window or a reload.
StagedLeavesOnlyBy ==
  [][\A s \in SessionId : \A id \in Ids(s) \ {staged'[s][i].id : i \in DOMAIN staged'[s]} :
       \/ <<s, id>> \in committed'
       \/ Unstage(s, id) \/ Discard(s) \/ PromptDiscard(s)]_vars

\* The three mutation paths do not mix: no Staged Change of a usable Session
\* was staged from a grid older than a write of that same Session, whether
\* by Apply or by SQL, and none waits while the Session runs SQL.
OwnWritesSeen ==
  \A s \in SessionId : alive[s] /\ staged[s] # <<>> => unseen[s] = {}

\* Every handler that writes returns, so the windows take events again.
HandlersReturn == at # "idle" ~> at = "idle"

\* staged.rs:80 reports a Conflict as "a row changed since it was read".
ConflictMeansRowChanged ==
  [][ApplyConflict => ~AsRead(db[Current.key], Current.seen)]_vars

\* ADR 0023: each Session is a native window.
EverySessionHasWindow == sessions = windows
=============================================================================
