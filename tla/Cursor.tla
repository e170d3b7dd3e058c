------------------------------- MODULE Cursor -------------------------------
(* The database session of a worker: COCIDatabase (DataBase/ocidatabase.cpp) *)
(* and COCICursor (DataBase/ocicursor.cpp), with login and rigister          *)
(* (Server/Yprocess.cpp) and the batches and transactions that the cursor    *)
(* offers.  MySQL is external: one table, autocommit or a transaction per    *)
(* session, a connection that may be lost between any two calls.             *)
(*                                                                           *)
(* Whether a statement is done and whether its answer comes are choices,     *)
(* limited by the connection: an answered statement was done, and a          *)
(* statement that was done without an answer cost the connection.            *)
EXTENDS Integers, Sequences, FiniteSets, SequencesExt

CONSTANTS
    Row,            \* pairs of a name and a password
    Cut,            \* a name that was stored with another length than its own
    Batch,          \* the array of rows that a caller binds for a batch
    MaxWrites       \* bound on the rows in the table

\* A batch is an array of rows: ExecuteBatch steps from one to the next by its elementSize.
ASSUME CursorAssumption == Batch \in Seq(Row) /\ MaxWrites \in Nat

VARIABLES
    db,             \* COCIDatabase: m_IsOpen, and what MySQL keeps of the session
    cur,            \* COCICursor: statement, bound variables and their place, result
    table,          \* the rows that are committed, in order
    pending,        \* the rows of this session's open transaction
    job,            \* what the caller is at
    told,           \* the call that ended in the last step, and its result (history)
    durable         \* the rows that were reported as stored for good (history)

curVars == << db, cur, table, pending, job, told, durable >>

Idle == [at |-> "idle", row |-> CHOOSE r \in Row : TRUE]
Told(call, good, wanted, wrote) ==
    [call |-> call, good |-> good, wanted |-> wanted, wrote |-> wrote]
Nothing == Told("none", TRUE, << >>, << >>)
Seen == table \o pending
Times(row, rows) == Cardinality({k \in DOMAIN rows : rows[k] = row})

COCIDatabase_init == [open |-> FALSE, linked |-> FALSE, autocommit |-> TRUE]
COCICursor_init ==
    [stmt |-> "none", bound |-> FALSE, defined |-> FALSE, moved |-> 0, result |-> << >>]

CurInit ==
    /\ db = COCIDatabase_init /\ cur = COCICursor_init
    /\ table = << >> /\ pending = << >> /\ durable = << >>
    /\ job = Idle /\ told = Nothing

-----------------------------------------------------------------------------

\* A failing Open may leave the connection up.  It cannot be used then, nor made again:
\* mysql_real_connect refuses a handle that is connected.
Open(connected, charset) ==
    /\ job.at = "idle" /\ ~ db.open
    /\ db.linked => ~ connected
    /\ charset => connected
    /\ db' = [db EXCEPT !.linked = @ \/ connected, !.open = charset]
    /\ told' = Told("Open", charset, << >>, << >>)
    /\ UNCHANGED << cur, table, pending, job, durable >>

\* An open database answers that it is open, connected or not.
OpenAgain ==
    /\ job.at = "idle" /\ db.open
    /\ told' = Told("Open", TRUE, << >>, << >>)
    /\ UNCHANGED << db, cur, table, pending, job, durable >>

\* The end of a session and the beginning of another: COCIDatabase_init and
\* COCICursor_init come before the next Open (YS.cpp:381).  MySQL forgets the statement
\* and takes back what was not committed.
Close ==
    /\ db # COCIDatabase_init /\ job.at = "idle"
    /\ db' = COCIDatabase_init
    /\ cur' = COCICursor_init
    /\ pending' = << >>
    /\ told' = Told("Close", TRUE, << >>, << >>)
    /\ UNCHANGED << table, job, durable >>

\* m_IsOpen stays as it is: nobody tells it.
Unlinked == [db EXCEPT !.linked = FALSE, !.autocommit = TRUE]

LoseConnection ==
    /\ db.linked
    /\ db' = Unlinked
    /\ pending' = << >>
    /\ told' = Nothing
    /\ UNCHANGED << cur, table, job, durable >>

\* Another worker's session commits a row.
Elsewhere(row) ==
    /\ Len(Seen) < MaxWrites
    /\ table' = Append(table, row)
    /\ told' = Nothing
    /\ UNCHANGED << db, cur, pending, job, durable >>

-----------------------------------------------------------------------------

\* "set autocommit=0", which is never set back.
BeginTrans(ok) == [db EXCEPT !.autocommit = @ /\ ~ ok]

\* A Prepare that succeeds leaves the variables bound that were; the caller binds its
\* own then.  One that fails forgets all.
FreeDefineAndBindHandles(c) == [c EXCEPT !.bound = FALSE, !.defined = FALSE, !.result = << >>]
Bind(c) == [c EXCEPT !.bound = TRUE, !.moved = 0]
Define(c) == [c EXCEPT !.defined = TRUE]
Prepare(c, stmt, ok) ==
    IF ok THEN [c EXCEPT !.stmt = stmt, !.result = << >>]
    ELSE FreeDefineAndBindHandles([c EXCEPT !.stmt = "none"])

\* What MySQL does with rows: it stores them for good or for the transaction, of which
\* nothing is left when the answer is lost and the connection with it.
Stored(rows, autocommit, answered) ==
    /\ Len(Seen) + Len(rows) <= MaxWrites
    /\ table' = IF autocommit THEN table \o rows ELSE table
    /\ pending' = IF ~ answered THEN << >> ELSE IF autocommit THEN pending ELSE pending \o rows

Taken(rows) == IF rows = << >> THEN << >> ELSE << Head(rows) >>
Done(row, done) == IF done THEN << row >> ELSE << >>
ForGood(rows, autocommit) == IF autocommit THEN durable \o rows ELSE durable

-----------------------------------------------------------------------------

\* login and rigister prepare their statements and return if that fails.
login(row, ok) ==
    /\ job.at = "idle" /\ (ok => db.linked)
    /\ cur' = IF ok THEN Define(Bind(Prepare(cur, "select", ok))) ELSE Prepare(cur, "select", ok)
    /\ job' = IF ok THEN [at |-> "query", row |-> row] ELSE job
    /\ told' = IF ok THEN Nothing ELSE Told("login", FALSE, << row >>, << >>)
    /\ UNCHANGED << db, table, pending, durable >>

rigister(row, ok) ==
    /\ job.at = "idle" /\ (ok => db.linked)
    /\ cur' = IF ok THEN Bind(Prepare(cur, "insert", ok)) ELSE Prepare(cur, "insert", ok)
    /\ job' = IF ok THEN [at |-> "insert", row |-> row] ELSE job
    /\ told' = IF ok THEN Nothing ELSE Told("rigister", FALSE, << row >>, << >>)
    /\ UNCHANGED << db, table, pending, durable >>

\* The answer to mysql_stmt_store_result is not looked at: its rows may be missing.
ExecQuery(ok, stored) ==
    LET rows == [k \in 1..Times(job.row, Seen) |-> job.row] IN
    /\ job.at = "query" /\ (ok => db.linked) /\ (stored => ok)
    /\ cur' = [cur EXCEPT !.result = IF stored THEN rows ELSE << >>]
    /\ job' = IF ok THEN [job EXCEPT !.at = "fetch"] ELSE Idle
    /\ told' = IF ok THEN Nothing ELSE Told("login", FALSE, << job.row >>, << >>)
    /\ UNCHANGED << db, table, pending, durable >>

\* A slip that the code does not make: no row is not told from a row.
FaultNoData ==
    /\ job.at = "fetch"
    /\ cur' = [cur EXCEPT !.result = IF @ = << >> THEN @ ELSE Tail(@)]
    /\ job' = Idle
    /\ told' = Told("login", TRUE, << job.row >>, Taken(cur.result))
    /\ UNCHANGED << db, table, pending, durable >>

\* The first row is taken; MYSQL_NO_DATA and an error are both no login.
Fetch ==
    /\ job.at = "fetch"
    /\ cur' = [cur EXCEPT !.result = IF @ = << >> THEN @ ELSE Tail(@)]
    /\ job' = Idle
    /\ told' = Told("login", cur.result # << >>, << job.row >>, Taken(cur.result))
    /\ UNCHANGED << db, table, pending, durable >>

Execute(done, ok) ==
    /\ job.at = "insert" /\ (done => db.linked) /\ (ok => done)
    /\ Stored(Done(job.row, done), db.autocommit, done => ok)
    /\ db' = IF done /\ ~ ok THEN Unlinked ELSE db
    /\ job' = Idle
    /\ told' = Told("rigister", ok, << job.row >>, Done(job.row, done))
    /\ durable' = IF ok THEN ForGood(<< job.row >>, db.autocommit) ELSE durable
    /\ UNCHANGED cur

-----------------------------------------------------------------------------

\* A transaction: BeginTrans may fail, and is not asked; the statement is executed
\* anyhow, and stored for good then.
ExecWithoutCommit(row, begun, done, ok) ==
    /\ job.at \in {"idle", "trans"} /\ cur.stmt = "insert" /\ cur.bound
    /\ (begun => db.open /\ db.linked) /\ (done => db.linked) /\ (ok => done)
    /\ Stored(Done(row, done), BeginTrans(begun).autocommit, done => ok)
    /\ db' = IF done /\ ~ ok THEN Unlinked ELSE BeginTrans(begun)
    /\ job' = [at |-> "trans", row |-> row]
    /\ told' = Told("ExecWithoutCommit", ok, << row >>, Done(row, done))
    /\ durable' = durable
    /\ UNCHANGED cur

Commit(done, ok) ==
    /\ job.at = "trans" /\ (done => db.open /\ db.linked) /\ (ok => done)
    /\ table' = IF done THEN table \o pending ELSE table
    /\ pending' = IF done THEN << >> ELSE pending
    /\ db' = IF done /\ ~ ok THEN Unlinked ELSE db
    /\ durable' = IF ok THEN durable \o pending ELSE durable
    /\ told' = Told("Commit", ok, pending, IF done THEN pending ELSE << >>)
    /\ job' = Idle
    /\ UNCHANGED cur

Rollback(ok) ==
    /\ job.at = "trans" /\ (ok => db.open /\ db.linked)
    /\ pending' = IF ok THEN << >> ELSE pending
    /\ told' = Told("Rollback", ok, << >>, << >>)
    /\ job' = Idle
    /\ UNCHANGED << db, cur, table, durable >>

\* ExecuteBatch, and the ExecWithoutCommit of several rows, which is the same and
\* begins no transaction: row after row, m of them, up to the first that fails, which may
\* have been done and its answer lost.  The bound pointers move with the rows, and not
\* back.  The length of each text is that of its row's last one (`length' has ended when
\* it is read, and all columns share its place).
Garbled(row) == {row, << Cut, row[2] >>}
BatchRows(n) == SubSeq(Batch, cur.moved + 1, cur.moved + n)

PrepareBatch(ok) ==
    /\ job.at = "idle" /\ (ok => db.linked)
    /\ cur' = IF ok THEN Bind(Prepare(cur, "insert", ok)) ELSE Prepare(cur, "insert", ok)
    /\ told' = Told("Prepare", ok, << >>, << >>)
    /\ UNCHANGED << db, table, pending, job, durable >>

ExecuteBatch(n, m, lost) ==
    LET wanted == BatchRows(n)
        did == IF lost THEN m + 1 ELSE m
    IN
    /\ job.at = "idle" /\ cur.stmt = "insert" /\ cur.bound
    /\ cur.moved + n <= Len(Batch) /\ did <= n /\ (did > 0 => db.linked)
    /\ \E garbled \in SUBSET (1..did) :
          LET Rows(l) == [k \in 1..l |-> IF k \in garbled THEN << Cut, wanted[k][2] >>
                                         ELSE wanted[k]]
          IN /\ Stored(Rows(did), db.autocommit, ~ lost)
             /\ durable' = ForGood(Rows(m), db.autocommit)
             /\ told' = Told("batch", m = n, wanted, Rows(did))
    /\ db' = IF lost THEN Unlinked ELSE db
    /\ cur' = [cur EXCEPT !.moved = @ + (IF m = n THEN n ELSE m + 1) - 1]
    /\ UNCHANGED job

CurNext ==
    \/ \E connected, charset \in BOOLEAN : Open(connected, charset)
    \/ OpenAgain \/ Close \/ LoseConnection \/ Fetch
    \/ \E row \in Row : Elsewhere(row)
    \/ \E row \in Row, ok \in BOOLEAN : login(row, ok) \/ rigister(row, ok)
    \/ \E ok, done \in BOOLEAN : ExecQuery(ok, done) \/ Execute(done, ok) \/ Commit(done, ok)
    \/ \E row \in Row, begun, done, ok \in BOOLEAN : ExecWithoutCommit(row, begun, done, ok)
    \/ \E ok \in BOOLEAN : Rollback(ok) \/ PrepareBatch(ok)
    \/ \E n \in 1..Len(Batch) : \E m \in 0..n, lost \in BOOLEAN : ExecuteBatch(n, m, lost)

CurSpec == CurInit /\ [][CurNext]_curVars

-----------------------------------------------------------------------------

StoredAs(row, wanted) == row = wanted \/ row \in Garbled(wanted)
IsStoredPrefix(wrote, wanted) ==
    /\ Len(wrote) <= Len(wanted)
    /\ \A k \in 1..Len(wrote) : StoredAs(wrote[k], wanted[k])

\* Whatever connections are lost and transactions opened in between: login's user is a
\* row that somebody has stored (Yprocess.cpp:44 relies on Fetch for that), a call that
\* reports success has stored every row it was given, one that reports failure a first
\* part of them, and what was reported as stored for good, by rigister under autocommit,
\* by a commit or by a batch, is in the table, each as often as it was reported
\* (ocicursor.cpp:147, :135, :383).
CallsTellTruth ==
    /\ IsStoredPrefix(told.wrote, told.wanted)
    /\ told.good => Len(told.wrote) = Len(told.wanted)
    /\ \A row \in ToSet(durable) : Times(row, durable) <= Times(row, table)
=============================================================================
