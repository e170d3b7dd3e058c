---------------------------- MODULE CursorProofs ----------------------------
(***************************************************************************)
(* Proofs about Cursor: whatever the rows, the batch and the moment at     *)
(* which the connection or an answer is lost, the calls of a worker's      *)
(* database session tell the truth about what is stored.                   *)
(***************************************************************************)
EXTENDS Cursor, SequenceTheorems, FiniteSetTheorems, TLAPS

\* What a row is when it is stored: itself, or with another text's length.
Written == Row \cup {<< Cut, row[2] >> : row \in Row}

Session == [open : BOOLEAN, linked : BOOLEAN, autocommit : BOOLEAN]
Handles == [stmt : {"none", "select", "insert"}, bound : BOOLEAN, defined : BOOLEAN, moved : Nat, result : Seq(Row)]

\* What was reported as stored for good is in the table, as often as it was reported.
DurableIsStored == \A row \in Written : Times(row, durable) <= Times(row, table)

\* The inductive invariant.  A result is asked for and read in two steps, between
\* which the connection may be lost and others may write: what is kept of it are rows
\* of the user that asked.
CurInv ==
    /\ db \in Session
    /\ cur \in Handles
    /\ table \in Seq(Written) /\ pending \in Seq(Written) /\ durable \in Seq(Written)
    /\ job.at \in {"idle", "query", "fetch", "insert", "trans"}
    /\ job.at # "idle" => job.row \in Row
    /\ job.at = "fetch" => \A k \in 1..Len(cur.result) : cur.result[k] = job.row
    /\ DurableIsStored

\* The half of CallsTellTruth that is about the call that just ended.
CallIsTrue ==
    /\ IsStoredPrefix(told.wrote, told.wanted)
    /\ told.good => Len(told.wrote) = Len(told.wanted)

-----------------------------------------------------------------------------
(* How often a row occurs.                                                 *)

\* A sequence has finitely many places that hold a row.
LEMMA TimesType ==
    ASSUME NEW S, NEW s \in Seq(S), NEW row
    PROVE  /\ IsFiniteSet({k \in DOMAIN s : s[k] = row})
           /\ Times(row, s) \in Nat
  <1>1. Len(s) \in Nat /\ DOMAIN s = 1..Len(s)
    OBVIOUS
  <1>2. IsFiniteSet(1..Len(s))
    BY <1>1, FS_Interval
  <1>3. IsFiniteSet({k \in DOMAIN s : s[k] = row})
    BY <1>1, <1>2, FS_Subset
  <1> QED
    BY <1>3, FS_CardinalityType DEF Times

\* The places of a row in two sequences, one behind the other, are those in the first
\* and, moved by its length, those in the second.
LEMMA TimesConcat ==
    ASSUME NEW S, NEW s \in Seq(S), NEW t \in Seq(S), NEW row
    PROVE  Times(row, s \o t) = Times(row, s) + Times(row, t)
  <1> DEFINE A == {k \in DOMAIN s : s[k] = row}
             B == {k \in DOMAIN t : t[k] = row}
             C == {k \in DOMAIN (s \o t) : (s \o t)[k] = row}
             M == {k + Len(s) : k \in B}
  <1>1. /\ Len(s) \in Nat /\ DOMAIN s = 1..Len(s)
        /\ Len(t) \in Nat /\ DOMAIN t = 1..Len(t)
    OBVIOUS
  <1>2. /\ s \o t \in Seq(S) /\ Len(s \o t) = Len(s) + Len(t)
        /\ DOMAIN (s \o t) = 1..Len(s) + Len(t)
        /\ \A k \in 1..Len(s) + Len(t) :
              (s \o t)[k] = IF k <= Len(s) THEN s[k] ELSE t[k - Len(s)]
    OBVIOUS
  <1>3. /\ IsFiniteSet(A) /\ Cardinality(A) \in Nat
        /\ IsFiniteSet(B) /\ Cardinality(B) \in Nat
    BY TimesType, FS_CardinalityType
  <1>4. C = A \cup M
    <2>1. ASSUME NEW k \in C PROVE k \in A \cup M
      <3>1. k \in 1..Len(s) + Len(t) /\ (s \o t)[k] = row
        BY <1>2
      <3>2. CASE k <= Len(s)
        BY <1>1, <1>2, <3>1, <3>2
      <3>3. CASE k > Len(s)
        <4>1. k - Len(s) \in B
          BY <1>1, <1>2, <3>1, <3>3
        <4>2. k = (k - Len(s)) + Len(s)
          BY <1>1, <3>1
        <4> QED
          BY <4>1, <4>2
      <3> QED
        BY <1>1, <3>1, <3>2, <3>3
    <2>2. ASSUME NEW k \in A PROVE k \in C
      BY <1>1, <1>2
    <2>3. ASSUME NEW k \in M PROVE k \in C
      <3>1. PICK j \in B : k = j + Len(s)
        OBVIOUS
      <3>2. j \in 1..Len(t) /\ t[j] = row
        BY <1>1
      <3>3. k \in 1..Len(s) + Len(t) /\ k > Len(s) /\ k - Len(s) = j
        BY <1>1, <3>1, <3>2
      <3>4. (s \o t)[k] = t[j]
        BY <1>1, <1>2, <3>3
      <3> QED
        BY <1>2, <3>2, <3>3, <3>4
    <2> QED
      BY <2>1, <2>2, <2>3
  <1>5. IsFiniteSet(M) /\ Cardinality(M) = Cardinality(B)
    <2> DEFINE f == [k \in B |-> k + Len(s)]
    <2>1. f \in Bijection(B, M)
      BY <1>1 DEF Bijection, Injection, Surjection, IsInjective
    <2>2. ExistsBijection(B, M)
      BY <2>1 DEF ExistsBijection
    <2> HIDE DEF A, B, C, M
    <2> QED
      BY <1>3, <2>2, FS_Bijection
  <1>6. A \cap M = {}
    BY <1>1
  <1> HIDE DEF A, B, C, M
  <1>7. Cardinality(C) = Cardinality(A) + Cardinality(B)
    <2>1. Cardinality(A \cup M) = Cardinality(A) + Cardinality(M) - Cardinality(A \cap M)
      BY <1>3, <1>5, FS_Union
    <2>2. Cardinality(A \cap M) = 0
      BY <1>6, FS_EmptySet
    <2> QED
      BY <1>3, <1>4, <1>5, <2>1, <2>2
  <1> QED
    BY <1>7 DEF Times, A, B, C

\* More of the same rows at the end of both keeps a row's number in the one below that in
\* the other; and so does more in the second alone.
LEMMA TimesGrow ==
    ASSUME NEW S, NEW s \in Seq(S), NEW t \in Seq(S), NEW u \in Seq(S), NEW row,
           Times(row, s) <= Times(row, t)
    PROVE  /\ Times(row, s) <= Times(row, t \o u)
           /\ Times(row, s \o u) <= Times(row, t \o u)
  <1>1. Times(row, s) \in Nat /\ Times(row, t) \in Nat /\ Times(row, u) \in Nat
    BY TimesType
  <1>2. Times(row, t \o u) = Times(row, t) + Times(row, u)
    BY TimesConcat
  <1>3. Times(row, s \o u) = Times(row, s) + Times(row, u)
    BY TimesConcat
  <1> QED
    BY <1>1, <1>2, <1>3

-----------------------------------------------------------------------------
(* The session's handles.                                                  *)

LEMMA FirstHandles == COCIDatabase_init \in Session /\ COCICursor_init \in Handles
  <1>1. << >> \in Seq(Row)
    OBVIOUS
  <1>2. COCIDatabase_init \in Session
    BY DEF COCIDatabase_init, Session
  <1>3. COCICursor_init \in Handles
    BY <1>1 DEF COCICursor_init, Handles
  <1> QED
    BY <1>2, <1>3

LEMMA UnlinkedIsSession ==
    ASSUME CurInv
    PROVE  Unlinked \in Session /\ db.autocommit \in BOOLEAN
  BY DEF CurInv, Unlinked, Session

LEMMA IdleIsIdle == Idle.at = "idle"
  BY DEF Idle

-----------------------------------------------------------------------------
(* The first state, and the steps that only the table or the session take. *)

LEMMA InitCurInv == CurInit => CurInv
  <1> SUFFICES ASSUME CurInit PROVE CurInv
    OBVIOUS
  <1>1. << >> \in Seq(Written) /\ << >> \in Seq(Row)
    OBVIOUS
  <1>2. DurableIsStored
    <2>1. ASSUME NEW row \in Written PROVE Times(row, << >>) \in Nat
      BY TimesType, <1>1
    <2> QED
      BY <2>1 DEF DurableIsStored, CurInit
  <1> QED
    BY <1>1, <1>2, FirstHandles, IdleIsIdle DEF CurInit, CurInv

\* More than what is reported may be stored.
LEMMA TimesLonger ==
    ASSUME NEW S, NEW s \in Seq(S), NEW t \in Seq(S), NEW u \in Seq(S), NEW v \in Seq(S),
           NEW row, Times(row, s) <= Times(row, t)
    PROVE  Times(row, s \o u) <= Times(row, t \o (u \o v))
  <1>1. u \o v \in Seq(S)
    OBVIOUS
  <1>2. /\ Times(row, s) \in Nat /\ Times(row, t) \in Nat
        /\ Times(row, u) \in Nat /\ Times(row, v) \in Nat
    BY TimesType
  <1>3. Times(row, s \o u) = Times(row, s) + Times(row, u)
    BY TimesConcat
  <1>4. Times(row, t \o (u \o v)) = Times(row, t) + Times(row, u \o v)
    BY <1>1, TimesConcat
  <1>5. Times(row, u \o v) = Times(row, u) + Times(row, v)
    BY TimesConcat
  <1> QED
    BY <1>2, <1>3, <1>4, <1>5

\* The storage: rows are added to the table, and those rows are reported or not; or
\* nothing is added, and nothing is reported; or the last of them, v, are not reported.
LEMMA StorageKept ==
    ASSUME CurInv, NEW u \in Seq(Written), NEW v \in Seq(Written),
           \/ table' = table /\ durable' = durable
           \/ table' = table \o u /\ durable' = durable
           \/ table' = table \o u /\ durable' = durable \o u
           \/ table' = table \o (u \o v) /\ durable' = durable \o u
    PROVE  table' \in Seq(Written) /\ durable' \in Seq(Written) /\ DurableIsStored'
  <1>1. table \in Seq(Written) /\ durable \in Seq(Written)
    BY DEF CurInv
  <1>2. /\ table \o u \in Seq(Written) /\ durable \o u \in Seq(Written)
        /\ u \o v \in Seq(Written)
    BY <1>1
  <1>2a. table \o (u \o v) \in Seq(Written)
    BY <1>1, <1>2
  <1>3. ASSUME NEW row \in Written
        PROVE  /\ Times(row, durable) <= Times(row, table)
               /\ Times(row, durable) <= Times(row, table \o u)
               /\ Times(row, durable \o u) <= Times(row, table \o u)
               /\ Times(row, durable \o u) <= Times(row, table \o (u \o v))
    <2>1. Times(row, durable) <= Times(row, table)
      BY DEF CurInv, DurableIsStored
    <2>2. /\ Times(row, durable) <= Times(row, table \o u)
          /\ Times(row, durable \o u) <= Times(row, table \o u)
      BY <1>1, <2>1, TimesGrow
    <2>3. Times(row, durable \o u) <= Times(row, table \o (u \o v))
      BY <1>1, <2>1, TimesLonger
    <2> QED
      BY <2>1, <2>2, <2>3
  <1>4. CASE table' = table /\ durable' = durable
    BY <1>1, <1>3, <1>4 DEF DurableIsStored
  <1>5. CASE table' = table \o u /\ durable' = durable
    BY <1>1, <1>2, <1>3, <1>5 DEF DurableIsStored
  <1>6. CASE table' = table \o u /\ durable' = durable \o u
    BY <1>2, <1>3, <1>6 DEF DurableIsStored
  <1>7. CASE table' = table \o (u \o v) /\ durable' = durable \o u
    BY <1>2, <1>2a, <1>3, <1>7 DEF DurableIsStored
  <1> QED
    BY <1>4, <1>5, <1>6, <1>7

\* What MySQL does with rows of a statement, reported or not.
LEMMA StoredKept ==
    ASSUME CurInv, NEW rows \in Seq(Written), NEW autocommit \in BOOLEAN,
           NEW answered \in BOOLEAN, Stored(rows, autocommit, answered),
           NEW u \in Seq(Written), NEW v \in Seq(Written),
           \/ durable' = durable \/ durable' = ForGood(rows, autocommit)
           \/ rows = u \o v /\ durable' = ForGood(u, autocommit)
    PROVE  /\ table' \in Seq(Written) /\ durable' \in Seq(Written) /\ DurableIsStored'
           /\ pending' \in Seq(Written)
  <1>1. pending' \in Seq(Written)
    <2>1. pending \in Seq(Written) /\ pending \o rows \in Seq(Written) /\ << >> \in Seq(Written)
      BY DEF CurInv
    <2> QED
      BY <2>1 DEF Stored
  <1>2. \/ table' = table /\ durable' = durable
        \/ table' = table \o rows /\ durable' = durable
        \/ table' = table \o rows /\ durable' = durable \o rows
        \/ table' = table \o (u \o v) /\ durable' = durable \o u
    BY DEF Stored, ForGood
  <1>3. table' \in Seq(Written) /\ durable' \in Seq(Written) /\ DurableIsStored'
    <2>1. CASE table' = table \o (u \o v) /\ durable' = durable \o u
      BY <2>1, StorageKept
    <2>2. CASE ~(table' = table \o (u \o v) /\ durable' = durable \o u)
      BY <1>2, <2>2, StorageKept
    <2> QED
      BY <2>1, <2>2
  <1> QED
    BY <1>1, <1>3

\* A row is one of those that may be written.
LEMMA RowsAreWritten ==
    /\ Row \subseteq Written
    /\ \A row \in Row : << row >> \in Seq(Written)
    /\ << >> \in Seq(Written)
    /\ \A row \in Row, done \in BOOLEAN : Done(row, done) \in Seq(Written)
  <1>1. Row \subseteq Written
    BY DEF Written
  <1>2. << >> \in Seq(Written)
    OBVIOUS
  <1>3. ASSUME NEW row \in Row PROVE << row >> \in Seq(Written)
    BY <1>1
  <1> QED
    BY <1>1, <1>2, <1>3 DEF Done

\* A statement of one row stores that row or nothing, and it stores it when it says so.
LEMMA OneRowIsTrue ==
    ASSUME NEW row, NEW done \in BOOLEAN, NEW ok \in BOOLEAN, ok => done, NEW call,
           told' = Told(call, ok, << row >>, Done(row, done))
    PROVE  CallIsTrue'
  <1>1. CASE done
    BY <1>1 DEF CallIsTrue, Told, Done, IsStoredPrefix, StoredAs
  <1>2. CASE ~ done
    BY <1>2 DEF CallIsTrue, Told, Done, IsStoredPrefix, StoredAs
  <1> QED
    BY <1>1, <1>2

\* A call that neither takes a row nor stores one.
LEMMA NoRowIsTrue ==
    ASSUME NEW call, NEW good, told' = Told(call, good, << >>, << >>)
    PROVE  CallIsTrue'
  BY DEF CallIsTrue, Told, IsStoredPrefix

\* The session's handles, which no call leaves without their types.
LEMMA HandlesKept ==
    ASSUME NEW c \in Handles,
           NEW stmt \in {"none", "select", "insert"}, NEW ok \in BOOLEAN
    PROVE  /\ Prepare(c, stmt, ok) \in Handles
           /\ Bind(Prepare(c, stmt, ok)) \in Handles
           /\ Define(Bind(Prepare(c, stmt, ok))) \in Handles
  <1>1. << >> \in Seq(Row)
    OBVIOUS
  <1>2. Prepare(c, stmt, ok) \in Handles
    BY <1>1 DEF Handles, Prepare, FreeDefineAndBindHandles
  <1>3. \A d \in Handles : Bind(d) \in Handles /\ Define(d) \in Handles
    BY DEF Handles, Bind, Define
  <1> QED
    BY <1>2, <1>3

-----------------------------------------------------------------------------
(* One step for each call.                                                 *)

\* The calls that change neither the rows in the table nor what was reported.
LEMMA StorageAlone ==
    ASSUME CurInv, table' = table, durable' = durable
    PROVE  table' \in Seq(Written) /\ durable' \in Seq(Written) /\ DurableIsStored'
  BY DEF CurInv, DurableIsStored

LEMMA OpenStep ==
    ASSUME CurInv, NEW connected \in BOOLEAN, NEW charset \in BOOLEAN,
           Open(connected, charset) \/ OpenAgain
    PROVE  CurInv' /\ CallIsTrue'
  <1>1. CallIsTrue'
    BY NoRowIsTrue DEF Open, OpenAgain
  <1>2. table' = table /\ durable' = durable
    BY DEF Open, OpenAgain
  <1>3. table' \in Seq(Written) /\ durable' \in Seq(Written) /\ DurableIsStored'
    BY <1>2, StorageAlone
  <1> QED
    BY <1>1, <1>3 DEF CurInv, Open, OpenAgain, Session

LEMMA CloseStep ==
    ASSUME CurInv, Close \/ LoseConnection
    PROVE  CurInv' /\ CallIsTrue'
  <1>1. CallIsTrue'
    BY NoRowIsTrue DEF Close, LoseConnection, Nothing
  <1>2. table' = table /\ durable' = durable
    BY DEF Close, LoseConnection
  <1>3. table' \in Seq(Written) /\ durable' \in Seq(Written) /\ DurableIsStored'
    BY <1>2, StorageAlone
  <1>4. /\ pending' = << >> /\ job' = job
        /\ db' = COCIDatabase_init \/ db' = Unlinked
        /\ cur' = cur \/ (cur' = COCICursor_init /\ job.at = "idle")
    BY DEF Close, LoseConnection
  <1>5. COCIDatabase_init \in Session /\ COCICursor_init \in Handles /\ Unlinked \in Session
    BY FirstHandles, UnlinkedIsSession
  <1> QED
    BY <1>1, <1>3, <1>4, <1>5 DEF CurInv

LEMMA ElsewhereStep ==
    ASSUME CurInv, NEW row \in Row, Elsewhere(row)
    PROVE  CurInv' /\ CallIsTrue'
  <1>1. CallIsTrue'
    BY NoRowIsTrue DEF Elsewhere, Nothing
  <1>2. << row >> \in Seq(Written) /\ table \in Seq(Written)
    BY RowsAreWritten DEF CurInv
  <1>3. table' = table \o << row >> /\ durable' = durable
    BY <1>2 DEF Elsewhere
  <1>4. table' \in Seq(Written) /\ durable' \in Seq(Written) /\ DurableIsStored'
    BY <1>2, <1>3, StorageKept
  <1> QED
    BY <1>1, <1>4 DEF CurInv, Elsewhere

\* A call that reports a failure and has stored nothing.
LEMMA FailureIsTrue ==
    ASSUME NEW call, NEW row, told' = Told(call, FALSE, << row >>, << >>)
    PROVE  CallIsTrue'
  BY DEF CallIsTrue, Told, IsStoredPrefix

LEMMA PreparingStep ==
    ASSUME CurInv, NEW row, NEW ok \in BOOLEAN,
           (row \in Row /\ (login(row, ok) \/ rigister(row, ok))) \/ PrepareBatch(ok)
    PROVE  CurInv' /\ CallIsTrue'
  <1>1. CallIsTrue'
    BY NoRowIsTrue, FailureIsTrue DEF login, rigister, PrepareBatch, Nothing
  <1>2. table' = table /\ durable' = durable /\ pending' = pending /\ db' = db
    BY DEF login, rigister, PrepareBatch
  <1>3. table' \in Seq(Written) /\ durable' \in Seq(Written) /\ DurableIsStored'
    BY <1>2, StorageAlone
  <1>4. cur' \in Handles
    <2>1. \A stmt \in {"none", "select", "insert"} :
             /\ Prepare(cur, stmt, ok) \in Handles
             /\ Bind(Prepare(cur, stmt, ok)) \in Handles
             /\ Define(Bind(Prepare(cur, stmt, ok))) \in Handles
      BY HandlesKept DEF CurInv
    <2> QED
      BY <2>1 DEF login, rigister, PrepareBatch
  <1>5. /\ job.at = "idle"
        /\ \/ job' = job
           \/ row \in Row /\ (\/ job' = [at |-> "query", row |-> row]
                               \/ job' = [at |-> "insert", row |-> row])
    BY DEF login, rigister, PrepareBatch
  <1> QED
    <2>1. /\ job'.at \in {"idle", "query", "insert"}
          /\ job'.at # "idle" => job'.row \in Row
      BY <1>5
    <2> QED
      BY <1>1, <1>2, <1>3, <1>4, <2>1 DEF CurInv

\* The result of a query has as many rows as there are, each of them the one asked for.
LEMMA ExecQueryStep ==
    ASSUME CurInv, NEW ok \in BOOLEAN, NEW stored \in BOOLEAN, ExecQuery(ok, stored)
    PROVE  CurInv' /\ CallIsTrue'
  <1>1. CallIsTrue'
    BY NoRowIsTrue, FailureIsTrue DEF ExecQuery, Nothing
  <1>2. table' = table /\ durable' = durable /\ pending' = pending /\ db' = db
    BY DEF ExecQuery
  <1>3. table' \in Seq(Written) /\ durable' \in Seq(Written) /\ DurableIsStored'
    BY <1>2, StorageAlone
  <1> DEFINE rows == [k \in 1..Times(job.row, Seen) |-> job.row]
  <1>4. job.row \in Row
    BY DEF ExecQuery, CurInv
  <1>5. /\ rows \in Seq(Row) /\ << >> \in Seq(Row)
        /\ \A k \in 1..Len(rows) : rows[k] = job.row
    <2>1. Seen \in Seq(Written)
      BY DEF CurInv, Seen
    <2>2. Times(job.row, Seen) \in Nat
      BY <2>1, TimesType
    <2> QED
      BY <1>4, <2>2
  <1>6. /\ cur' = [cur EXCEPT !.result = IF stored THEN rows ELSE << >>]
        /\ \/ job' = [job EXCEPT !.at = "fetch"]
           \/ job' = Idle
        /\ job.at = "query"
    BY DEF ExecQuery
  <1> HIDE DEF rows
  <1>7. cur'.result \in {rows, << >>}
    BY <1>6 DEF CurInv, Handles
  <1>8. cur' \in Handles
    BY <1>5, <1>6 DEF CurInv, Handles
  <1>9. \A k \in 1..Len(cur'.result) : cur'.result[k] = job.row
    BY <1>5, <1>7
  <1>10. job'.at \in {"fetch", "idle"} /\ (job'.at = "fetch" => job'.row = job.row)
    <2>1. CASE job' = Idle
      BY <2>1 DEF Idle
    <2>2. CASE job' = [job EXCEPT !.at = "fetch"] /\ job' # Idle
      <3>1. ok /\ job' = [job EXCEPT !.at = "fetch"]
        BY <2>2 DEF ExecQuery
      <3> QED
        BY <3>1
    <2> QED
      BY <1>6, <2>1, <2>2
  <1> QED
    BY <1>1, <1>2, <1>3, <1>4, <1>8, <1>9, <1>10 DEF CurInv

\* Its first row is the user's, or there is none.
LEMMA FetchStep ==
    ASSUME CurInv, Fetch
    PROVE  CurInv' /\ CallIsTrue'
  <1>1. /\ job.at = "fetch" /\ job' = Idle /\ job.row \in Row
        /\ cur.result \in Seq(Row)
        /\ \A k \in 1..Len(cur.result) : cur.result[k] = job.row
    BY DEF Fetch, CurInv, Handles
  <1>2. CallIsTrue'
    <2>1. told' = Told("login", cur.result # << >>, << job.row >>, Taken(cur.result))
      BY DEF Fetch
    <2>2. CASE cur.result = << >>
      BY <2>1, <2>2, FailureIsTrue DEF Taken
    <2>3. CASE cur.result # << >>
      <3>1. Head(cur.result) = job.row
        BY <1>1, <2>3
      <3>2. told' = Told("login", TRUE, << job.row >>, << job.row >>)
        BY <2>1, <2>3, <3>1 DEF Taken
      <3> QED
        BY <3>2 DEF CallIsTrue, Told, IsStoredPrefix, StoredAs
    <2> QED
      BY <2>2, <2>3
  <1>3. table' = table /\ durable' = durable /\ pending' = pending /\ db' = db
    BY DEF Fetch
  <1>4. table' \in Seq(Written) /\ durable' \in Seq(Written) /\ DurableIsStored'
    BY <1>3, StorageAlone
  <1>5. cur' \in Handles
    <2>1. cur.result # << >> => Tail(cur.result) \in Seq(Row)
      BY <1>1
    <2> QED
      BY <1>1, <2>1 DEF Fetch, CurInv, Handles
  <1>6. job'.at = "idle"
    BY <1>1 DEF Idle
  <1> QED
    BY <1>2, <1>3, <1>4, <1>5, <1>6 DEF CurInv

LEMMA ExecuteStep ==
    ASSUME CurInv, NEW done \in BOOLEAN, NEW ok \in BOOLEAN, Execute(done, ok)
    PROVE  CurInv' /\ CallIsTrue'
  <1>1. CallIsTrue'
    BY OneRowIsTrue DEF Execute
  <1>2. /\ job.row \in Row /\ db.autocommit \in BOOLEAN
        /\ Done(job.row, done) \in Seq(Written)
    BY RowsAreWritten, UnlinkedIsSession DEF Execute, CurInv
  <1>3. durable' = durable \/ durable' = ForGood(Done(job.row, done), db.autocommit)
    BY DEF Execute, Done
  <1>4. Stored(Done(job.row, done), db.autocommit, done => ok)
    BY DEF Execute
  <1>5. /\ table' \in Seq(Written) /\ durable' \in Seq(Written) /\ DurableIsStored'
        /\ pending' \in Seq(Written)
    BY <1>2, <1>3, <1>4, StoredKept
  <1>6. job' = Idle /\ cur' = cur /\ (db' = db \/ db' = Unlinked)
    BY DEF Execute
  <1> QED
    BY <1>1, <1>5, <1>6, IdleIsIdle, UnlinkedIsSession DEF CurInv

LEMMA ExecWithoutCommitStep ==
    ASSUME CurInv, NEW row \in Row, NEW begun \in BOOLEAN, NEW done \in BOOLEAN,
           NEW ok \in BOOLEAN, ExecWithoutCommit(row, begun, done, ok)
    PROVE  CurInv' /\ CallIsTrue'
  <1>1. CallIsTrue'
    BY OneRowIsTrue DEF ExecWithoutCommit
  <1>2. BeginTrans(begun) \in Session
    BY DEF BeginTrans, CurInv, Session
  <1>3. Done(row, done) \in Seq(Written) /\ BeginTrans(begun).autocommit \in BOOLEAN
    BY <1>2, RowsAreWritten DEF Session
  <1>4. Stored(Done(row, done), BeginTrans(begun).autocommit, done => ok) /\ durable' = durable
    BY DEF ExecWithoutCommit
  <1>5. /\ table' \in Seq(Written) /\ durable' \in Seq(Written) /\ DurableIsStored'
        /\ pending' \in Seq(Written)
    BY <1>3, <1>4, StoredKept
  <1>6. /\ job' = [at |-> "trans", row |-> row] /\ cur' = cur
        /\ db' = Unlinked \/ db' = BeginTrans(begun)
    BY DEF ExecWithoutCommit
  <1> QED
    BY <1>1, <1>2, <1>5, <1>6, UnlinkedIsSession DEF CurInv

\* A commit that was done moves what is pending into the table, answered or not.
LEMMA CommitStep ==
    ASSUME CurInv, NEW done \in BOOLEAN, NEW ok \in BOOLEAN, Commit(done, ok)
    PROVE  CurInv' /\ CallIsTrue'
  <1>1. pending \in Seq(Written) /\ << >> \in Seq(Written)
    BY DEF CurInv
  <1>2. CallIsTrue'
    <2>1. told' = Told("Commit", ok, pending, IF done THEN pending ELSE << >>) /\ (ok => done)
      BY DEF Commit
    <2> QED
      BY <1>1, <2>1 DEF CallIsTrue, Told, IsStoredPrefix, StoredAs
  <1>3. \/ table' = table /\ durable' = durable
        \/ table' = table \o pending /\ durable' = durable
        \/ table' = table \o pending /\ durable' = durable \o pending
    BY DEF Commit
  <1>4. table' \in Seq(Written) /\ durable' \in Seq(Written) /\ DurableIsStored'
    BY <1>1, <1>3, StorageKept
  <1>5. /\ job' = Idle /\ cur' = cur /\ (db' = db \/ db' = Unlinked)
        /\ pending' \in Seq(Written)
    BY <1>1 DEF Commit
  <1> QED
    BY <1>2, <1>4, <1>5, IdleIsIdle, UnlinkedIsSession DEF CurInv

LEMMA RollbackStep ==
    ASSUME CurInv, NEW ok \in BOOLEAN, Rollback(ok)
    PROVE  CurInv' /\ CallIsTrue'
  <1>1. CallIsTrue'
    BY NoRowIsTrue DEF Rollback
  <1>2. /\ job' = Idle /\ cur' = cur /\ db' = db /\ pending' \in {pending, << >>}
        /\ table' = table /\ durable' = durable
    BY DEF Rollback
  <1>3. table' \in Seq(Written) /\ durable' \in Seq(Written) /\ DurableIsStored'
    BY <1>2, StorageAlone
  <1> QED
    <2>1. pending' \in Seq(Written)
      BY <1>2, RowsAreWritten DEF CurInv
    <2>2. job'.at = "idle"
      BY <1>2, IdleIsIdle
    <2> QED
      BY <1>1, <1>2, <1>3, <2>1, <2>2 DEF CurInv

\* A sequence that is longer by one.
LEMMA OneMore ==
    ASSUME NEW S, NEW s \in Seq(S), NEW t \in Seq(S), Len(t) = Len(s) + 1,
           \A k \in 1..Len(s) : s[k] = t[k]
    PROVE  t = s \o << t[Len(t)] >>
  <1> DEFINE x == t[Len(t)]
             u == s \o << x >>
  <1>1. Len(s) \in Nat /\ Len(t) \in 1..Len(t) /\ x \in S
    OBVIOUS
  <1> HIDE DEF x
  <1>2. /\ u \in Seq(S) /\ Len(u) = Len(s) + 1 /\ u[Len(s) + 1] = x
        /\ \A k \in 1..Len(s) : u[k] = s[k]
    BY <1>1
  <1> HIDE DEF u
  <1>3. \A k \in 1..Len(t) : u[k] = t[k]
    BY <1>1, <1>2 DEF x
  <1>4. u = t
    BY <1>2, <1>3
  <1> QED
    BY <1>4 DEF u, x

\* The rows of a batch that are stored are its first, each with a length that may be
\* another's, and the last of them may not be reported; the pointers stay inside the array.
LEMMA ExecuteBatchStep ==
    ASSUME CurInv, NEW n \in 1..Len(Batch), NEW m \in 0..n, NEW lost \in BOOLEAN,
           ExecuteBatch(n, m, lost)
    PROVE  CurInv' /\ CallIsTrue'
  <1> DEFINE wanted == BatchRows(n)
             did == IF lost THEN m + 1 ELSE m
             Rows(garbled, l) == [k \in 1..l |-> IF k \in garbled THEN << Cut, wanted[k][2] >>
                                                 ELSE wanted[k]]
  <1>1. Batch \in Seq(Row) /\ Len(Batch) \in Nat /\ n \in Nat /\ m \in Nat /\ m <= n
    BY CursorAssumption
  <1>2. /\ cur.moved \in Nat /\ cur.moved + n <= Len(Batch) /\ db.autocommit \in BOOLEAN
        /\ did \in Nat /\ did <= n /\ did = m + (IF lost THEN 1 ELSE 0) /\ (m = n => ~ lost)
    <2>1. cur.moved \in Nat /\ db.autocommit \in BOOLEAN
      BY UnlinkedIsSession DEF CurInv, Handles
    <2>2. cur.moved + n <= Len(Batch) /\ did <= n
      BY DEF ExecuteBatch
    <2> QED
      BY <1>1, <2>1, <2>2
  <1>3. wanted \in Seq(Row) /\ Len(wanted) = n /\ \A k \in 1..n : wanted[k] \in Row
    <2>1. \A k \in cur.moved + 1..cur.moved + n : Batch[k] \in Row
      BY <1>1, <1>2
    <2>2. cur.moved + 1 \in Int /\ cur.moved + n \in Int
      BY <1>1, <1>2
    <2>3. /\ wanted \in Seq(Row)
          /\ Len(wanted) = IF cur.moved + 1 <= cur.moved + n
                           THEN (cur.moved + n) - (cur.moved + 1) + 1 ELSE 0
      BY <2>1, <2>2, SubSeqProperties DEF BatchRows
    <2>4. Len(wanted) = n
      BY <1>1, <1>2, <2>3
    <2> QED
      BY <2>3, <2>4
  <1>4. PICK garbled \in SUBSET (1..did) :
             /\ Stored(Rows(garbled, did), db.autocommit, ~ lost)
             /\ durable' = ForGood(Rows(garbled, m), db.autocommit)
             /\ told' = Told("batch", m = n, wanted, Rows(garbled, did))
    BY DEF ExecuteBatch, wanted
  <1>5. /\ cur' = [cur EXCEPT !.moved = @ + (IF m = n THEN n ELSE m + 1) - 1]
        /\ job' = job /\ job.at = "idle" /\ db' \in {db, Unlinked}
    BY DEF ExecuteBatch
  <1> HIDE DEF wanted, did
  <1>6. ASSUME NEW l \in 0..did
        PROVE  /\ Rows(garbled, l) \in Seq(Written) /\ Len(Rows(garbled, l)) = l
               /\ \A k \in 1..l : StoredAs(Rows(garbled, l)[k], wanted[k])
    <2>1. \A k \in 1..l : wanted[k] \in Row
      BY <1>1, <1>2, <1>3
    <2>2. \A k \in 1..l : Rows(garbled, l)[k] \in Written
      BY <2>1 DEF Written
    <2>3. Rows(garbled, l) \in Seq(Written) /\ Len(Rows(garbled, l)) = l
      BY <1>1, <1>2, <2>2
    <2>4. \A k \in 1..l : StoredAs(Rows(garbled, l)[k], wanted[k])
      BY DEF StoredAs, Garbled
    <2> QED
      BY <2>3, <2>4
  <1>7. m \in 0..did /\ did \in 0..did
    BY <1>1, <1>2
  <1> DEFINE all == Rows(garbled, did)
             some == Rows(garbled, m)
             rest == IF lost THEN << all[did] >> ELSE << >>
  <1>8. all \in Seq(Written) /\ some \in Seq(Written) /\ Len(all) = did /\ Len(some) = m
    BY <1>6, <1>7
  <1>9. \A k \in 1..m : some[k] = all[k]
    BY <1>1, <1>2
  <1> HIDE DEF all, some
  <1>10. rest \in Seq(Written) /\ all = some \o rest
    <2>1. CASE lost
      <3>1. did = m + 1 /\ all[did] \in Written
        BY <1>1, <1>2, <1>8, <2>1
      <3>2. rest = << all[did] >>
        BY <2>1
      <3>3. rest \in Seq(Written)
        BY <3>1, <3>2
      <3>4. all = some \o << all[Len(all)] >>
        BY <1>1, <1>8, <1>9, <3>1, OneMore
      <3> QED
        BY <1>8, <3>2, <3>3, <3>4
    <2>2. CASE ~ lost
      <3>1. did = m /\ rest = << >>
        BY <1>1, <1>2, <2>2
      <3> QED
        BY <1>8, <1>9, <3>1
    <2> QED
      BY <2>1, <2>2
  <1>11. CallIsTrue'
    <2>1. told' = Told("batch", m = n, wanted, all)
      BY <1>4 DEF all
    <2>2. \A k \in 1..did : StoredAs(all[k], wanted[k])
      BY <1>6, <1>7 DEF all
    <2>3. m = n => did = n
      BY <1>1, <1>2
    <2> QED
      BY <1>1, <1>2, <1>3, <1>8, <2>1, <2>2, <2>3 DEF CallIsTrue, Told, IsStoredPrefix
  <1>12. /\ table' \in Seq(Written) /\ durable' \in Seq(Written) /\ DurableIsStored'
         /\ pending' \in Seq(Written)
    <2>1. Stored(all, db.autocommit, ~ lost) /\ durable' = ForGood(some, db.autocommit)
      BY <1>4 DEF all, some
    <2>2. (~ lost) \in BOOLEAN
      OBVIOUS
    <2> HIDE DEF rest
    <2> QED
      BY <1>2, <1>8, <1>10, <2>1, <2>2, StoredKept
  <1>13. cur' \in Handles
    <2>1. cur.moved + (IF m = n THEN n ELSE m + 1) - 1 \in Nat
      BY <1>1, <1>2
    <2> QED
      BY <1>5, <2>1 DEF CurInv, Handles
  <1>14. db' \in Session /\ job' = job /\ job.at = "idle"
    BY <1>5, UnlinkedIsSession DEF CurInv
  <1> QED
    BY <1>11, <1>12, <1>13, <1>14 DEF CurInv

-----------------------------------------------------------------------------
(* The theorems.                                                           *)

LEMMA CallStep ==
    ASSUME CurInv, CurNext
    PROVE  CurInv' /\ CallIsTrue'
  <1>1. CASE \E connected, charset \in BOOLEAN : Open(connected, charset) \/ OpenAgain
    BY <1>1, OpenStep
  <1>2. CASE Close \/ LoseConnection
    BY <1>2, CloseStep
  <1>3. CASE Fetch
    BY <1>3, FetchStep
  <1>4. CASE \E row \in Row : Elsewhere(row)
    BY <1>4, ElsewhereStep
  <1>5. CASE \E row \in Row, ok \in BOOLEAN : login(row, ok) \/ rigister(row, ok)
    BY <1>5, PreparingStep
  <1>6. CASE \E ok, done \in BOOLEAN : ExecQuery(ok, done)
    BY <1>6, ExecQueryStep
  <1>7. CASE \E ok, done \in BOOLEAN : Execute(done, ok)
    BY <1>7, ExecuteStep
  <1>8. CASE \E ok, done \in BOOLEAN : Commit(done, ok)
    BY <1>8, CommitStep
  <1>9. CASE \E row \in Row, begun, done, ok \in BOOLEAN :
                ExecWithoutCommit(row, begun, done, ok)
    BY <1>9, ExecWithoutCommitStep
  <1>10. CASE \E ok \in BOOLEAN : Rollback(ok)
    BY <1>10, RollbackStep
  <1>11. CASE \E ok \in BOOLEAN : PrepareBatch(ok)
    BY <1>11, PreparingStep
  <1>12. CASE \E n \in 1..Len(Batch) : \E m \in 0..n, lost \in BOOLEAN :
                 ExecuteBatch(n, m, lost)
    BY <1>12, ExecuteBatchStep
  <1> QED
    BY <1>1, <1>2, <1>3, <1>4, <1>5, <1>6, <1>7, <1>8, <1>9, <1>10, <1>11, <1>12 DEF CurNext

LEMMA NextCurInv ==
    ASSUME CurInv, CallIsTrue, [CurNext]_curVars
    PROVE  CurInv' /\ CallIsTrue'
  <1>1. CASE UNCHANGED curVars
    BY <1>1 DEF curVars, CurInv, DurableIsStored, CallIsTrue
  <1>2. CASE CurNext
    BY <1>2, CallStep
  <1> QED
    BY <1>1, <1>2

LEMMA InitCallIsTrue == CurInit => CallIsTrue
  BY DEF CurInit, Nothing, Told, CallIsTrue, IsStoredPrefix

\* Every call of a worker's session that says that it worked has stored every row it was
\* given, in order, or has found the user it asked for; one that says that it failed has
\* stored a first part of them; and what was reported as stored for good is in the table,
\* as often as it was reported, whenever connections and answers are lost (ocicursor.cpp
\* and ocidatabase.cpp, for login and rigister of Yprocess.cpp).
THEOREM CallsStayTrue == CurSpec => []CallsTellTruth
  <1>1. CurInv /\ CallIsTrue => CallsTellTruth
    <2> SUFFICES ASSUME CurInv, CallIsTrue PROVE CallsTellTruth
      OBVIOUS
    <2>1. ToSet(durable) \subseteq Written
      BY DEF CurInv, ToSet
    <2> QED
      BY <2>1 DEF CurInv, CallIsTrue, CallsTellTruth, DurableIsStored
  <1> QED
    BY <1>1, InitCurInv, InitCallIsTrue, NextCurInv, PTL DEF CurSpec
=============================================================================
