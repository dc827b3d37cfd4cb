----------------------------- MODULE Migrations -----------------------------
(***************************************************************************)
(* Schema migrations of the local SQLite database (data/migrations.py,     *)
(* data/database.py).  Every process applies the migrations of its own     *)
(* package at start; packages of different releases may meet one database. *)
(* A migration is a record of a version and an identity (name, checksum);  *)
(* its SQL is a number of statements that run inside one transaction.      *)
(***************************************************************************)
EXTENDS Integers, Sequences, FiniteSets, SequencesExt

CONSTANTS Starters,     \* processes that call ensure_database_ready
          Package,      \* the migrations shipped with each of them
          Statements    \* SQL statements in a migration

ASSUME PackageAssumption ==
    /\ "nobody" \notin Starters
    /\ Statements \in Nat
    /\ \A p \in Starters : Package[p] \in Seq(Range(Package[p]))

-----------------------------------------------------------------------------
(* What a packaged migration may be: the scanner that splits its SQL, and  *)
(* the checks of a sequence of migrations.                                 *)

\* split_sql_statements: a scanner over characters.  Comments become white
\* space, quotes protect their content, a semicolon ends a statement outside
\* parentheses.  "w" stands for a word, "C" for a word that controls
\* transactions, "_" for white space, "n" for a line end, "dq" and "bt" for a
\* double quote and a backtick.
Quotes == [single |-> "'", double |-> "dq", backtick |-> "bt", bracket |-> "]"]
Opening == [c \in {"'", "dq", "bt", "["} |->
               CASE c = "'" -> "single" [] c = "dq" -> "double"
                 [] c = "bt" -> "backtick" [] OTHER -> "bracket"]

Scanner == [state |-> "normal", current |-> <<>>, depth |-> 0, out |-> <<>>, skip |-> FALSE]

Strip(s) ==
    LET solid == {i \in 1..Len(s) : s[i] \notin {"_", "n"}}
    IN  IF solid = {} THEN <<>>
        ELSE SubSeq(s, CHOOSE i \in solid : \A j \in solid : i <= j,
                       CHOOSE i \in solid : \A j \in solid : i >= j)

\* The text without its trailing semicolons.
Unterminated(s) ==
    LET kept == {i \in 1..Len(s) : s[i] # ";"}
    IN  IF kept = {} THEN <<>> ELSE Strip(SubSeq(s, 1, CHOOSE i \in kept : \A j \in kept : i >= j))

Take(sc, c) == [sc EXCEPT !.current = Append(@, c)]

ScanNormal(sc, c, nxt) ==
    CASE c = "-" /\ nxt = "-" -> [sc EXCEPT !.state = "line_comment", !.skip = TRUE]
      [] c = "/" /\ nxt = "*" -> [sc EXCEPT !.state = "block_comment", !.skip = TRUE]
      [] c \in DOMAIN Opening -> [Take(sc, c) EXCEPT !.state = Opening[c]]
      [] c = "(" -> [Take(sc, c) EXCEPT !.depth = @ + 1]
      [] c = ")" -> [Take(sc, c) EXCEPT !.depth = IF @ > 0 THEN @ - 1 ELSE 0]
      [] c = ";" /\ sc.depth = 0 ->
            [sc EXCEPT !.out = Append(@, Unterminated(Strip(Append(sc.current, c)))), !.current = <<>>]
      [] OTHER -> Take(sc, c)

ScanOther(sc, c, nxt) ==
    CASE sc.state = "line_comment" ->
            IF c = "n" THEN [Take(sc, c) EXCEPT !.state = "normal"] ELSE sc
      [] sc.state = "block_comment" ->
            IF c = "*" /\ nxt = "/" THEN [Take(sc, "_") EXCEPT !.state = "normal", !.skip = TRUE] ELSE sc
      [] sc.state = "bracket" -> [Take(sc, c) EXCEPT !.state = IF c = "]" THEN "normal" ELSE @]
      [] OTHER ->
            IF c # Quotes[sc.state] THEN Take(sc, c)
            ELSE IF nxt = c THEN [Take(Take(sc, c), nxt) EXCEPT !.skip = TRUE]
            ELSE [Take(sc, c) EXCEPT !.state = "normal"]

Scan(text) ==
    LET step(sc, i) == LET c   == text[i]
                           nxt == IF i < Len(text) THEN text[i + 1] ELSE "_"
                       IN  IF sc.skip THEN [sc EXCEPT !.skip = FALSE]
                           ELSE IF sc.state = "normal" THEN ScanNormal(sc, c, nxt)
                           ELSE ScanOther(sc, c, nxt)
    IN  FoldLeft(step, Scanner, [i \in 1..Len(text) |-> i])

\* The statements, or a refusal of a text that ends inside one.
SplitSqlStatements(text) ==
    LET end  == Scan(text)
        rest == Strip(end.current)
    IN  IF end.state \notin {"normal", "line_comment"} \/ end.depth # 0 THEN [ok |-> FALSE, out |-> <<>>]
        ELSE [ok |-> TRUE, out |-> IF rest = <<>> THEN end.out ELSE Append(end.out, Unterminated(rest))]

-----------------------------------------------------------------------------
\* _first_sql_token, on a statement whose comments are gone.
FirstSqlToken(statement) ==
    LET t    == Strip(statement)
        ends == {i \in 1..Len(t) : t[i] \in {"_", "n", ";", "(", ")"}} \union {Len(t) + 1}
    IN  SubSeq(t, 1, (CHOOSE i \in ends : \A j \in ends : i <= j) - 1)

\* _PROHIBITED_FIRST_TOKENS: BEGIN, COMMIT, END, ROLLBACK, SAVEPOINT, RELEASE,
\* VACUUM, ATTACH, DETACH and PRAGMA.
Prohibited == {<<"C">>}

ValidMigrationSql(text) ==
    LET split == SplitSqlStatements(text)
    IN  split.ok /\ \A i \in 1..Len(split.out) : FirstSqlToken(split.out[i]) \notin Prohibited

\* _validate_migration_definition; a name and a checksum that are the file's.
Malformed(m) == m.version < 1 \/ ~m.named \/ ~m.checksummed

\* validate_migration_sequence: no version twice, consecutive from 1, and SQL
\* that keeps to its transaction.
ValidMigrationSequence(ms) ==
    /\ \A m \in ms : ~Malformed(m) /\ ValidMigrationSql(m.sql)
    /\ \A m, n \in ms : m.version = n.version => m = n
    /\ {m.version : m \in ms} = 1..Cardinality(ms)

-----------------------------------------------------------------------------
VARIABLES schema,       \* committed effects, in the order they were executed
          history,      \* committed rows of schema_migrations, by version
          writer,       \* the starter that holds the write lock, or "nobody"
          work,         \* the uncommitted schema, history and statement of the writer
          starter       \* per starter: stage, the versions it read, its report

migrationVars == <<schema, history, writer, work, starter>>

Idle == [stage |-> "idle", applied |-> <<>>, previous |-> 0, reports |-> 0]
NoWork == [schema |-> <<>>, history |-> <<>>, next |-> 1, statement |-> 1]

MigrationsInit ==
    /\ schema = <<>> /\ history = <<>>
    /\ writer = "nobody" /\ work = NoWork
    /\ starter = [p \in Starters |-> Idle]

-----------------------------------------------------------------------------
\* _read_applied_migrations: a row of schema_migrations that can be read.
Readable(r) == r.version >= 1

\* _verify_applied_history: the rows are the prefix 1..N of the package.
CompatibleHistory(rows, package) ==
    /\ \A i \in 1..Len(rows) : Readable(rows[i])
    /\ \A i \in 1..Len(rows) : rows[i].version = i
    /\ Len(rows) <= Len(package)
    /\ \A i \in 1..Len(rows) : rows[i].id = package[i].id

\* connect_database and BEGIN IMMEDIATE; the applied rows are read after the
\* lock is held.  A package that is malformed is refused before, a history it
\* does not know rolls back.
BeginMigration(p) ==
    /\ starter[p].stage = "idle" /\ writer = "nobody"
    /\ IF ValidMigrationSequence(Range(Package[p])) /\ CompatibleHistory(history, Package[p])
       THEN /\ writer' = p
            /\ work' = [schema |-> schema, history |-> history, next |-> Len(history) + 1, statement |-> 1]
            /\ starter' = [starter EXCEPT ![p].stage = "migrating", ![p].previous = Len(history)]
       ELSE /\ starter' = [starter EXCEPT ![p].stage = "refused"]
            /\ UNCHANGED <<writer, work>>
    /\ UNCHANGED <<schema, history>>

\* The lock is held by another writer past the busy timeout.
MigrationBusy(p) ==
    /\ starter[p].stage = "idle" /\ writer \notin {"nobody", p}
    /\ starter' = [starter EXCEPT ![p].stage = "busy"]
    /\ UNCHANGED <<schema, history, writer, work>>

\* _apply_one_migration: its statements, then its row; the row's version is a
\* primary key, so a row that is already there ends the transaction.
MoreToApply(p) == work.next <= Len(Package[p])

\* Mutant: statements that commit by themselves.
ApplyAutocommitted(p) ==
    /\ writer = p /\ MoreToApply(p) /\ work.statement <= Statements
    /\ work' = [work EXCEPT !.schema = Append(@, <<Package[p][work.next].id, work.statement>>),
                            !.statement = @ + 1]
    /\ schema' = work'.schema
    /\ UNCHANGED <<history, writer, starter>>

ApplyStatement(p) ==
    /\ writer = p /\ MoreToApply(p) /\ work.statement <= Statements
    /\ work' = [work EXCEPT !.schema = Append(@, <<Package[p][work.next].id, work.statement>>),
                            !.statement = @ + 1]
    /\ UNCHANGED <<schema, history, writer, starter>>

RecordMigration(p) ==
    /\ writer = p /\ MoreToApply(p) /\ work.statement > Statements
    /\ IF \E i \in 1..Len(work.history) : work.history[i].version = work.next
       THEN /\ writer' = "nobody" /\ work' = NoWork
            /\ starter' = [starter EXCEPT ![p].stage = "conflict"]
       ELSE /\ work' = [work EXCEPT !.history = Append(@, [version |-> work.next, id |-> Package[p][work.next].id]),
                                    !.next = @ + 1, !.statement = 1]
            /\ UNCHANGED <<writer, starter>>
    /\ UNCHANGED <<schema, history>>

\* The latest version must be reached before the commit.
CommitMigration(p) ==
    /\ writer = p /\ ~MoreToApply(p) /\ Len(work.history) = Len(Package[p])
    /\ schema' = work.schema /\ history' = work.history
    /\ writer' = "nobody" /\ work' = NoWork
    /\ starter' = [starter EXCEPT ![p].stage = "committed"]

\* A failing statement or a killed process: SQLite rolls the transaction back.
RollBackMigration(p) ==
    /\ writer = p
    /\ writer' = "nobody" /\ work' = NoWork
    /\ starter' = [starter EXCEPT ![p].stage = "failed"]
    /\ UNCHANGED <<schema, history>>

\* get_migration_status on a connection of its own, after the commit: a newer
\* release may have migrated in between.
ReportReady(p) ==
    /\ starter[p].stage = "committed"
    /\ starter' = [starter EXCEPT
           ![p].stage = IF CompatibleHistory(history, Package[p]) THEN "ready" ELSE "refused",
           ![p].reports = Len(history)]
    /\ UNCHANGED <<schema, history, writer, work>>

\* The process is started again.
Restart(p) ==
    /\ starter[p].stage \in {"busy", "failed"}
    /\ starter' = [starter EXCEPT ![p] = Idle]
    /\ UNCHANGED <<schema, history, writer, work>>

MigrationsNext ==
    \E p \in Starters :
        \/ BeginMigration(p) \/ MigrationBusy(p) \/ ApplyStatement(p) \/ RecordMigration(p)
        \/ CommitMigration(p) \/ RollBackMigration(p) \/ ReportReady(p) \/ Restart(p)

MigrationsSpec == MigrationsInit /\ [][MigrationsNext]_migrationVars

-----------------------------------------------------------------------------
\* The number of effects before the i-th migration.
Before(i) == Statements * (i - 1)

\* Every statement of every recorded migration has run exactly once, in the
\* order of the versions, and nothing else has; no starter ever found a row of
\* its own migration already there.  Worker, UI and scheduler may all meet an
\* unmigrated database (apply_migrations, migrations.py:448).
EffectsMatchHistory ==
    /\ Len(schema) = Before(Len(history) + 1)
    /\ \A i \in 1..Len(history), s \in 1..Statements :
           schema[Before(i) + s] = <<history[i].id, s>>
    /\ \A p \in Starters : starter[p].stage # "conflict"

\* A starter that reports ready has its whole package applied, under the
\* identities it ships, and no other release can take that back.
ReadyIsMigrated ==
    \A p \in Starters : starter[p].stage = "ready" =>
        /\ starter[p].reports = Len(Package[p])
        /\ IsPrefix([i \in 1..Len(Package[p]) |-> Package[p][i].id],
                    [i \in 1..Len(history) |-> history[i].id])

\* Whichever releases start together, are refused or crash: the schema is what
\* the recorded history made it, and a ready process has its whole package.
SchemaMatchesHistory == EffectsMatchHistory /\ ReadyIsMigrated
=============================================================================
