# A verification development for PgBash

PgBash 8r4.1 is bash 4.1 with SQL built in: `exec_sql` and SQL statements typed
at the prompt are run over libpq connections that live inside the shell.  This
directory holds TLA+ modules of the parts PgBash adds to bash, the TLC
configurations that check them, and proofs for TLAPS.  All source paths below are
under `src/pgbash-8r4.1/src/`; the user's guide is `src/usage/`.

## 1. Inventory

| component | source | state it keeps | operations | status |
|---|---|---|---|---|
| connection list | `exec_sql/sql_connect.c`, `.h` | `psconninfo` (`firstp`, `lastp`, `currentp`, `defaultp`, `maxno`), a singly linked list of `PSconnList`, the static version buffer of `getVersion` | `CONNECT`, `DISCONNECT`, `SET CONNECTION` | modelled |
| command execution | `exec_sql/exec_sql_main.c`, `psql_sub.c` (`SendQuery`) | `sqlca0`, `cancelConn`, `pset.dbset`, the disposition of SIGINT, the shell variables | one command from its options to its shell variables; `handle_sigint` | modelled |
| large objects | `exec_sql/psql_sub.c` 404-850 | `exist_des`; the database's objects, the table `pgbash_description`, the transaction | `lo_import`, `lo_export`, `lo_unlink` | modelled |
| host variables | `exec_sql/sql_fetch.c` | the list of host variables of one statement; shell variables | `SELECT INTO`, `FETCH INTO` | modelled |
| SQL reader | `parse.y` 5994-6289 | `SQL_flag`, quotes, parentheses, length | reads a statement up to `;` | modelled |
| options | `exec_sql/sql_set.c`, `exec_sql.def` | `exec_sql_option`, the `OPTION_` variables, `CGI_MODE`, `Content_type`; the flags of one command | `SET OPTION_xxx`, `SET EXEC_SQL_OPTION`, the switches of `exec_sql` | modelled |
| CGI input | `exec_sql/uncgi_sub.c` | the table of names, shell variables | GET, POST and cookies become shell variables | modelled |
| shared connections | `execute_cmd.c`, `jobs.c` with the list | libpq sockets across `fork` | background jobs, pipelines | no: see 6 |
| printing | `exec_sql/print_sub.c` | none | formats a result | no: formatting |
| utilities | `exec_sql/utils.c`, `exec_sql_init.c` | none | strings | no, except `strUcmp`, `skipToken` and `checkName` where they decide something |
| bash | the rest of `src/` | - | - | no: upstream; only `trap INT` and the reader loop's handler |
| PostgreSQL, libpq | not in `src/` | - | - | external: every answer the code tells apart |

How they interact.  The lexer (SQL reader) or the builtin (`exec_sql.def`) fills an
`EXEC_SQL_OPTION` and calls `exec_sql_main`, which runs a connection statement on
the list, or takes a connection from it and calls `SendQuery` or `lo_exec`.  Both
talk to the server synchronously through libpq and leave their outcome in
`sqlca0`, which is then bound to shell variables.  Everything runs in one thread;
what interleaves with it is **SIGINT**, whose handler sends a cancel request and
leaves `exec_sql_main` by `longjmp` from wherever it was, **the server** (errors,
lost connections, `NOTIFY`), and **other clients** of the same database.

What is hard, and what makes each component correct:

* *List.*  Unlinking moves five pointers and counters together, for a first,
  middle, last and only node, behind calls (`free`, `PQfinish`) that have taken the
  node apart already, and `ALL` does it in a loop; `Control-C` may fall between any
  two calls.  Correct: the pointers describe exactly the allocated nodes;
  names are distinct; the current connection and POSTGRESQL_VERSION follow every
  change; a statement that reports success did what it says.
* *Execution.*  `-d` switches the current connection and switches back; there are
  some twenty exits.  Correct: a query runs on the connection it was told to, the
  switch is undone, a failure has a code, a cancel request goes to the connection
  that is running the query, what SQLCA and SIGINT were is restored where it
  should be.
* *Large objects.*  Three to four statements in a transaction, each of which may
  fail, with a cached belief (`exist_des`) about the database.  Correct: all or
  nothing, no transaction left open, rows and objects match.
* *SQL reader.*  A hand-written loop with three quotation flags, a read-ahead and a
  count of parentheses turns text into one shell word `"..."`.  Correct: its flags
  agree with what the user's guide says of the text, so that a statement ends at the
  right semicolon; and the word is one word, whatever marks are in it.
* *Host variables.*  Two parsers of the same grammar that differ in one token, a list
  that an error frees while the caller keeps its pointer, and variables that are
  bound one by one, perhaps twice, while their attributes change.  Correct: a clause
  written as the guide has it is read as it is written; each variable ends up with
  the field its last place in the clause names; a list of another length than the
  row is told; nothing goes through a freed list as long as the server refuses what
  the parsers refuse.
* *Options and CGI mode.*  Every option is kept twice (a struct and a shell variable),
  CGI mode three times, and a command's flags are a copy that its switches change.
  Correct: a table has the form that the SETs so far and this command's switches ask
  for, and errors go where CGI mode has them.
* *CGI input.*  A name sent twice turns a scalar into an array, which is built from
  its own text by the shell's word splitting; names are found by prefix in a table of
  fixed size.  Correct: no word of a value is lost or moved to another name; the
  table is never overfull and is empty for the next call.

`PROJECT.json` lists the hazards line by line, with the properties for each.

## 2. Modules

| module | models | state and actions |
|---|---|---|
| `ConnSpec` | what the list promises: a set of open connections, one of them perhaps current | `open`, `name`, `current`; `Connect`, `Disconnect`, `DisconnectAll`, `SetConnection` (`SpecSpec`), and, call by call, `Connect`, `Close` and `SetConnection` (`StepSpec`), where a `DISCONNECT` is a `Close` and then the choice of the next current connection, and a `DISCONNECT ALL` one `CloseOldest` after the other |
| `ConnList` | `sql_connect.c`, pointer by pointer | `live` is the heap's allocated nodes and `next`, `cname`, `ver_no` their fields; `firstp`, `lastp`, `currentp`, `defaultp`, `maxno` are `psconninfo`; `pc`, `stmt`, `arg`, `pDBL`, `prev` the statement being executed. The search is one action per node looked at (`Walk`, `NameUsed`, `NameFree`). A node that `free_PSconnList` frees is four (`FreeNames`, `FinishConn`, `MovePointers`, `FreeAndReturn` or `FreeAndGoOn`), a new current connection two (`SetCurrent` or `FirstIsCurrent`, then `SetVersion`), `CONNECT` one per call. `Interrupt` is a `Control-C` between two calls, `Tear` one that leaves a node in pieces |
| `MCConnList` | constants for TLC | |
| `ConnListProofs`, `ConnListRefines` | proofs | |
| `Session` (EXTENDS `ConnSpec`) | `exec_sql_main`, `SendQuery`, `handle_sigint` | `cancelConn`, `SQLCODE`, `sqlca`, `status`, `dbset`, `work` are the variables of the code; `intr` what SIGINT does now and `trap` what the shell asked for; `pc` where `exec_sql_main` is; `was` a ghost, the connection that was current at the start, and `jumped` another, that a jump of the shell's arithmetic out of `exec_sql_main` (`NumberJump`) was the last thing to happen to `intr`, and `silent` a third, the event that made the command fail without a code. `ExecDisconnect` closes, `OldestIsCurrent` chooses. One action per exit and per state change between two calls into libpq |
| `SessionProofs` | proofs | |
| `LargeObjectSpec` | what `lo_import`, `lo_export` and `lo_unlink` do (not all the guide promises: section 4), each one step, in or out of a transaction of the user's | `stable`, `seen`, `result`; `Import`, `Export`, `Unlink`, `Refuse`, `Abandon` (`Control-C`), `UserChanges`, `UserEnds` |
| `LargeObject` | `lo_exec` and the four functions it uses | `stable` and `now` are the committed database and the one the transaction sees, `txn` its state (external); `exist_des`, `SQLOID`; `pc` the statement of the routine; `start` and `torn` are ghosts. One action per statement sent; `Executed` is what the server may have done with it when `Control-C` comes |
| `LargeObjectProofs` | proofs | |
| `SqlReader` | `read_EXEC_SQL_token`, `read_EXEC_SQL_reserved_word`, `read_EXEC_SQL_statement` (parse.y 6024-6289), `reset_parser` | `SQL_flag`, `last_read_token`, `sqt`, `wqt`, `ssqt`, `parenth`, `retind` are the variables of the code; `pc` is the `shell_getc` it waits in (head of the loop, behind a backslash, behind a `'`, in a comment). One action per `shell_getc`. `context`, `escaped`, `depth` are a second reader of the same text, written from the user's guide; `word` is what a `"..."` of the shell makes of `the_word` |
| `SqlReaderProofs` | proofs | |
| `Fetch` | `sql_fetch.c`, `parse_select_fetch_into` to `free_PSfetchList`, with what `SendQuery` and `bind_variable` do around it | `list` and `freed` are the `PSfetchList` and its memory, `fetflg`, `j` the variables of the code, `clause` whether the query still has something the server refuses, `var` the shell's variables with the attributes readonly and integer. One action per token read and per variable bound, and `UseFreed` for the read of a freed list, with which a behaviour ends. `doc` and `reading` are a second reader of the clause, written from the grammar of the guide; `old` a ghost, the variables when the statement began |
| `FetchProofs` | proofs | |
| `Uncgi` | `uncgi_sub.c` and `wrap_bind_array_variable` | `table` is `Cname` with `M_Cname`, `shell` the variables, `ncookie` HTTP_NCOOKIE; `source` and `left` where the scan is. One action per field. A value is a sequence of words, a variable one of pieces, each perhaps with quotation marks. `sent`, `times`, `clean`, `full`, `torn` are ghosts |
| `UncgiProofs` | proofs about `Uncgi`: what word splitting keeps, the table of names, the steps of `uncgi` | |
| `Options` (EXTENDS `Uncgi`) | `sql_set.c`, `exec_sql_builtin` and `copy_exec_sql_options` of `exec_sql.def`, `initPSconnSet` | `saved` and `cgi_mode` are `exec_sql_option`, `shown` the `OPTION_` variables, `CGI_MODE` and `Content_type` those of the code, `option` the flags of the command, `printed` the form of its table. `asked` is a ghost, the options the SETs so far ask for; `once` another, the switches of this command |
| `OptionsProofs` | proofs about `Options`, with those of `UncgiProofs` composed | |

Composition.  `Session` treats `CONNECT` and `SET CONNECTION` as one step over the
set `open`, `DISCONNECT` of one connection as two and `DISCONNECT ALL` as one per
connection, because `Control-C` may fall between two of them.  The two meet in `ConnSpec!StepSpec`: every behaviour of the list
is one of it (`ImplementsConnSteps`, proved for every name and with `Control-C`), and
the connections of a `Session` change by its steps alone, whatever the commands are
(`StepsOfConnections`, proved).  `ImplementsConnSpec` says more, that `DISCONNECT ALL`
is one step, which is so where nothing can cut it.  `LargeObject`
is the detail of the step `LoExec` of `Session`, and `Fetch` of its `Result` for a
query with INTO (its `BadNumber` is the `NumberJump` of `Session`).  `Options` is composed
with `Uncgi`: a SET or a switch calls it, goes on when it returns, and `Control-C` leaves
both.  `SqlReader` is in front of all of
them: what it hands over is the `option->query` with which `exec_sql_main` begins.

Every action is a whole handler, or the piece of one between two points where
something else can happen: a signal, or an answer of the server.

Abstractions.  All are of data but the three about `Control-C` and what ends a behaviour.
* Addresses of nodes are the integers `1..n` in order of allocation and are never
  reused; a node's contents are cleared as they are freed, so that a read of
  freed memory would show.  The one write through a freed pointer in the code
  (`prev->next` in a `DISCONNECT ALL`) changes nothing that is read later: `IInv`
  is about the list that remains.
* A name is a member of a small set.  Names the parsers refuse are the command
  "malformed".  `_DEFAULT_`, `_CURRENT_` and `_ALL_` are the strings the parsers put
  for the keywords, so that a user who types them meets the same comparisons.
* The branches for `openflag = 0` are not there: nothing clears `openflag` of a node
  in the list.  The search `bind_PSconnList` makes before it allocates always fails,
  as its caller has just looked.
* `getVersion` of an answer without rows, where the code dereferences NULL, is not an
  answer TLC is given: the failures in `Fallible` are refused queries.
* A result status that the code does not tell apart is not given (`Answers`).
* POSTGRESQL_VERSION is only in `ConnList`, cookies, headers and messages nowhere.
* `Control-C` falls between two actions, and a step ends where the code calls out: to
  the server, to `free`, to bash's variables.  Assignments with no call between them
  are one step: a signal between two machine instructions is not modelled (in the
  unlinking it tears the list as the points around it do).  Of several calls of `free`
  in a row, and of `PQfinish` with the `free(dbset)` behind it, one stands for all, since
  what one of them has freed is as unusable as what all have.
* A `Control-C` while `free_PSconnList` has a node in pieces (sql_connect.c 1245-1283)
  leaves the node in the list without its names, or also without its PGconn, or a
  `maxno` that is one too high.  Up to there `ConnList` follows the code (`Tear`), and
  `IInv` says what state the list is in; what the next statement makes of it reads freed
  memory or a wrong count, and nothing is said of it (`pc = "torn"`).  `Session` is
  about lists that are not torn.
* In `Fetch` likewise nothing is said of the shell once a freed list has been read
  (`UseFreed`), and in `Session` once a handler has jumped into a dead frame.
* The text `SqlReader` reads is a sequence of kinds of characters, those its code tells
  apart.  `shell_getc` (upstream) drops a backslash-newline and adds a newline to a last
  line without one, so that an end of file follows a newline.  The words that start a
  statement are one kind of token.  `retind` is counted exactly up to the limit and
  stays just above it.
* `Fetch` has variables that are scalars.  A clause is a sequence of tokens, each chosen
  when it is read.  The text in front of it is a choice: there is no INTO, it is an INTO
  clause, or it is one for the parsers only, which look into strings and comments
  (`text` in `Start`); and so is whether the server refuses the query for other reasons.
  With an INTO clause that was not cut out it always does.  A field is a number, a text
  that is no arithmetic expression, or NULL.  SQLFIELDNAME is left out.
* `Options` has one option of each kind: OPTION_HTML is OFF by default and copied
  whatever its value, OPTION_HEADER is ON and its switch turns it off, OPTION_SEPARATOR
  is a string, and not set when it is empty.  The other fifteen are of these kinds.  A
  string is a member of a small set, and none is too long unless the command refuses it.
* A value in `Uncgi` is a sequence of words with one blank between two of them, which is
  what the shell splits it into; it has no quotation marks and nothing the shell would
  expand.  That names are found by prefix is the relation `Extends`.  A name that is no
  identifier is kept in the table, where the code keeps it, but not as a variable.
  URL decoding is done before the model begins, and `EXEC_SQL_PREPARE` is not compiled.
* After `exit(2)` of `ConnectionLost` nothing runs: EXIT traps of a shell that has
  lost its connection are not modelled.  Nor is what follows when `handle_sigint`
  jumps into a frame that has returned (`DeadFrame`): anything may.

## 3. Runs

All bounds are in the `.cfg` files and the `MC` modules.

| run | what it asks |
|---|---|
| `conn_batch` | a script with up to four connections of two user names, `_DEFAULT_`, and two server versions: types, the list after every iteration (`ListOK`, `NoDangling`), `DistinctNames`, `CurrentExists`, `VersionOfCurrent`, `SuccessMeansDone`, the walk ends (`StatementEnds`), and the list implements `ConnSpec` |
| `conn_tty` | up to three connections, with `Control-C` between any two calls, a connection a user has named `_ALL_`, and version queries that fail: the inductive invariant (with a node in pieces too), the list as single steps over the set of connections (`ImplementsConnSteps`), and the number of steps a statement has left falls with every one of them (`WalkShrinks`) |
| `session` | three connections, one called `def`, `Control-C` at any step, OIDs above 2^31, results without fields, host variables that are integers: the inductive invariant, queries run where told (`RunsWhereTold`), every end but a `Control-C` between its two halves undoes `-d` (`SwitchIsUndone`), every failure has a code but for three events, each of which is told by what happened and not by what the command is (`FailureHasCode`), `exec_sql`'s SIGINT handler is gone whenever the shell reads a command, unless the shell's arithmetic has jumped past its removal (`HandlerIsRemoved`), the cancel request goes to the running query, and the connections change by the steps of `ConnSpec` (`StepsOfConnections`) |
| `session_switch` | violation, finding below |
| `reader_text` | any text, with `Control-C` and `Control-D` at any time: the flags agree with the guide (`RInv`), a statement ends exactly where the guide ends it (`EndsWhereWritten`), and is one word (`StatementIsOneWord`) |
| `reader_eof` | violation, finding below |
| `lo` | a user with transactions of his own, another PgBash, every statement may fail, `Control-C` before, during and after each of them, COMMIT and ROLLBACK included, an OID above the range of `int`: the inductive invariant, rows match objects, a routine called outside a transaction is all or nothing and ends its transaction, and in or out of one it is a single step of `LargeObjectSpec` (`ImplementsRoutines`) |
| `lo_stale` | violation, finding below |
| `fetch` | one `SELECT INTO` or `FETCH INTO` after the other, any clause of at most two items, any row of at most two fields, an INTO clause or a string that looks like one, two variables that may be readonly or integers and stand in any place, until a freed list is read: the right fields (`RightFields`), the length told (`LengthIsTold`), no freed list unless the clause is in a string or comment (`ListIsAlive`), the clause read as the guide has it (`ReadsAsDocumented`) |
| `fetch_glued` | violation, finding below |
| `cgi` | SET, switches and `-i` in any order, two calls of `uncgi`, requests with repeated, empty and prefixed names, a table with room for three, `Control-C` while one is read: `PrintsAsTold`, `OptionsAreShown`, `ErrorsWhereTold`, `FieldsAreKept`, `CookiesAreKept`, `TableIsEmptied` |
| `cookies` | violation, finding below |

Bounds.  `MaxConn = 4` in the batch run: with three nodes a list has a first, a middle
and a last one, the fourth connection follows an unlink in the middle; two names and
`_DEFAULT_` are enough for "used", "free" and "another".  `MaxConn = 3` in the
interactive run, where each call is a point for a signal: first, middle and last.  `Conn = 1..3` in `Session`: the query's, the
current one, and one more.  OIDs `{3, 9}` with `IntMax = 7`, so that one
is beyond `int`: a routine works on one object, the other must be left alone.
Two server versions: right and stale.  `SQL_MAXLEN = 6` and
`MaxDepth = 2` in `SqlReader`: the flags and the text's context are finite, and six
places are enough for the limit to be met behind a quotation read ahead and behind an
escaped `"`, which takes two.  `Careless = FALSE`: the text has none of the things
`Slip` lists, for which the reader is not made (below).  `MaxList = MaxFields = 2` and
two variables in `Fetch`: a list may be longer, shorter or as long as the row, and a
variable may be listed twice, as host variable, indicator or both.  `MAX_CNAME = 4` in
`Uncgi` instead of 512: three names fill the table.  Three fields of a name are enough
for an array to be built from an array, `MaxCalls = 2` for a call behind one that was
broken off.  There is no symmetry: connections are
ordered by age and names are strings that the code compares with keywords.

Deadlock.  Checked everywhere but where a behaviour really stops: in `Session` at
`exit(2)` and at a jump into a dead frame, in `conn_tty` at a torn list, in `fetch` at
the read of a freed list.

Fairness.  `ConnList!Spec` has `WF_vars(Step)`: `exec_sql_main` is sequential code
that keeps running, and the libpq calls in it return (with an error if the server is
gone).  A user need not type anything.  The other modules need none: their properties are
safety properties.

Each property has a mutant in `PROJECT.json`: an operator named `Mut...` next to the
action it changes, under which TLC finds the property violated.

## 4. Findings

Disagreements between the code and what the repository says of it.

| run | what happens |
|---|---|
| `session_switch` | `Control-C` while `-d` has switched leaves the other connection current (exec_sql_main.c:328); usage03-j.md:114: "temporarily" |
| `lo_stale` | `exist_des` stays set when the transaction that created `pgbash_description` is rolled back, and the table is never created again (psql_sub.c:848) |
| `reader_eof` | `Control-D` on a later line is the documented way to abandon a statement (usage02-j.md:183-186), but the loop ends at EOF as at a semicolon, and the part typed is run (parse.y:6132) |
| `fetch_glued` | `:name:ind` is one token for `skipToken`, no name, and the clause is refused and sent to the server (sql_fetch.c:216), although the comment before the parser (154) and the guide's example (usage04-j.md:66) write it so |
| `cookies` | with two cookies or more the elements of HTTP_COOKIEKEY have quotation marks around them that are characters (variables.c:4846); the guide says they are the names (usage06-j.md:36) |

Met on the way, visible in the models, and not the subject of a run:
`Control-C` in `PQfinish` or between the calls around it leaves a connection in the list
that has no name and perhaps no PGconn, perhaps as the current one (sql_connect.c
1245-1283; `Tear`);
`DISCONNECT` of a connection that is not current makes the *first* of the list current
(sql_connect.c:318) although `SET CONNECTION` had chosen another "from then on"
(usage03-j.md:91); `END` is meant to leave SQLCA alone (psql_sub.c:98), but
`exec_sql_main` has cleared it before (222);
`cancelConn` is not reset when its connection is closed (exec_sql_main.c:605);
each `exec_sql` ends with `signal(SIGINT, SIG_DFL)`, in a script too, where it had
installed nothing, and a `trap ... INT` is lost (391);  `Control-C` on a later line of a
statement leaves `SQL_flag` set, and the next line is read as a statement
(parse.y:6038; the guide offers it for the first line only);  a backslash right
behind a closing `'` is not seen as an escape, a `\"` inside `\'...\'` opens `"..."`, and
after a `)` too many no semicolon ends the statement (the three of `Slip`);
POSTGRESQL_VERSION survives the last `DISCONNECT`, and after a failed version query
is that of the server asked before (static buffer); `CONNECT TO DEFAULT AS x`
connects to a database called `DEFAULT`; `DISCONNECT CURRENT` of a connection named
`_ALL_` closes others; a statement stopped by `Control-C` ends with SQLCODE 0;
`-d def` means `DEFAULT`; a `NOTIFY` leaves a negative SQLCODE on a success; `-x`
with parameters `lo_exec` does not know sends them as a query; an import with an OID
above 2^31 is committed and reported as an error without a code, as is a
`SELECT INTO` of a result without fields; a large-object routine inside the user's
transaction ends that transaction, and one stopped by `Control-C` leaves its own
open; an import sets SQLOID to 1, and registers no row in `pgbash_description`, against
usage10-j.md:55: the INSERT is commented out (psql_sub.c:558), and `LargeObjectSpec`
follows the code; `Control-C` during COMMIT leaves either outcome and does not say which.

In `Fetch`: `FROM` behind an indicator is refused, against the guide's grammar, and a
stray word behind a variable is skipped; a NULL's indicator is -1 (`-PQgetisnull`), which
is SQL_NULL of usage07-j.md:115 and not the 1 of usage04-j.md:53, so that `RightFields`
says only that it is 0 if and only if the field is not NULL; a string such as
`'write INTO :a :b :c'` is parsed as a clause, refused and its list freed, and as the
server accepts the query, its row is bound through the freed list (sql_fetch.c:223-276,
psql_sub.c:140-152; `UseFreed`);
a readonly host variable is reported as bound, and the code -200 is never set; a bound
indicator loses its other attributes; a field that is no number leaves through the
reader's loop, with status 1, SQLCODE 0 and, in a script on a terminal, `handle_sigint`
still installed, so that a `Control-C` before the next `exec_sql` jumps into a frame that
has returned (`NumberJump`, `DeadFrame` of `Session`); the list is not freed when no row came.  In `Options` and `Uncgi`:
`exec_sql -i` sets the flag of `-H` (exec_sql.def:397-401) and overwrites it before a
table is printed, although exec_sql.def:37 calls `-H` the default in CGI mode, so that
`PrintsAsTold` leaves open whether a command that asks for no HTML gets it there; a name that another begins with, up to a character no name has, counts as
that one; after `Control-C` in `uncgi` the next call takes first fields for
repetitions; a second call leaves the elements of the first behind its own; a value
with a blank becomes several elements, so that HTTP_COOKIEVAL and HTTP_COOKIEKEY no
longer go together.

## 5. Proofs

Proved for every number of connections, every set of names, versions and OIDs, and
requests, lists and rows of any length.

**ConnList** (`ConnListProofs`).  `Invariance`: `Spec => []IInv`.  `ListOK` alone is
not inductive: unlinking the node at `pDBL` keeps the list only if `prev` is
really its predecessor, and `SetCurrent` is right only if the node at `pDBL`
is the one looked for.  `IInv` adds what the statement in progress knows at
each `pc`: where `prev` and `pDBL` are, that the nodes before `pDBL` do not
carry the name, which pointers may be NULL while a statement is half done, and which
node is in pieces (`Half`).  Each call of the code keeps it, so that it holds wherever
`Control-C` falls, up to a list that is torn.  The list
is stated by order of addresses (a node's `next` is the smallest allocated node above
it), which makes it a first-order fact and needs no induction along the list.  From it:
`ListTypes`, `ListIsWellFormed`, `NothingDangles` (but for the node in pieces),
`NamesAreDistinct`; `CurrentWhenever` (if not `Interactive`: a signal between two steps
can leave no current connection); `VersionFollows` (if neither `Interactive` nor
`Fallible`: a signal between `currentp` and the shell variable parts them).

`ConnListRefines` has what follows from `IInv` about steps.  `StepImplementation`,
`Spec => ST!StepSpec`, without any assumption: the open connections are the nodes that
have their names, and every call is a stutter but the one that links a node (`Connect`),
the one that frees its names (`Close`) and the one that moves `currentp`
(`SetConnection`).  A connection whose closing was torn counts as closed, and
as current no more.  `Implementation`,
`Spec => CS!SpecSpec`, hides the calls: a `DISCONNECT ALL` takes effect at its start, a
`DISCONNECT` of one when the next current connection is chosen, until when the node in
pieces counts as open under the name that was looked for; the main fact is that `firstp`
is the oldest of the connections that remain.  Assumed there: no terminal (`Control-C` would give back what has
disappeared) and no connection named `_ALL_` (`DISCONNECT CURRENT` of it may free more).
`SuccessIsAchieved` (not `Interactive`).  `WalksEnd`: `Remaining`, a number computed
from `pc` and `pDBL`, falls with every step of a statement, since a node's successor
has a larger number; with `WF_vars(Step)` this is why `StatementEnds` holds for every
`MaxConn`, but the last inference, from fairness, is not the prover's.

**Session** (`SessionProofs`).  `SessionInvariance`: `SInv` says, for each place of
`exec_sql_main`, which of `current`, `dbset`, `work`, `cancelConn` and `was` agree.
Without it none of the results below is inductive: that `SwitchBack` restores the right
connection depends on what `Switch` saved.  From it: `QueriesRunWhereTold`,
`CancelIsWellAimed`, `SwitchEnds`, `FailuresAreTold`, `HandlerGoes`, and
`ConnectionsStepByStep`, for which the connection that `SwitchBack` makes current again
must still be open.  They need no
assumption on the constants: what the code excepts (a `Control-C` between the two halves
of `-d`, a committed import whose OID is no int, a result without fields, a name that is a
prefix of DEFAULT, a jump of the shell's arithmetic) is in the statements, as the event
and not as the kind of command.  They are about lists that are not torn.

**LargeObject** (`LargeObjectProofs`).  `LInv` says that the work is done inside a
transaction and that, until its COMMIT, what the connection sees differs from what it
saw when the routine began by exactly the statements executed so far; if there was no
transaction then, the committed database is still the one the routine began with.
From it: `RowsMatch`, `TransactionsEnd`, `RoutinesAreAtomic`, and `RoutinesImplement`,
`Spec => LO!SpecSpec`: while a routine runs, the abstract connection sees `start.now`,
so that all of its statements are stutters but the one that returns.  It is not limited
to routines called outside a transaction: inside one, `Import`, `Export` and `Unlink`
commit what the user had done before them, and a failure may roll it back.  A routine
that `Control-C` stops is `Abandon`: the statement it was in may have been executed, a
COMMIT too, so that all of the work is committed, or none is and a part is left open.

**SqlReader** (`SqlReaderProofs`).  `ReaderInvariance`: `RInv`, inductive as it
stands, says that each flag of the reader is set exactly in the context it stands for,
with a lag of one character behind a `'` that may be the first of two.  From it:
`OneWord`, and with `Reading` (inside the loop the statement has not ended)
`EndsOnlyThere`: the reader ends a statement on a semicolon if and only if the guide
does.  For every length limit and depth of parentheses; assumed: `~Careless`.

**Fetch** (`FetchProofs`).  `FInv` says where the guide's reader may be when the parser
is at `pc`, and that their lists are the same as long as both go on; that a freed list goes with a query that still has its clause, so that the server
refuses it, or with a clause in a string, whose list is then not read twice (`UseFreed`
ends what is said); and which attributes a variable has after the places bound so far.  `RightFields` is not
inductive without the last: what binding stores depends on them.  The main step is
that a binding adds one place behind all others, so that it is the last effective one
of its variable and of no other.  From it: `FieldsAreRight`, `LengthsAreTold`,
`ListStaysAlive` (of what is a clause for the server too), `GuideIsRead`, for lists and rows of any length.

**Options and Uncgi** (`UncgiProofs`, `OptionsProofs`).  `OInv` has what relates the
flags of a command to the options and to its own switches (`FlagsOK`), the three places
of CGI mode to each other and to the place in the command (`ModeOK`), and `UInv` for
the names and variables of `uncgi`.  From it: `FormIsTold`,
`OptionsShow`, `ModesAgree`, `TableHasRoom`, `FieldsKept`, `CookiesKept`, for all
requests and separators, with tables of any size.

That no word is lost would be an induction over texts if a variable's words were
computed by a recursive function.  They are not: that pieces spell a text is stated by
ranks (`Spells`: the i-th piece that is a word is the i-th word, where its rank is the
cardinality of the word pieces up to it), and `SpellsConcat`, that one text behind
another is spelled by the pieces behind each other, is a fact about cardinalities.  Quotation marks keep ranks
(`QuotedOK`), and binding is both (`BindArrayOK`).  The rest is that the first call
knows which names came before: a name is in the table exactly if a text has come for
it (`FirstCallOK`), although the table is searched by prefix, because an identifier
extends no other name (`FoundOK`).

Only model-checked: `StatementEnds` (liveness under fairness is beyond the prover, its
variant function is proved), and the violations.

## 6. Not modelled

* *Background jobs and pipelines.*  A child has the parent's sockets and list, and two
  processes may talk on one connection.  No code of PgBash handles it, and no document
  promises anything of it but that a child's SQLCODE cannot be seen (usage11-j.md:27-36),
  so a model would have the protocol of libpq and no property of this code.
* *Printing* (`print_sub.c`) formats a result it does not change.
* *bash* and the libraries with it are upstream, nineteen lines in twenty under `src/`.  Where
  PgBash meets them they are in the models, as `trap INT`, the reader loop's handler,
  `shell_getc`, `bind_variable` and the splitting of words.
* *PostgreSQL and libpq* are external.  The models allow every answer that the code
  tells apart.
* Array variables as host variables, values with quotation marks in CGI input, and the
  text of options, as said above.

What could be added: the list's `openflag` once something clears it, and arrays in
`Fetch`.
