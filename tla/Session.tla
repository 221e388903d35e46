------------------------------ MODULE Session ------------------------------
(***************************************************************************)
(* exec_sql_main.c and SendQuery: one exec_sql command (or one SQL         *)
(* statement typed at the prompt) from the option check to the shell       *)
(* variables, over the set of connections of ConnSpec, with Control-C.     *)
(*                                                                         *)
(* The connections change by the steps of ConnSpec: ConnList has the       *)
(* detail of CONNECT, DISCONNECT and SET CONNECTION.  A list that a        *)
(* Control-C has torn (ConnList's Tear) is left out.  Nothing is said of   *)
(* what a query returns beyond its SQLCODE.                                *)
(***************************************************************************)
EXTENDS ConnSpec

CONSTANTS Prefixes,     \* the connect names that are a prefix of "DEFAULT"
          Interactive,  \* stdin and stdout are ttys
          BigOids,      \* the server's OIDs have passed 2^31
          NoColumns,    \* a SELECT INTO may be of a table without columns
          IntegerHosts  \* a host variable of SELECT INTO may be declare -i

DEFAULT_VALUE == "_DEFAULT_"
NULL == 0
None == ""

SQL_OK                 == 0
SQL_NOT_FOUND          == 100
SQL_SYSTEM_ERROR       == -200
SQL_TOO_MANY_ARGUMENTS == -201
SQL_TOO_FEW_ARGUMENTS  == -202
SQL_CONNECT_ERROR      == -203
SQL_INVALID_STMT       == -230
SQL_DB_NOT_OPEN        == -232
SQL_NAME_NOT_FOUND     == -233
SQL_NAME_ALREADY_USE   == -234
SQL_INVALID_DATA       == -236
SQL_BAD_RESPONSE       == -400
SQL_EMPTY_QUERY        == -401
SQL_CONNECTION_BAD     == -402
SQL_FATAL_ERROR        == -403
SQL_NONFATAL_ERROR     == -404

ASSUME SessionAssumption ==
    /\ Conn \subseteq Nat \ {NULL} /\ Conn # {}
    /\ Name \subseteq STRING /\ DEFAULT_VALUE \in Name
    /\ {None, "DEFAULT", "CURRENT", "ALL"} \cap Name = {}
    /\ Prefixes \subseteq Name \ {DEFAULT_VALUE}
    /\ Interactive \in BOOLEAN /\ BigOids \in BOOLEAN
    /\ NoColumns \in BOOLEAN /\ IntegerHosts \in BOOLEAN

Ident == Name \ {DEFAULT_VALUE}          \* what a user writes
SqlOp == {"select", "into", "copy", "command", "end", "empty"}

(* A command: what it is, the connection it names, the -d and -x options.   *)
(* "info" is -h, -v, -s or -m; "option" and "badoption" are SET OPTION_xxx; *)
(* "malformed" is a connection statement its parser rejects; "cgi" is -i    *)
(* without any query.                                                       *)
Command ==
    [op : {"info", "option", "badoption", "malformed", "cgi"},
     name : {None}, d : {None}, x : {FALSE}]
    \cup [op : {"connect", "set"}, name : Ident \cup {"DEFAULT"}, d : {None}, x : {FALSE}]
    \cup [op : {"disconnect"}, name : Ident \cup {"DEFAULT", "CURRENT", "ALL"},
          d : {None}, x : {FALSE}]
    \cup [op : SqlOp, name : {None}, d : Ident \cup {None, "DEFAULT"}, x : BOOLEAN]
NoCommand == [op |-> "none", name |-> None, d |-> None, x |-> FALSE]

ConnectName(n) == IF n = "DEFAULT" THEN DEFAULT_VALUE ELSE n

(* -d compares its argument with DEFAULT over the argument's own length. *)
SwitchName(d) == IF d \in Prefixes \cup {"DEFAULT"} THEN DEFAULT_VALUE ELSE d

(* What PQexec and the handling of its result leave: SQLCODE, and whether   *)
(* SendQuery returns true.  exec_fetchInto: a host variable list of the     *)
(* wrong length sets SQLCODE and returns 0, so it does not fail.            *)
Ends(code, good) == [code |-> code, good |-> good]
Errors == {Ends(c, FALSE) : c \in {SQL_NONFATAL_ERROR, SQL_FATAL_ERROR, SQL_BAD_RESPONSE}}
Answers(op) ==
    CASE op = "into"  -> {Ends(SQL_OK, TRUE), Ends(SQL_NOT_FOUND, FALSE),
                          Ends(SQL_SYSTEM_ERROR, FALSE),
                          Ends(SQL_TOO_MANY_ARGUMENTS, TRUE),
                          Ends(SQL_TOO_FEW_ARGUMENTS, TRUE)}
      [] op = "copy"  -> {}
      [] op = "empty" -> {Ends(SQL_EMPTY_QUERY, TRUE)}
      [] OTHER        -> {Ends(SQL_OK, TRUE)}

VARIABLES
    cancelConn,   \* the connection handle_sigint sends its cancel request to
    cancelled,    \* external: the connection whose backend was asked to cancel
    intr, trap,   \* what SIGINT does now, and what the shell last arranged
    jumped,       \* ghost: intr is as a jump out of exec_sql_main left it
    SQLCODE,      \* the shell variable
    sqlca,        \* sqlca0.sqlcode
    status,       \* exit status of the last command
    pc, cmd,      \* the command being executed and where it is
    dbset, work,  \* pset.dbset and the saved currentp of -d
    good,         \* success
    silent,       \* ghost: what makes the command fail and sets no SQLCODE
    was           \* ghost: the current connection when the command began

list   == <<open, name, current>>
shell  == <<SQLCODE, status>>
signal == <<cancelled, intr, trap, jumped>>
frame  == <<pc, cmd, dbset, work, good, silent, was>>
vars   == <<list, cancelConn, signal, shell, sqlca, frame>>

Init ==
    /\ SpecInit
    /\ cancelConn = NULL /\ cancelled = NULL
    /\ intr = "shell" /\ trap = "shell" /\ jumped = FALSE
    /\ SQLCODE = SQL_OK /\ sqlca = SQL_OK /\ status = 0
    /\ pc = "idle" /\ cmd = NoCommand
    /\ dbset = NULL /\ work = NULL /\ good = TRUE /\ silent = None /\ was = NULL

-----------------------------------------------------------------------------
(* The shell between two commands: trap INT, and what the reader loop of an *)
(* interactive shell does before it reads a command.  "shell" is bash's own *)
(* handler, "default" is SIG_DFL.                                           *)
Handler == {"shell", "trap", "ignored"}

SetTrap(h) ==
    /\ pc = "idle"
    /\ trap' = h /\ intr' = h /\ jumped' = FALSE
    /\ UNCHANGED <<list, cancelConn, cancelled, shell, sqlca, frame>>

ReadCommand ==
    /\ pc = "idle" /\ Interactive /\ trap # "ignored"
    /\ intr' = trap /\ jumped' = FALSE
    /\ UNCHANGED <<list, cancelConn, cancelled, trap, shell, sqlca, frame>>

Unused == Oldest({c \in Conn : \A d \in open : d < c})
Named(nm) == {c \in open : name[c] = nm}

(* exec_sql_main begins: the SIGINT handler is installed and, unless the    *)
(* command only looks at or sets options, SQLCA is cleared and bound.       *)
Begin(c) ==
    /\ pc = "idle"
    /\ c.op = "connect" => Unused # NULL         \* bound: Conn
    /\ pc' = IF c.op = "disconnect" /\ c.name = "ALL" /\ open # {} THEN "free" ELSE "parse"
    /\ cmd' = c /\ was' = current /\ good' = TRUE
    /\ intr' = (IF Interactive THEN "cancel" ELSE intr) /\ jumped' = FALSE
    /\ sqlca' = IF c.op \in {"info", "option", "badoption"} THEN sqlca ELSE SQL_OK
    /\ SQLCODE' = IF c.op \in {"info", "option", "badoption"} THEN SQLCODE ELSE SQL_OK
    /\ UNCHANGED <<list, cancelConn, cancelled, trap, status, dbset, work, silent>>

(* normal_option_end: *)
Return(st) ==
    /\ pc' = "idle" /\ cmd' = NoCommand
    /\ dbset' = NULL /\ work' = NULL /\ good' = TRUE /\ silent' = None /\ was' = NULL
    /\ intr' = "default"
    /\ status' = st
    /\ UNCHANGED <<cancelled, trap, jumped>>

(* normal_end: and exec_error: *)
End(code, ok) ==
    /\ sqlca' = code /\ SQLCODE' = code
    /\ Return(IF ok THEN 0 ELSE -1)

OptionEnd ==
    /\ pc = "parse" /\ cmd.op \in {"info", "option"}
    /\ Return(0)
    /\ UNCHANGED <<list, cancelConn, SQLCODE, sqlca>>

SyntaxError ==
    /\ pc = "parse" /\ cmd.op \in {"badoption", "malformed"}
    /\ End(SQL_INVALID_STMT, FALSE)
    /\ UNCHANGED <<list, cancelConn>>
-----------------------------------------------------------------------------
(* CONNECT, DISCONNECT, SET CONNECTION *)

ExecConnect ==
    /\ pc = "parse" /\ cmd.op = "connect"
    /\ \/ Named(ConnectName(cmd.name)) # {}
          /\ End(SQL_NAME_ALREADY_USE, FALSE) /\ UNCHANGED list
       \/ Named(ConnectName(cmd.name)) = {}
          /\ End(SQL_CONNECTION_BAD, FALSE) /\ UNCHANGED list
       \/ Connect(Unused, ConnectName(cmd.name)) /\ End(SQL_OK, TRUE)
    /\ UNCHANGED cancelConn

ExecSetConnection ==
    /\ pc = "parse" /\ cmd.op = "set"
    /\ \/ open = {} /\ End(SQL_DB_NOT_OPEN, FALSE) /\ UNCHANGED list
       \/ open # {} /\ Named(ConnectName(cmd.name)) = {}
          /\ End(SQL_NAME_NOT_FOUND, FALSE) /\ UNCHANGED list
       \/ \E c \in Named(ConnectName(cmd.name)) : SetConnection(c) /\ End(SQL_OK, TRUE)
    /\ UNCHANGED cancelConn

NamedToClose == IF cmd.name = "CURRENT" THEN {current} \ {NULL}
                ELSE Named(ConnectName(cmd.name))

ExecDisconnect ==
    /\ pc = "parse" /\ cmd.op = "disconnect"
    /\ \/ (open = {} \/ (cmd.name = "CURRENT" /\ current = NULL))
          /\ End(SQL_DB_NOT_OPEN, FALSE) /\ UNCHANGED list
       \/ open # {} /\ cmd.name # "CURRENT" /\ NamedToClose = {}
          /\ End(SQL_NAME_NOT_FOUND, FALSE) /\ UNCHANGED list
       \/ (\E c \in NamedToClose : Close(c)) /\ pc' = "closed"
          /\ UNCHANGED <<signal, shell, sqlca, cmd, dbset, work, good, silent, was>>
    /\ UNCHANGED cancelConn

(* Once it is closed the oldest of the others is made current. *)
OldestIsCurrent ==
    /\ pc = "closed"
    /\ \/ open = {} /\ UNCHANGED list
       \/ open # {} /\ SetConnection(Oldest(open))
    /\ End(SQL_OK, TRUE)
    /\ UNCHANGED cancelConn

(* DISCONNECT ALL frees the oldest connection, and the current one becomes  *)
(* NULL when its turn comes.                                                *)
FreeOldest ==
    /\ pc = "free" /\ CloseOldest
    /\ UNCHANGED <<cancelConn, signal, shell, sqlca, frame>>

AllFreed ==
    /\ pc = "free" /\ open = {}
    /\ End(SQL_OK, TRUE)
    /\ UNCHANGED <<list, cancelConn>>
-----------------------------------------------------------------------------
(* A query (or -i alone) reaches its connection *)

WantsConnection == cmd.op \in SqlOp \cup {"cgi"}

AutoConnect ==
    /\ pc = "parse" /\ WantsConnection /\ open = {}
    /\ \/ Connect(Unused, DEFAULT_VALUE)
          /\ UNCHANGED <<signal, shell, sqlca, frame>>
       \/ End(SQL_CONNECTION_BAD, FALSE) /\ UNCHANGED list
    /\ UNCHANGED cancelConn

MutNoCancelConn ==       \* cancelConn = pset.dbset->db is missing
    /\ pc = "parse" /\ WantsConnection /\ open # {} /\ current # NULL
    /\ dbset' = current /\ pc' = "current"
    /\ UNCHANGED <<list, cancelConn, signal, shell, sqlca, cmd, work, good, silent, was>>

TakeCurrent ==
    /\ pc = "parse" /\ WantsConnection /\ open # {} /\ current # NULL
    /\ dbset' = current /\ cancelConn' = current /\ pc' = "current"
    /\ UNCHANGED <<list, signal, shell, sqlca, cmd, work, good, silent, was>>

NoCurrent ==
    /\ pc = "parse" /\ WantsConnection /\ open # {} /\ current = NULL
    /\ End(SQL_CONNECT_ERROR, FALSE)
    /\ UNCHANGED <<list, cancelConn>>

(* -d: exec_set_connection makes the named connection current, and then the *)
(* saved one is put back.                                                   *)
Switch ==
    /\ pc = "current" /\ cmd.d # None
    /\ \E c \in Named(SwitchName(cmd.d)) : SetConnection(c) /\ dbset' = c
    /\ work' = current /\ pc' = "switched"
    /\ UNCHANGED <<cancelConn, signal, shell, sqlca, cmd, good, silent, was>>

SwitchFails ==
    /\ pc = "current" /\ cmd.d # None /\ Named(SwitchName(cmd.d)) = {}
    /\ End(SQL_NAME_NOT_FOUND, FALSE)
    /\ UNCHANGED <<list, cancelConn>>

MutStaysSwitched ==      \* psconninfo.currentp = work is missing
    /\ pc = "switched"
    /\ cancelConn' = dbset /\ pc' = "ready"
    /\ UNCHANGED <<list, signal, shell, sqlca, cmd, dbset, work, good, silent, was>>

MutBackBeforeUse ==      \* pset.dbset taken after currentp is put back
    /\ pc = "switched"
    /\ current' = work /\ dbset' = work /\ cancelConn' = work /\ pc' = "ready"
    /\ UNCHANGED <<open, name, signal, shell, sqlca, cmd, work, good, silent, was>>

MutSavedTooEarly ==      \* work is saved before the automatic CONNECT
    /\ pc = "switched"
    /\ current' = was /\ cancelConn' = dbset /\ pc' = "ready"
    /\ UNCHANGED <<open, name, signal, shell, sqlca, cmd, dbset, work, good, silent, was>>

SwitchBack ==
    /\ pc = "switched"
    /\ current' = work /\ cancelConn' = dbset /\ pc' = "ready"
    /\ UNCHANGED <<open, name, signal, shell, sqlca, cmd, dbset, work, good, silent, was>>

NoSwitch ==
    /\ pc = "current" /\ cmd.d = None /\ pc' = "ready"
    /\ UNCHANGED <<list, cancelConn, signal, shell, sqlca, cmd, dbset, work, good, silent, was>>

(* -i without a query runs into syntax_error with SQLCA still clear. *)
NothingToSend ==
    /\ pc = "ready" /\ cmd.op = "cgi"
    /\ End(sqlca, FALSE)
    /\ UNCHANGED <<list, cancelConn>>
-----------------------------------------------------------------------------
(* SendQuery and lo_exec *)

Send ==
    /\ pc = "ready" /\ cmd.op \in SqlOp
    /\ pc' = IF cmd.x THEN "lo" ELSE "sent"
    /\ UNCHANGED <<list, cancelConn, signal, shell, sqlca, cmd, dbset, work, good, silent, was>>

MutLoKeepsCode ==        \* no setSQLCA when a statement of lo_exec fails
    /\ pc = "lo" /\ pc' = "done"
    /\ \/ good' = TRUE /\ sqlca' \in {SQL_OK, SQL_CONNECTION_BAD} /\ UNCHANGED silent
       \/ good' = FALSE /\ sqlca' = sqlca /\ UNCHANGED silent
       \/ BigOids /\ good' = FALSE /\ sqlca' \in {SQL_OK, SQL_CONNECTION_BAD}
          /\ silent' = "bigOid"
    /\ UNCHANGED <<list, cancelConn, signal, shell, cmd, dbset, work, was>>

(* lo_exec returns: success, possibly with the code of a NOTIFY, a failure  *)
(* with its code, or an import that is committed but whose OID, negative as *)
(* an int, is taken for a failure.                                          *)
LoExec ==
    /\ pc = "lo" /\ pc' = "done"
    /\ \/ good' = TRUE /\ sqlca' \in {SQL_OK, SQL_CONNECTION_BAD} /\ UNCHANGED silent
       \/ good' = FALSE /\ sqlca' \in {e.code : e \in Errors} \cup {SQL_CONNECTION_BAD}
          /\ UNCHANGED silent
       \/ BigOids /\ good' = FALSE /\ sqlca' \in {SQL_OK, SQL_CONNECTION_BAD}
          /\ silent' = "bigOid"
    /\ UNCHANGED <<list, cancelConn, signal, shell, cmd, dbset, work, was>>

(* It returns -1 for a program or parameters it does not know: these become *)
(* the query.                                                               *)
LoUnknown ==
    /\ pc = "lo" /\ pc' = "sent"
    /\ UNCHANGED <<list, cancelConn, signal, shell, sqlca, cmd, dbset, work, good, silent, was>>

(* PQexec returns NULL: SendQuery returns at once. *)
NoResult ==
    /\ pc = "sent"
    /\ End(SQL_BAD_RESPONSE, FALSE)
    /\ UNCHANGED <<list, cancelConn>>

(* PQexec returns a result; END leaves SQLCA alone unless it fails. *)
Result(r) ==
    /\ pc = "sent" /\ r \in Answers(cmd.op) \cup Errors
    /\ sqlca' = IF cmd.op = "end" /\ r.good THEN sqlca ELSE r.code
    /\ good' = r.good /\ pc' = "done"
    /\ UNCHANGED <<list, cancelConn, signal, shell, cmd, dbset, work, silent, was>>

(* exec_fetchInto fails for a result without fields, and sets no code.      *)
NoFields ==
    /\ pc = "sent" /\ cmd.op = "into" /\ NoColumns
    /\ sqlca' = SQL_OK /\ good' = FALSE /\ silent' = "noFields" /\ pc' = "done"
    /\ UNCHANGED <<list, cancelConn, signal, shell, cmd, dbset, work, was>>

CopyBegins ==
    /\ pc = "sent" /\ cmd.op = "copy"
    /\ sqlca' = SQL_OK /\ pc' = "copy"
    /\ UNCHANGED <<list, cancelConn, signal, shell, cmd, dbset, work, good, silent, was>>

CopyEnds(ok) ==
    /\ pc = "copy"
    /\ good' = ok /\ pc' = "done"
    /\ sqlca' = IF ok THEN sqlca ELSE SQL_INVALID_DATA
    /\ UNCHANGED <<list, cancelConn, signal, shell, cmd, dbset, work, silent, was>>

(* A field that is no number, for a host variable that is an integer: the   *)
(* shell's arithmetic jumps to the reader's loop, past all that             *)
(* exec_sql_main does at its end.                                           *)
NumberJump ==
    /\ pc = "sent" /\ cmd.op = "into" /\ IntegerHosts
    /\ pc' = "idle" /\ cmd' = NoCommand /\ dbset' = NULL /\ work' = NULL
    /\ good' = TRUE /\ silent' = None /\ was' = NULL
    /\ status' = IF status = 0 THEN 1 ELSE status
    /\ sqlca' = SQL_OK /\ jumped' = TRUE
    /\ UNCHANGED <<list, cancelConn, cancelled, intr, trap, SQLCODE>>

(* The backend has gone: exit(2) of the whole shell. *)
ConnectionLost ==
    /\ pc \in {"sent", "copy", "lo"}
    /\ pc' = "exited" /\ sqlca' = SQL_CONNECTION_BAD
    /\ UNCHANGED <<list, cancelConn, signal, shell, cmd, dbset, work, good, silent, was>>

(* A NOTIFY that has arrived replaces SQLCA, but not success. *)
Notified ==
    /\ pc = "done" /\ sqlca' = SQL_CONNECTION_BAD
    /\ UNCHANGED <<list, cancelConn, signal, shell, frame>>

QueryDone ==
    /\ pc = "done"
    /\ End(sqlca, good)
    /\ UNCHANGED <<list, cancelConn>>
-----------------------------------------------------------------------------
MutHandlerStays ==       \* the jump ends behind signal(SIGINT, SIG_DFL)
    /\ intr = "cancel" /\ pc \notin {"idle", "exited"}
    /\ pc' = "idle" /\ cmd' = NoCommand /\ dbset' = NULL /\ work' = NULL
    /\ good' = TRUE /\ silent' = None /\ was' = NULL /\ status' = 0
    /\ cancelled' = IF cancelConn = NULL THEN cancelled ELSE cancelConn
    /\ UNCHANGED <<list, cancelConn, intr, trap, jumped, SQLCODE, sqlca>>

(* handle_sigint: a cancel request goes to cancelConn, whatever has become  *)
(* of it, and exec_sql_main returns 0.                                      *)
Interrupt ==
    /\ intr = "cancel" /\ pc \notin {"idle", "exited"}
    /\ pc' = "idle" /\ cmd' = NoCommand /\ dbset' = NULL /\ work' = NULL
    /\ good' = TRUE /\ silent' = None /\ was' = NULL /\ intr' = "default" /\ status' = 0
    /\ cancelled' = IF cancelConn = NULL THEN cancelled ELSE cancelConn
    /\ UNCHANGED <<list, cancelConn, trap, jumped, SQLCODE, sqlca>>

(* A jump has left handle_sigint behind: siglongjmp goes to a frame that    *)
(* has returned, and nothing is said of the shell from there on.            *)
DeadFrame ==
    /\ pc = "idle" /\ intr = "cancel"
    /\ pc' = "exited"
    /\ UNCHANGED <<list, cancelConn, signal, shell, sqlca, cmd, dbset, work, good, silent, was>>

Step ==
    \/ OptionEnd \/ SyntaxError
    \/ ExecConnect \/ ExecSetConnection \/ ExecDisconnect \/ OldestIsCurrent
    \/ FreeOldest \/ AllFreed
    \/ AutoConnect \/ TakeCurrent \/ NoCurrent
    \/ Switch \/ SwitchFails \/ SwitchBack \/ NoSwitch
    \/ NothingToSend \/ Send \/ LoExec \/ LoUnknown
    \/ NoResult \/ NumberJump \/ (\E r \in Answers(cmd.op) \cup Errors : Result(r))
    \/ NoFields \/ CopyBegins \/ (\E ok \in BOOLEAN : CopyEnds(ok))
    \/ ConnectionLost \/ Notified \/ QueryDone

Next ==
    \/ \E h \in Handler : SetTrap(h)
    \/ ReadCommand
    \/ \E c \in Command : Begin(c)
    \/ Step
    \/ Interrupt \/ DeadFrame

Spec == Init /\ [][Next]_vars

-----------------------------------------------------------------------------
Codes == {SQL_OK, SQL_NOT_FOUND, SQL_SYSTEM_ERROR, SQL_TOO_MANY_ARGUMENTS,
          SQL_TOO_FEW_ARGUMENTS, SQL_CONNECT_ERROR, SQL_INVALID_STMT, SQL_DB_NOT_OPEN,
          SQL_NAME_NOT_FOUND, SQL_NAME_ALREADY_USE, SQL_INVALID_DATA, SQL_BAD_RESPONSE,
          SQL_EMPTY_QUERY, SQL_CONNECTION_BAD, SQL_FATAL_ERROR, SQL_NONFATAL_ERROR}

(* Type correctness; the current connection is one that is open. *)
TypeOK ==
    /\ open \subseteq Conn /\ name \in [open -> Name] /\ current \in open \cup {NULL}
    /\ cancelConn \in Conn \cup {NULL} /\ cancelled \in Conn \cup {NULL}
    /\ trap \in Handler /\ intr \in Handler \cup {"cancel", "default"}
    /\ SQLCODE \in Codes /\ sqlca \in Codes /\ status \in {0, -1, 1} /\ jumped \in BOOLEAN
    /\ pc \in {"idle", "parse", "closed", "free", "current", "switched", "ready", "sent", "copy",
              "lo", "done", "exited"}
    /\ cmd \in Command \cup {NoCommand}
    /\ dbset \in Conn \cup {NULL} /\ work \in Conn \cup {NULL}
    /\ good \in BOOLEAN /\ silent \in {None, "bigOid", "noFields"} /\ was \in Conn \cup {NULL}

InQuery == pc \in {"ready", "sent", "copy", "lo", "done"}

(* handle_sigint jumps into exec_sql_main, so it must not be the handler of *)
(* SIGINT once exec_sql_main has returned, whichever of its exits it took.  *)
(* A jump out of exec_sql_main is no exit: it leaves the handler, until the *)
(* shell or the next command arranges another.                              *)
HandlerIsRemoved == pc = "idle" /\ ~jumped => intr # "cancel"

(* The inductive strengthening of the properties below: what each place of  *)
(* exec_sql_main knows of its command and of the query's connection. *)
ControlOK ==
    /\ pc \notin {"idle", "exited"} => cmd \in Command
    /\ pc \in {"closed", "free"} => cmd.op = "disconnect"
    /\ pc \in {"current", "switched", "ready"} => WantsConnection
    /\ pc \in {"sent", "copy", "lo", "done"} => cmd.op \in SqlOp
    /\ pc # "done" => good /\ silent = None
    /\ pc = "lo" => cmd.x
    /\ jumped => pc \in {"idle", "exited"} /\ IntegerHosts
    /\ ~good /\ silent = None => sqlca # SQL_OK
    /\ ~Interactive => intr # "cancel"
    /\ HandlerIsRemoved

PlaceOK ==
    /\ pc = "parse" => was \in {current, NULL}
    /\ pc = "current" =>
          dbset = current /\ current \in open /\ cancelConn = dbset /\ was \in {current, NULL}
    /\ pc = "switched" =>
          /\ dbset = current /\ current \in open /\ work \in open /\ was \in {work, NULL}
          /\ cmd.d # None /\ name[dbset] = SwitchName(cmd.d)
    /\ InQuery =>
          /\ dbset \in open /\ cancelConn = dbset /\ was \in {current, NULL}
          /\ cmd.d = None => dbset = current
          /\ cmd.d # None => name[dbset] = SwitchName(cmd.d)

SInv == TypeOK /\ ControlOK /\ PlaceOK

Running == pc \in {"sent", "copy", "lo"}

(* usage03: a query runs on the connection -d names, or else on the one     *)
(* that was current when it was given, and never on one that is closed.     *)
(* (A -d whose name is the beginning of DEFAULT means DEFAULT.)             *)
RunsWhereTold ==
    Running =>
        /\ dbset \in open
        /\ cmd.d = None => dbset = current /\ was \in {dbset, NULL}
        /\ cmd.d \notin Prefixes \cup {None} => name[dbset] = ConnectName(cmd.d)

QueryEnds == pc # "idle" /\ pc' = "idle" /\ cmd.op \in SqlOp /\ was # NULL

(* usage03: -d changes the connection for one command only; however the     *)
(* command ends, the connection that was current before is so again.        *)
SwitchIsTemporary == [][QueryEnds => current' = was]_vars

(* The same of every end but a Control-C between the two halves of -d: of   *)
(* every error, and of a Control-C anywhere else.                           *)
SwitchIsUndone ==
    [][QueryEnds /\ ~(Interrupt /\ pc = "switched") => current' = was]_vars

(* Control-C asks the backend that runs the query, -d or not, to cancel it. *)
CancelReachesQuery == [][Interrupt /\ Running => cancelled' = dbset]_vars

(* Whatever a command is, and wherever a Control-C cuts it, the connections *)
(* only ever change by the steps of ConnSpec, which ConnList implements.    *)
StepsOfConnections == StepSpec

(* exec_sql_main returns -1 for an error, and then SQLCODE says which.  Not *)
(* so -i without a query, which always fails; and there are three events    *)
(* that set no code: the OID of an import that was committed is no int,     *)
(* SELECT INTO meets a result without fields, or a field that is no number  *)
(* makes the shell jump past the end, with status 1.                        *)
FailureHasCode ==
    [][pc # "idle" /\ pc' = "idle" /\ status' # 0 =>
          \/ SQLCODE' # SQL_OK
          \/ cmd.op = "cgi" \/ silent # None \/ jumped']_vars
=============================================================================
