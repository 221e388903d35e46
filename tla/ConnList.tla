------------------------------ MODULE ConnList ------------------------------
(***************************************************************************)
(* sql_connect.c: the list of open database connections (psconninfo), and  *)
(* the statements CONNECT, DISCONNECT and SET CONNECTION that work on it.  *)
(*                                                                         *)
(* A PSconnList node, its PSconn and its PGconn are numbered together, in  *)
(* the order in which libpq returned the connection; addresses are never   *)
(* reused.  find_PSconnList and free_PSconnList walk the list one node per *)
(* step.  Where the code calls out (to the server, to free, to bash's      *)
(* variables) a step ends and a SIGINT may fall: an iteration that frees a *)
(* node is four steps, and moving currentp and binding POSTGRESQL_VERSION  *)
(* are two.  Plain assignments with no call between them are one step.     *)
(***************************************************************************)
EXTENDS Integers, FiniteSets

CONSTANTS Names,        \* the identifiers a user gives as connect names
          Versions,     \* the version numbers servers report
          MaxConn,      \* bound: how many connections are ever opened
          Interactive,  \* stdin and stdout are ttys: SIGINT is handled
          Fallible      \* "select version()" may come back with an error

DEFAULT_VALUE == "_DEFAULT_"
CURRENT_VALUE == "_CURRENT_"
ALL_VALUE     == "_ALL_"

SQL_OK               == 0
SQL_DB_NOT_OPEN      == -232
SQL_NAME_NOT_FOUND   == -233
SQL_NAME_ALREADY_USE == -234
SQL_CONNECTION_BAD   == -402

Node == 1 .. MaxConn
NULL == 0
Pointer == Node \cup {NULL}
NoName == ""             \* an absent or freed name
NoVersion == ""
LoginDb == "_LOGIN_"     \* the database libpq takes when dbname is NULL

ASSUME ConstAssumption ==
    /\ Names \subseteq STRING /\ NoName \notin Names
    /\ Versions \subseteq STRING /\ NoVersion \notin Versions
    /\ MaxConn \in Nat
    /\ Interactive \in BOOLEAN /\ Fallible \in BOOLEAN

Target == Names \cup {"DEFAULT"}
ConnName == Target \cup {DEFAULT_VALUE}
ConnectStmt    == [op : {"connect"}, target : Target, as : Names \cup {NoName}]
DisconnectStmt == [op : {"disconnect"}, name : Target \cup {"CURRENT", "ALL"}]
SetStmt        == [op : {"set"}, name : Target]
Stmt   == ConnectStmt \cup DisconnectStmt \cup SetStmt
NoStmt == [op |-> "none"]

(* parse_connect: DEFAULT is a keyword only when nothing follows it; the    *)
(* connect name is the AS name or, without one, the database's name.        *)
IsDefault(s) == s.target = "DEFAULT" /\ s.as = NoName
DbName(s) == IF IsDefault(s) THEN LoginDb ELSE s.target
ConnectName(s) ==
    IF IsDefault(s) THEN DEFAULT_VALUE
    ELSE IF s.as = NoName THEN s.target ELSE s.as

(* parse_disconnect and parse_set_connection: keywords become internal      *)
(* names, any other identifier is taken as it is, internal names included.  *)
DisconnectName(s) ==
    CASE s.name = "DEFAULT" -> DEFAULT_VALUE
      [] s.name = "CURRENT" -> CURRENT_VALUE
      [] s.name = "ALL"     -> ALL_VALUE
      [] OTHER              -> s.name
SetName(s) == IF s.name = "DEFAULT" THEN DEFAULT_VALUE ELSE s.name

VARIABLES
    alloc,      \* number of connections libpq has ever returned
    sessions,   \* PGconns not yet closed with PQfinish
    server,     \* server[n]: the version of the server behind PGconn n
    live,       \* PSconnList nodes that are allocated
    next, cname, ver_no,                      \* their fields
    maxno, firstp, lastp, currentp, defaultp, \* psconninfo
    verbuf,     \* the static buffer of getVersion
    POSTGRESQL_VERSION,                       \* the shell variable
    pc, stmt,   \* the statement being executed and where it is
    arg,        \* connect_name: the name the walk looks for
    pDBL, prev, \* the two pointers of the walk
    sqlcode     \* SQLCODE of the statement

extern == <<alloc, sessions, server>>
heap   == <<live, next, cname, ver_no>>
info   == <<maxno, firstp, lastp, currentp, defaultp>>
walk   == <<pc, stmt, arg, pDBL, prev, sqlcode>>
shell  == <<verbuf, POSTGRESQL_VERSION>>
vars   == <<extern, heap, info, shell, walk>>

Init ==
    /\ alloc = 0 /\ sessions = {} /\ live = {}
    /\ server = [n \in Node |-> NoVersion]
    /\ next = [n \in Node |-> NULL]
    /\ cname = [n \in Node |-> NoName]
    /\ ver_no = [n \in Node |-> NoVersion]
    /\ maxno = 0 /\ firstp = NULL /\ lastp = NULL
    /\ currentp = NULL /\ defaultp = NULL
    /\ verbuf = NoVersion /\ POSTGRESQL_VERSION = NoVersion
    /\ pc = "idle" /\ stmt = NoStmt
    /\ arg = NoName /\ pDBL = NULL /\ prev = NULL /\ sqlcode = SQL_OK

-----------------------------------------------------------------------------
(* The statement ends with SQLCODE code. *)
Finish(code) ==
    /\ pc' = "idle" /\ stmt' = NoStmt /\ arg' = NoName
    /\ pDBL' = NULL /\ prev' = NULL
    /\ sqlcode' = code

(* DISCONNECT and SET CONNECTION need a connection, DISCONNECT CURRENT a    *)
(* current one.                                                             *)
NoConnection(s) ==
    \/ s.op # "connect" /\ maxno = 0
    \/ s.op = "disconnect" /\ DisconnectName(s) = CURRENT_VALUE /\ currentp = NULL

IsCurrent(s) == s.op = "disconnect" /\ DisconnectName(s) = CURRENT_VALUE

SearchName(s) ==
    CASE s.op = "connect" -> ConnectName(s)
      [] s.op = "set"     -> SetName(s)
      [] IsCurrent(s)     -> cname[currentp]
      [] OTHER            -> DisconnectName(s)

(* A statement starts: it is refused at once, or it walks from firstp.      *)
Refuse(s) ==
    /\ pc = "idle"
    /\ NoConnection(s)
    /\ Finish(SQL_DB_NOT_OPEN)
    /\ UNCHANGED <<extern, heap, info, shell>>

MutStartAtSecond(s) ==   \* the search skips the first node
    /\ pc = "idle"
    /\ ~NoConnection(s)
    /\ s.op = "connect" => alloc < MaxConn
    /\ pc' = "walk" /\ stmt' = s /\ sqlcode' = SQL_OK
    /\ arg' = SearchName(s)
    /\ pDBL' = IF maxno = 0 THEN NULL ELSE next[firstp]
    /\ prev' = firstp
    /\ UNCHANGED <<extern, heap, info, shell>>

Start(s) ==
    /\ pc = "idle"
    /\ ~NoConnection(s)
    /\ s.op = "connect" => alloc < MaxConn
    /\ pc' = "walk" /\ stmt' = s /\ sqlcode' = SQL_OK
    /\ arg' = SearchName(s)
    /\ pDBL' = IF maxno = 0 THEN NULL ELSE firstp
    /\ prev' = firstp
    /\ UNCHANGED <<extern, heap, info, shell>>

(* free_PSconnList compares its argument with "_ALL_", whoever passed it.   *)
FreesAll == stmt.op = "disconnect" /\ arg = ALL_VALUE
Matches  == cname[pDBL] = arg \/ FreesAll

MutWalkStays ==      \* forgets pDBL = pDBL->next
    /\ pc = "walk" /\ pDBL # NULL /\ ~Matches
    /\ prev' = pDBL /\ pDBL' = pDBL
    /\ UNCHANGED <<extern, heap, info, shell, pc, stmt, arg, sqlcode>>

(* The walk goes on to the next node. *)
Walk ==
    /\ pc = "walk" /\ pDBL # NULL /\ ~Matches
    /\ prev' = pDBL /\ pDBL' = next[pDBL]
    /\ UNCHANGED <<extern, heap, info, shell, pc, stmt, arg, sqlcode>>
-----------------------------------------------------------------------------
(* exec_connect *)

NameUsed ==
    /\ pc = "walk" /\ stmt.op = "connect" /\ pDBL # NULL /\ Matches
    /\ Finish(SQL_NAME_ALREADY_USE)
    /\ UNCHANGED <<extern, heap, info, shell>>

NameFree ==
    /\ pc = "walk" /\ stmt.op = "connect" /\ pDBL = NULL
    /\ pc' = "connect"
    /\ UNCHANGED <<extern, heap, info, shell, stmt, arg, pDBL, prev, sqlcode>>

(* PQsetdb or PQsetdbLogin returns. *)
ConnectFails ==
    /\ pc = "connect"
    /\ Finish(SQL_CONNECTION_BAD)
    /\ UNCHANGED <<extern, heap, info, shell>>

ConnectReturns(v) ==
    /\ pc = "connect"
    /\ alloc' = alloc + 1
    /\ sessions' = sessions \cup {alloc + 1}
    /\ server' = [server EXCEPT ![alloc + 1] = v]
    /\ pc' = "version"
    /\ UNCHANGED <<heap, info, shell, stmt, arg, pDBL, prev, sqlcode>>

MutRing(n, ver) ==       \* the new node's next is firstp
    /\ live' = live \cup {n}
    /\ next' = IF firstp = NULL THEN [next EXCEPT ![n] = NULL]
               ELSE [next EXCEPT ![n] = firstp, ![lastp] = n]
    /\ cname' = [cname EXCEPT ![n] = arg]
    /\ ver_no' = [ver_no EXCEPT ![n] = ver]
    /\ maxno' = IF firstp = NULL THEN 1 ELSE maxno + 1
    /\ firstp' = IF firstp = NULL THEN n ELSE firstp
    /\ lastp' = n
    /\ currentp' = n
    /\ defaultp' = IF firstp = NULL THEN n ELSE defaultp

(* bind_PSconnList appends the new node.  Its own search for the name finds *)
(* nothing: the list has not changed since NameFree.  The target name it is *)
(* given always has a colon, so it is never DEFAULT_VALUE.                  *)
BindPSconnList(n, ver) ==
    /\ live' = live \cup {n}
    /\ next' = IF firstp = NULL THEN [next EXCEPT ![n] = NULL]
               ELSE [next EXCEPT ![n] = NULL, ![lastp] = n]
    /\ cname' = [cname EXCEPT ![n] = arg]
    /\ ver_no' = [ver_no EXCEPT ![n] = ver]
    /\ maxno' = IF firstp = NULL THEN 1 ELSE maxno + 1
    /\ firstp' = IF firstp = NULL THEN n ELSE firstp
    /\ lastp' = n
    /\ currentp' = n
    /\ defaultp' = IF firstp = NULL THEN n ELSE defaultp

(* getVersion returns: an error leaves its static buffer as it was.         *)
VersionReturns(answered) ==
    /\ pc = "version"
    /\ verbuf' = IF answered THEN server[alloc] ELSE verbuf
    /\ pc' = "newversion"
    /\ UNCHANGED <<extern, heap, info, POSTGRESQL_VERSION, stmt, arg, pDBL, prev, sqlcode>>

(* Only a version that has a digit is bound to the shell variable. *)
BindNewVersion ==
    /\ pc = "newversion"
    /\ POSTGRESQL_VERSION' = IF verbuf = NoVersion THEN POSTGRESQL_VERSION ELSE verbuf
    /\ pc' = "bind"
    /\ UNCHANGED <<extern, heap, info, verbuf, stmt, arg, pDBL, prev, sqlcode>>

Connected ==
    /\ pc = "bind"
    /\ BindPSconnList(alloc, verbuf)
    /\ Finish(SQL_OK)
    /\ UNCHANGED <<extern, shell>>
-----------------------------------------------------------------------------
(* exec_set_connection *)

SetCurrent ==
    /\ pc = "walk" /\ stmt.op = "set" /\ pDBL # NULL /\ Matches
    /\ currentp' = pDBL
    /\ pc' = "setversion"
    /\ UNCHANGED <<extern, heap, maxno, firstp, lastp, defaultp, shell,
                   stmt, arg, pDBL, prev, sqlcode>>

MutSetKeepsVersion ==    \* SET CONNECTION does not bind POSTGRESQL_VERSION
    /\ pc = "setversion"
    /\ POSTGRESQL_VERSION' = IF stmt.op = "set" THEN POSTGRESQL_VERSION ELSE ver_no[currentp]
    /\ Finish(SQL_OK)
    /\ UNCHANGED <<extern, heap, info, verbuf>>

(* What exec_set_connection and exec_disconnect do behind a new currentp.   *)
SetVersion ==
    /\ pc = "setversion"
    /\ POSTGRESQL_VERSION' = ver_no[currentp]
    /\ Finish(SQL_OK)
    /\ UNCHANGED <<extern, heap, info, verbuf>>

MutNotFoundIsOk ==       \* setSQLCA is missing
    /\ pc = "walk" /\ stmt.op \in {"set", "disconnect"} /\ pDBL = NULL /\ ~FreesAll
    /\ Finish(SQL_OK)
    /\ UNCHANGED <<extern, heap, info, shell>>

NameNotFound ==
    /\ pc = "walk" /\ stmt.op \in {"set", "disconnect"} /\ pDBL = NULL /\ ~FreesAll
    /\ Finish(SQL_NAME_NOT_FOUND)
    /\ UNCHANGED <<extern, heap, info, shell>>
-----------------------------------------------------------------------------
(* exec_disconnect and free_PSconnList *)

(* One iteration of free_PSconnList that frees the node pDBL, call by call: *)
(* its names are freed,                                                     *)
FreeNames ==
    /\ pc = "walk" /\ stmt.op = "disconnect" /\ pDBL # NULL /\ Matches
    /\ cname' = [cname EXCEPT ![pDBL] = NoName]
    /\ pc' = "finish"
    /\ UNCHANGED <<extern, live, next, ver_no, info, shell, stmt, arg, pDBL, prev, sqlcode>>

(* PQfinish closes its session and its dbset is freed,                      *)
FinishConn ==
    /\ pc = "finish"
    /\ sessions' = sessions \ {pDBL}
    /\ ver_no' = [ver_no EXCEPT ![pDBL] = NoVersion]
    /\ pc' = "unlink"
    /\ UNCHANGED <<alloc, server, live, next, cname, info, shell, stmt, arg, pDBL, prev, sqlcode>>

MutCurrentStays(d) == currentp     \* currentp is not cleared

CurrentAfter(d) == IF maxno = 1 \/ d = currentp THEN NULL ELSE currentp

MutLastStays(d) ==       \* lastp is not moved back
    /\ live' = live \ {d}
    /\ next' = IF maxno # 1 /\ d # prev THEN [next EXCEPT ![prev] = next[d]] ELSE next
    /\ firstp' = IF maxno = 1 THEN NULL ELSE IF d = firstp THEN next[d] ELSE firstp
    /\ lastp' = IF maxno = 1 THEN NULL ELSE lastp
    /\ defaultp' = IF maxno = 1 \/ d = defaultp THEN NULL ELSE defaultp
    /\ currentp' = CurrentAfter(d)

(* the pointers are moved past it (with ALL, prev is a node that an earlier *)
(* iteration freed),                                                        *)
Unlink(d) ==
    /\ live' = live \ {d}
    /\ next' = IF maxno # 1 /\ d # prev THEN [next EXCEPT ![prev] = next[d]] ELSE next
    /\ firstp' = IF maxno = 1 THEN NULL ELSE IF d = firstp THEN next[d] ELSE firstp
    /\ lastp' = IF maxno = 1 THEN NULL ELSE IF d = lastp THEN prev ELSE lastp
    /\ defaultp' = IF maxno = 1 \/ d = defaultp THEN NULL ELSE defaultp
    /\ currentp' = CurrentAfter(d)

MovePointers ==
    /\ pc = "unlink"
    /\ Unlink(pDBL)
    /\ pc' = "count"
    /\ UNCHANGED <<extern, cname, ver_no, maxno, shell, stmt, arg, pDBL, prev, sqlcode>>

(* and it is freed itself and counted out.  DISCONNECT CURRENT passes the   *)
(* node's own connect_name, so that from the current node on the test that  *)
(* ends the walk reads a freed string: "_ALL_" may or may not still stand   *)
(* there.                                                                   *)
NameIsFreed == IsCurrent(stmt) /\ currentp = NULL

FreeAndReturn ==
    /\ pc = "count" /\ (FreesAll => NameIsFreed)
    /\ maxno' = maxno - 1
    /\ next' = [next EXCEPT ![pDBL] = NULL]
    /\ pc' = "return"
    /\ UNCHANGED <<extern, live, cname, ver_no, firstp, lastp, currentp, defaultp, shell,
                   stmt, arg, pDBL, prev, sqlcode>>

FreeAndGoOn ==
    /\ pc = "count" /\ FreesAll
    /\ maxno' = maxno - 1
    /\ next' = [next EXCEPT ![pDBL] = NULL]
    /\ prev' = pDBL /\ pDBL' = next[pDBL]
    /\ pc' = "walk"
    /\ UNCHANGED <<extern, live, cname, ver_no, firstp, lastp, currentp, defaultp, shell,
                   stmt, arg, sqlcode>>

MutNoNewCurrent ==       \* currentp = firstp is missing
    /\ pc = "return"
    /\ Finish(SQL_OK)
    /\ UNCHANGED <<extern, heap, info, shell>>

MutLastIsCurrent ==      \* takes lastp for firstp
    /\ pc = "return"
    /\ \/ maxno > 0 /\ currentp' = lastp /\ pc' = "setversion"
          /\ UNCHANGED <<stmt, arg, pDBL, prev, sqlcode>>
       \/ maxno = 0 /\ Finish(SQL_OK) /\ UNCHANGED currentp
    /\ UNCHANGED <<extern, heap, maxno, firstp, lastp, defaultp, shell>>

(* What exec_disconnect does once free_PSconnList has freed a connection:   *)
(* the first of those that remain becomes current.                          *)
FirstIsCurrent ==
    /\ pc = "return"
    /\ \/ maxno > 0 /\ currentp' = firstp /\ pc' = "setversion"
          /\ UNCHANGED <<stmt, arg, pDBL, prev, sqlcode>>
       \/ maxno = 0 /\ Finish(SQL_OK) /\ UNCHANGED currentp
    /\ UNCHANGED <<extern, heap, maxno, firstp, lastp, defaultp, shell>>

MutCountsAgain ==        \* maxno-- once more after the loop
    /\ pc = "walk" /\ pDBL = NULL /\ FreesAll
    /\ POSTGRESQL_VERSION' = IF IsCurrent(stmt) THEN POSTGRESQL_VERSION ELSE NoVersion
    /\ Finish(SQL_OK)
    /\ maxno' = maxno - 1
    /\ UNCHANGED <<extern, heap, firstp, lastp, currentp, defaultp, verbuf>>

AllFreed ==
    /\ pc = "walk" /\ pDBL = NULL /\ FreesAll
    /\ POSTGRESQL_VERSION' = IF IsCurrent(stmt) THEN POSTGRESQL_VERSION ELSE NoVersion
    /\ Finish(SQL_OK)
    /\ UNCHANGED <<extern, heap, info, verbuf>>
-----------------------------------------------------------------------------
(* handle_sigint: exec_sql_main returns 0 and SQLCODE keeps the 0 that was  *)
(* bound before the statement began.                                        *)
InPieces == pc \in {"finish", "unlink", "count", "torn"}

Interrupt ==
    /\ Interactive /\ pc # "idle" /\ ~InPieces
    /\ Finish(SQL_OK)
    /\ UNCHANGED <<extern, heap, info, shell>>

(* The same while free_PSconnList has a node in pieces: the node stays in   *)
(* the list without its names, also without its PGconn, or maxno counts it  *)
(* though it has gone.  What the next statement makes of that list reads    *)
(* freed memory or a count that is wrong, and nothing is said of it.        *)
Tear ==
    /\ Interactive /\ InPieces /\ pc # "torn"
    /\ pc' = "torn"
    /\ UNCHANGED <<extern, heap, info, shell, stmt, arg, pDBL, prev, sqlcode>>

Step ==
    \/ Walk \/ NameUsed \/ NameFree \/ ConnectFails
    \/ \E v \in Versions : ConnectReturns(v)
    \/ \E answered \in {TRUE, ~Fallible} : VersionReturns(answered)
    \/ BindNewVersion \/ Connected
    \/ SetCurrent \/ NameNotFound
    \/ FreeNames \/ FinishConn \/ MovePointers \/ FreeAndReturn \/ FreeAndGoOn
    \/ FirstIsCurrent \/ SetVersion \/ AllFreed

Next ==
    \/ \E s \in Stmt : Refuse(s) \/ Start(s)
    \/ Step
    \/ Interrupt \/ Tear

(* A statement that has begun keeps running: exec_sql_main does not stop of *)
(* its own accord, and libpq's calls return.                                *)
Spec == Init /\ [][Next]_vars /\ WF_vars(Step)

-----------------------------------------------------------------------------
(* Type correctness of psconninfo, the nodes and the locals of the walk.    *)
TypeOK ==
    /\ alloc \in 0 .. MaxConn
    /\ sessions \subseteq Node /\ live \subseteq Node
    /\ server \in [Node -> Versions \cup {NoVersion}]
    /\ next \in [Node -> Pointer]
    /\ cname \in [Node -> ConnName \cup {NoName}]
    /\ ver_no \in [Node -> Versions \cup {NoVersion}]
    /\ maxno \in 0 .. MaxConn
    /\ firstp \in Pointer /\ lastp \in Pointer
    /\ currentp \in Pointer /\ defaultp \in Pointer
    /\ verbuf \in Versions \cup {NoVersion}
    /\ POSTGRESQL_VERSION \in Versions \cup {NoVersion}
    /\ pc \in {"idle", "walk", "connect", "version", "newversion", "bind", "setversion",
              "finish", "unlink", "count", "return", "torn"}
    /\ stmt \in Stmt \cup {NoStmt}
    /\ arg \in ConnName \cup {NoName, ALL_VALUE}
    /\ pDBL \in Pointer /\ prev \in Pointer
    /\ sqlcode \in {SQL_OK, SQL_DB_NOT_OPEN, SQL_NAME_NOT_FOUND,
                    SQL_NAME_ALREADY_USE, SQL_CONNECTION_BAD}

(* The node free_PSconnList has in pieces. *)
Half == IF InPieces THEN {pDBL} ELSE {}

(* The nodes in use are exactly the list: firstp leads, through every one   *)
(* of them in the order of connection, to lastp, and maxno counts them (and *)
(* one that is unlinked and not yet counted out).  It holds between any two *)
(* calls of free_PSconnList, also while DISCONNECT ALL is half way and      *)
(* wherever a Control-C falls.                                              *)
Linked ==
    /\ live = {} => firstp = NULL /\ lastp = NULL
    /\ live # {} => firstp \in live /\ lastp \in live
    /\ \A n \in live : firstp <= n /\ n <= lastp
    /\ \A n \in live \ {lastp} :
          /\ next[n] \in live /\ n < next[n]
          /\ \A m \in live : n < m => next[n] <= m
    /\ live # {} => next[lastp] = NULL
ListOK == Linked /\ maxno = Cardinality(live \cup Half)

(* currentp and defaultp never point to a node that is not in the list, and *)
(* every listed connection still has its PGconn and its name, but for the   *)
(* one that is being freed: what runs SQL never uses freed memory, unless a *)
(* Control-C has torn just that connection's DISCONNECT.                    *)
NoDangling ==
    /\ currentp \in live \cup {NULL} /\ defaultp \in live \cup {NULL}
    /\ live \ Half \subseteq sessions
    /\ \A n \in live \ Half : cname[n] # NoName

(* exec_connect: no two open connections carry the same connect name.       *)
DistinctNames == \A m, n \in live : cname[m] = cname[n] => m = n

(* Between statements some connection is current whenever one is open, and  *)
(* the server holds no session that is not in the list.                     *)
CurrentExists == pc = "idle" => (live # {} => currentp \in live) /\ sessions = live

(* usage07: POSTGRESQL_VERSION is the version of the server connected to,   *)
(* through every change of the current connection.                          *)
VersionOfCurrent ==
    pc = "idle" /\ currentp # NULL => POSTGRESQL_VERSION = server[currentp]

(* The inductive strengthening of the invariants above: what the walk of    *)
(* free_PSconnList and find_PSconnList knows at each iteration (the nodes   *)
(* before pDBL have been looked at, or freed) and that connections are      *)
(* numbered in the order of the list.                                       *)
WalkOK ==
    /\ pc # "idle" => stmt \in Stmt
    /\ pc \in {"connect", "version", "newversion", "bind"} => stmt.op = "connect"
    /\ pc = "return" \/ InPieces => stmt.op = "disconnect"
    /\ pc = "setversion" => stmt.op \in {"set", "disconnect"} /\ currentp # NULL
    /\ pc # "idle" /\ stmt.op = "connect" =>
          /\ arg = ConnectName(stmt)
          /\ pc \in {"walk", "connect"} => alloc < MaxConn
          /\ \A n \in live : (pc = "walk" /\ pDBL # NULL => n < pDBL) => cname[n] # arg
    /\ pc # "idle" /\ stmt.op = "set" =>
          arg = SetName(stmt) /\ (pc = "setversion" => cname[currentp] = arg)
    /\ pc # "idle" /\ stmt.op = "disconnect" /\ ~IsCurrent(stmt) => arg = DisconnectName(stmt)
    /\ pc # "idle" /\ IsCurrent(stmt) =>
          /\ arg \in ConnName
          /\ pc \in {"return", "setversion"} \/ currentp \in Half \cup {NULL}
                => \A n \in live \ Half : cname[n] # arg
          /\ pc \notin {"return", "setversion"} /\ currentp \notin Half \cup {NULL}
                => cname[currentp] = arg
    /\ pc = "walk" =>
          /\ pDBL \in live \cup {NULL}
          /\ pDBL # NULL => prev # NULL
          /\ FreesAll => pDBL = firstp
    /\ pc \in {"finish", "unlink"} =>
          /\ pDBL \in live /\ cname[pDBL] = NoName
          /\ prev # NULL
          /\ FreesAll => pDBL = firstp
    /\ pc \in {"walk", "finish", "unlink"} =>
          /\ pDBL \notin {NULL, firstp} => prev \in live /\ next[prev] = pDBL
          /\ pDBL = firstp => prev = firstp \/ prev \notin live
    /\ pc = "walk" /\ ~FreesAll => \A n \in live : (pDBL # NULL => n < pDBL) => cname[n] # arg
    /\ InPieces => pDBL # NULL
    /\ pc \in {"count", "return"} => pDBL \notin live
    /\ pc = "count" /\ FreesAll => next[pDBL] = firstp /\ \A n \in live : pDBL < n
    /\ pc \in {"finish", "unlink", "count", "return", "setversion"} /\ stmt.op = "disconnect" =>
          /\ ~FreesAll => \A n \in live \ Half : cname[n] # arg
          /\ pc \in {"return", "setversion"} => (FreesAll => IsCurrent(stmt))

OrderOK ==
    /\ live \subseteq 1 .. alloc /\ sessions \subseteq 1 .. alloc
    /\ pc \in {"version", "newversion", "bind"} => alloc \in sessions \ live

CurrentOK ==
    /\ \A n \in sessions : server[n] # NoVersion
    /\ ~Interactive =>
          /\ pc # "torn"
          /\ sessions = (live \ (IF pc = "unlink" THEN Half ELSE {}))
                        \cup (IF pc \in {"version", "newversion", "bind"} THEN {alloc} ELSE {})
          /\ currentp = NULL => live = {} \/ pc \in {"count", "return"}
                                \/ (FreesAll /\ pc \in {"walk", "finish", "unlink"})
    /\ ~Fallible =>
          /\ \A n \in live \ Half : ver_no[n] = server[n]
          /\ pc \in {"newversion", "bind"} => verbuf = server[alloc]
    /\ ~Interactive /\ ~Fallible /\ pc \notin {"bind", "setversion"} /\ currentp # NULL =>
          POSTGRESQL_VERSION = server[currentp]
    /\ ~Interactive /\ ~Fallible /\ pc = "bind" => POSTGRESQL_VERSION = server[alloc]

IInv == TypeOK /\ ListOK /\ NoDangling /\ DistinctNames /\ WalkOK /\ OrderOK /\ CurrentOK

(* The abstract connections.  DISCONNECT ALL takes effect when its walk     *)
(* begins, DISCONNECT of one with the choice of the next current one, and   *)
(* until then pDBL counts as open, under the name it was looked for; every  *)
(* other statement takes effect with the step that moves currentp.          *)
Named == {n \in live : cname[n] # NoName}
FreeingAll == FreesAll /\ pc \in {"walk", "finish", "unlink", "count"}
FreeingOne == ~FreesAll /\ pc \in {"finish", "unlink", "count", "return"}

AbsOpen == IF FreeingAll THEN {} ELSE IF FreeingOne THEN Named \cup {pDBL} ELSE Named
AbsName == [n \in AbsOpen |-> IF FreeingOne /\ n = pDBL THEN arg ELSE cname[n]]
AbsCurrent ==
    IF FreeingAll THEN NULL
    ELSE IF FreeingOne /\ currentp = NULL THEN pDBL ELSE currentp
CS == INSTANCE ConnSpec WITH
        Conn <- Node, Name <- ConnName,
        open <- AbsOpen,
        name <- AbsName,
        current <- AbsCurrent

(* The list of sql_connect.c implements the abstract set of connections.    *)
ImplementsConnSpec == CS!SpecSpec

(* The same without hiding the walk of free_PSconnList. *)
ST == INSTANCE ConnSpec WITH
        Conn <- Node, Name <- ConnName,
        open <- Named,
        name <- [n \in Named |-> cname[n]],
        current <- IF currentp \in Named THEN currentp ELSE NULL

(* For every name and with a Control-C between any two calls, the list      *)
(* changes as the abstract connections do: one connection opens, closes or  *)
(* becomes current at a time.  A connection whose closing was torn counts   *)
(* as closed.                                                               *)
ImplementsConnSteps == ST!StepSpec

(* A statement that ends with SQLCODE 0 has done what it says: CONNECT made *)
(* a connection of that name current, DISCONNECT left none of that name     *)
(* (CURRENT: none of the name the current one had), SET CONNECTION made the *)
(* named one current.                                                       *)
Achieved(s) ==
    CASE s.op = "connect"    -> currentp' \in live' /\ cname'[currentp'] = ConnectName(s)
      [] s.op = "set"        -> currentp' \in live' /\ cname'[currentp'] = SetName(s)
      [] s.op = "disconnect" ->
            /\ \A n \in live' : cname'[n] # arg
            /\ DisconnectName(s) = ALL_VALUE => live' = {}
SuccessMeansDone == [][pc # "idle" /\ pc' = "idle" /\ sqlcode' = SQL_OK => Achieved(stmt)]_vars

(* How many steps a statement may still take.  Nodes are numbered in the    *)
(* order of the list, so a walk at node n has at most the nodes behind n to *)
(* visit, whatever it has unlinked, and up to five steps at each.           *)
Ahead == IF pDBL = NULL THEN 0 ELSE MaxConn + 1 - pDBL
Remaining ==
    CASE pc = "walk"       -> 5 * Ahead + 5
      [] pc = "finish"     -> 5 * Ahead + 4
      [] pc = "unlink"     -> 5 * Ahead + 3
      [] pc = "count"      -> 5 * Ahead + 2
      [] pc = "connect"    -> 4
      [] pc = "version"    -> 3
      [] pc = "newversion" -> 2
      [] pc = "return"     -> 2
      [] pc = "bind"       -> 1
      [] pc = "setversion" -> 1
      [] OTHER             -> 0

(* Each step of a statement brings its end nearer: find_PSconnList and      *)
(* free_PSconnList never come back to a node, nor run along a chain of      *)
(* nodes that were freed.                                                   *)
WalkShrinks == [][pc \notin {"idle", "torn"} => Remaining' \in Nat /\ Remaining' < Remaining]_vars

(* The walk over the list ends, and so does every statement. *)
StatementEnds == pc # "idle" ~> pc = "idle"
=============================================================================
