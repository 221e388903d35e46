---------------------------- MODULE LargeObject ----------------------------
(***************************************************************************)
(* lo_exec in psql_sub.c: lo_import, lo_export and lo_unlink on one        *)
(* connection, each inside a transaction of its own, against a database    *)
(* whose user may have a transaction open already.                         *)
(*                                                                         *)
(* A database is the set of its large objects, whether the table           *)
(* pgbash_description exists, the objects it has a row for, and whether a  *)
(* change of the user's is in it.  "stable" is what is committed, "now"    *)
(* what the connection sees.  Comments and file contents are left out, and *)
(* so is a lost connection, which ends the shell (Session).                *)
(***************************************************************************)
EXTENDS Integers

CONSTANTS Oids,              \* the OIDs the server gives to large objects
          IntMax,            \* the largest value of a C int
          UserTransactions,  \* the user runs transactions of his own
          Interactive        \* stdin and stdout are ttys

ASSUME LargeObjectAssumption ==
    /\ Oids \subseteq Nat \ {0} /\ IntMax \in Nat
    /\ UserTransactions \in BOOLEAN /\ Interactive \in BOOLEAN

NoOid == 0
Database == [objects : SUBSET Oids, table : BOOLEAN, rows : SUBSET Oids, change : BOOLEAN]
EmptyDatabase == [objects |-> {}, table |-> FALSE, rows |-> {}, change |-> FALSE]

VARIABLES
    stable, now, txn,  \* external: the database and the transaction's state
    exist_des,         \* dbset->exist_des
    SQLOID,            \* the shell variable, NoOid when it is empty
    pc, op,            \* the lo_ routine and where it is
    loid,              \* the large object
    ret,               \* what lo_exec returned
    start,             \* ghost: txn and now when the routine began
    torn               \* ghost: Control-C has parted an object from its row

server == <<stable, now, txn>>
frame  == <<op, loid, start>>
vars   == <<server, exist_des, SQLOID, pc, frame, ret, torn>>

(* Older versions of PgBash wrote a row for every object they imported. *)
Init ==
    /\ stable \in {EmptyDatabase}
             \cup {[EmptyDatabase EXCEPT !.objects = {o}, !.table = TRUE, !.rows = {o}] : o \in Oids}
    /\ now = stable /\ txn = "none"
    /\ exist_des = FALSE /\ SQLOID = NoOid
    /\ pc = "idle" /\ op = "none" /\ loid = NoOid /\ ret = 0
    /\ start = [txn |-> txn, now |-> now] /\ torn = FALSE

-----------------------------------------------------------------------------
(* The server: a command that changes the database to d, one that fails,    *)
(* and the three transaction commands.                                      *)
Does(d) ==
    /\ txn # "failed"
    /\ now' = d /\ stable' = IF txn = "none" THEN d ELSE stable
    /\ UNCHANGED txn
Fails == txn' = (IF txn = "none" THEN "none" ELSE "failed") /\ UNCHANGED <<stable, now>>
Begins == txn # "failed" /\ txn' = "open" /\ UNCHANGED <<stable, now>>
Commits ==
    /\ txn' = "none"
    /\ stable' = IF txn = "open" THEN now ELSE stable
    /\ now' = stable'
RollsBack == txn' = "none" /\ now' = stable /\ UNCHANGED stable

(* The user's own statements, each through SendQuery. *)
User ==
    /\ pc = "idle" /\ UserTransactions
    /\ \/ Begins \/ Fails \/ Commits \/ RollsBack
       \/ Does([now EXCEPT !.change = ~@])
    /\ SQLOID' = NoOid
    /\ UNCHANGED <<exist_des, pc, frame, ret>>

(* Another PgBash on the same database creates the table. *)
OtherCreates ==
    /\ txn = "none" /\ ~now.table
    /\ Does([now EXCEPT !.table = TRUE])
    /\ UNCHANGED <<exist_des, SQLOID, pc, frame, ret>>

-----------------------------------------------------------------------------
Goto(place) == pc' = place /\ UNCHANGED <<frame, ret>>

(* lo_exec returns to exec_sql_main. *)
Return(r) ==
    /\ pc' = "idle" /\ ret' = r
    /\ UNCHANGED frame

Start(o, n) ==
    /\ pc = "idle"
    /\ op' = o /\ loid' = n
    /\ start' = [txn |-> txn, now |-> now]
    /\ pc' = IF o = "import" /\ ~exist_des THEN "probe" ELSE "begin"
    /\ UNCHANGED <<server, exist_des, SQLOID, ret>>

(* create_pgbash_description: look in pg_class, create the table, its index. *)
Probe ==
    /\ pc = "probe"
    /\ \/ Does(now) /\ now.table /\ exist_des' = TRUE /\ Goto("begin")
       \/ Does(now) /\ ~now.table /\ Goto("create") /\ UNCHANGED exist_des
       \/ Fails /\ Goto("create") /\ UNCHANGED exist_des
       \/ Return(-2) /\ UNCHANGED <<server, exist_des>>    \* no result
    /\ UNCHANGED SQLOID

CreateTable ==
    /\ pc = "create"
    /\ \/ ~now.table /\ Does([now EXCEPT !.table = TRUE]) /\ Goto("index")
       \/ Fails /\ Return(-2)
    /\ UNCHANGED <<exist_des, SQLOID>>

CreateIndex ==
    /\ pc = "index"
    /\ \/ Does(now) /\ exist_des' = TRUE /\ Goto("begin")
       \/ Fails /\ Return(-2) /\ UNCHANGED exist_des
    /\ UNCHANGED SQLOID

MutNoBegin ==            \* own_transaction = false
    /\ pc = "begin" /\ Goto("work") /\ SQLOID' = NoOid
    /\ UNCHANGED <<server, exist_des>>

(* SendQuery(BEGIN): inside a transaction the server only warns. *)
Begin ==
    /\ pc = "begin"
    /\ \/ Begins /\ Goto("work")
       \/ Fails /\ Return(-2)
    /\ SQLOID' = NoOid
    /\ UNCHANGED exist_des

(* lo_import, lo_export and lo_unlink of libpq.  A file that cannot be read *)
(* or written fails without the server noticing, lo_import's perhaps when   *)
(* the object is there already.                                             *)
Work ==
    /\ pc = "work"
    /\ \/ /\ op = "import"
          /\ \E n \in Oids \ now.objects :
                /\ Does([now EXCEPT !.objects = @ \cup {n}])
                /\ \/ loid' = n /\ pc' = "note" /\ UNCHANGED <<op, start, ret>>
                   \/ Goto("rollback")
       \/ op = "export" /\ loid \in now.objects /\ Does(now) /\ Goto("commit")
       \/ op = "unlink" /\ loid \in now.objects
          /\ Does([now EXCEPT !.objects = @ \ {loid}]) /\ Goto("note")
       \/ Fails /\ Goto("rollback")
       \/ op # "unlink" /\ UNCHANGED server /\ Goto("rollback")
    /\ UNCHANGED <<exist_des, SQLOID>>

(* lo_import comments on the object, lo_unlink deletes its row. *)
Note ==
    /\ pc = "note"
    /\ \/ op = "import" /\ Does(now) /\ Goto("commit")
       \/ op = "unlink" /\ now.table
          /\ Does([now EXCEPT !.rows = @ \ {loid}]) /\ Goto("commit")
       \/ Fails /\ Goto("rollback")
    /\ SQLOID' = NoOid
    /\ UNCHANGED exist_des

(* SendQuery(COMMIT) and the value returned.  do_lo_import returns the OID  *)
(* as an int, and lo_exec assigns to i_oid whether it is positive.          *)
Commit ==
    /\ pc = "commit"
    /\ \/ Fails /\ Goto("rollback") /\ SQLOID' = NoOid
       \/ Commits /\ op # "import" /\ Return(0) /\ SQLOID' = NoOid
       \/ Commits /\ op = "import" /\ loid <= IntMax /\ Return(0) /\ SQLOID' = 1
       \/ Commits /\ op = "import" /\ loid > IntMax /\ Return(-2) /\ SQLOID' = NoOid
    /\ UNCHANGED exist_des

MutNoRollback ==         \* returns without PQexec(ROLLBACK)
    /\ pc = "rollback" /\ Return(-2)
    /\ UNCHANGED <<server, exist_des, SQLOID>>

MutCommitsAnyway ==      \* COMMIT for ROLLBACK
    /\ pc = "rollback" /\ Commits /\ Return(-2)
    /\ UNCHANGED <<exist_des, SQLOID>>

Rollback ==
    /\ pc = "rollback"
    /\ RollsBack /\ Return(-2)
    /\ UNCHANGED <<exist_des, SQLOID>>

(* The statement of each place, when the server has executed it; a COMMIT   *)
(* that is cut has rolled back.                                             *)
Executed ==
    \/ pc \in {"probe", "index"} /\ Does(now)
    \/ pc = "create" /\ ~now.table /\ Does([now EXCEPT !.table = TRUE])
    \/ pc = "begin" /\ Begins
    \/ pc \in {"work", "note"} /\ op # "unlink" /\ Does(now)
    \/ pc = "work" /\ op = "import"
       /\ \E n \in Oids \ now.objects : Does([now EXCEPT !.objects = @ \cup {n}])
    \/ pc = "work" /\ op = "unlink" /\ Does([now EXCEPT !.objects = @ \ {loid}])
    \/ pc = "note" /\ op = "unlink" /\ Does([now EXCEPT !.rows = @ \ {loid}])
    \/ pc = "commit" /\ Commits
    \/ pc \in {"commit", "rollback"} /\ RollsBack

(* handle_sigint: the routine is left where it is.  Its statement may not   *)
(* have been sent, the cancel request may reach it, or it may be executed   *)
(* already: a BEGIN and a COMMIT too.  It is torn when the connection now   *)
(* sees a row without its object.                                           *)
Interrupt ==
    /\ Interactive /\ pc # "idle"
    /\ Executed \/ Fails \/ UNCHANGED server
    /\ Return(0)
    /\ torn' = (torn \/ ~(now'.rows \subseteq now'.objects))
    /\ SQLOID' \in {SQLOID, NoOid}
    /\ UNCHANGED exist_des

Step ==
    \/ User \/ OtherCreates
    \/ Start("import", NoOid)
    \/ \E o \in {"export", "unlink"}, n \in Oids : Start(o, n)
    \/ Probe \/ CreateTable \/ CreateIndex
    \/ Begin \/ Work \/ Note \/ Commit \/ Rollback

Next == (Step /\ UNCHANGED torn) \/ Interrupt

Spec == Init /\ [][Next]_vars

-----------------------------------------------------------------------------
(* Type correctness. *)
TypeOK ==
    /\ stable \in Database /\ now \in Database /\ txn \in {"none", "open", "failed"}
    /\ exist_des \in BOOLEAN /\ SQLOID \in Oids \cup {NoOid, 1}
    /\ pc \in {"idle", "probe", "create", "index", "begin", "work", "note", "commit", "rollback"}
    /\ op \in {"none", "import", "export", "unlink"}
    /\ loid \in Oids \cup {NoOid} /\ ret \in {0, -2}
    /\ start \in [txn : {"none", "open", "failed"}, now : Database]
    /\ torn \in BOOLEAN

(* The inductive strengthening: the work is done in a transaction, and      *)
(* until it is committed nothing of it is to be seen; at each place the     *)
(* routine has done so much of its work to what the connection saw.         *)
Before == {"probe", "create", "index", "begin"}
InTransaction ==
    /\ txn = "none" => now = stable
    /\ pc \in {"work", "note"} => txn # "none"
    /\ pc = "commit" => txn = "open"
    /\ start.txn = "none" /\ pc \in Before => txn = "none"

Same(d, o, r) == d.objects = o /\ d.rows = r
PartlyDone(o, r) ==
    \/ Same(now, o, r)
    \/ op = "import" /\ \E n \in Oids : Same(now, o \cup {n}, r)
    \/ op = "unlink" /\ (Same(now, o \ {loid}, r) \/ Same(now, o \ {loid}, r \ {loid}))

WorkDone ==
    pc # "idle" =>
        LET o == start.now.objects
            r == start.now.rows
        IN
        /\ start.txn = "none" => Same(stable, o, r)
        /\ now.change = start.now.change
        /\ pc \in Before \cup {"work"} => Same(now, o, r)
        /\ pc \in {"note", "commit"} =>
              \/ op = "import" /\ loid \in Oids \ o /\ Same(now, o \cup {loid}, r)
              \/ op = "export" /\ loid \in o /\ Same(now, o, r) /\ pc = "commit"
              \/ op = "unlink" /\ loid \in o
                 /\ Same(now, o \ {loid}, IF pc = "note" THEN r ELSE r \ {loid})
        /\ pc = "rollback" => PartlyDone(o, r)

RowsOK ==
    ~torn =>
        /\ stable.rows \subseteq stable.objects
        /\ now.rows \subseteq now.objects
              \cup (IF op = "unlink" /\ pc \in {"note", "rollback"} THEN {loid} ELSE {})

LInv ==
    /\ TypeOK /\ InTransaction /\ WorkDone /\ RowsOK
    /\ pc # "idle" => op # "none"

(* do_lo_unlink: an object and its row in pgbash_description go together,   *)
(* whatever fails between them, unless Control-C has left an lo_unlink half *)
(* done.                                                                    *)
RowsHaveObjects == ~torn => stable.rows \subseteq stable.objects

Ends == pc # "idle" /\ pc' = "idle"
ReturnsOutside == Ends /\ start.txn = "none" /\ ~Interrupt

(* A routine called outside a transaction, and not stopped by Control-C,    *)
(* leaves no transaction open.                                              *)
OwnTransactionEnds == [][ReturnsOutside => txn' = "none"]_vars

(* A routine called outside a transaction does all of its work and returns  *)
(* 0, or does none of it and returns an error.  Not so an import that gets  *)
(* an OID which is no int, nor what Control-C stops.                        *)
AllOrNothing ==
    [][ReturnsOutside /\ (op = "import" => loid <= IntMax) =>
          LET was == start.now IN
          IF ret' # 0 THEN stable'.objects = was.objects /\ stable'.rows = was.rows
          ELSE /\ stable'.objects = CASE op = "import" -> was.objects \cup {loid}
                                      [] op = "unlink" -> was.objects \ {loid}
                                      [] op = "export" -> was.objects
               /\ op = "unlink" => loid \notin stable'.rows]_vars

(* The statements of a routine take effect together, with its COMMIT, or    *)
(* when Control-C stops it; the abstract connection sees what it saw when   *)
(* the routine began until then.                                            *)
View(d) == [objects |-> d.objects, rows |-> d.rows, change |-> d.change]
LO == INSTANCE LargeObjectSpec WITH
        stable <- View(stable),
        seen <- View(IF pc = "idle" THEN now ELSE start.now),
        result <- ret

(* In a transaction of the user's or out of one, a routine does its work in *)
(* one step or none of it: inside a transaction it commits, or rolls back,  *)
(* what the user had done before it as well.  One that Control-C stops has  *)
(* committed all of its work, or it has committed nothing and leaves a part *)
(* of the work open.                                                        *)
ImplementsRoutines == LO!SpecSpec

(* usage10: pgbash_description is created by the first lo_import, so after  *)
(* an import that succeeds it exists.                                       *)
TableAfterImport == [][Ends /\ op = "import" /\ ret' = 0 => stable'.table]_vars
=============================================================================
