------------------------- MODULE LargeObjectProofs -------------------------
(***************************************************************************)
(* What the large-object commands promise, for every set of OIDs.          *)
(*                                                                         *)
(* LInv is proved action by action.  The three properties follow from it.  *)
(* Control-C breaks each of them, and each says so itself.                 *)
(***************************************************************************)
EXTENDS LargeObject, TLAPS

States == {"none", "open", "failed"}

(* The server's commands take databases to databases. *)
LEMMA ServerTypes ==
    ASSUME TypeOK
    PROVE  /\ \A d \in Database : Does(d) => now' \in Database /\ stable' \in Database
                                            /\ txn' \in States
           /\ Fails \/ Begins \/ Commits \/ RollsBack
                => now' \in Database /\ stable' \in Database /\ txn' \in States
BY DEF TypeOK, Does, Fails, Begins, Commits, RollsBack, States

(* The initial databases: empty, or left by an older PgBash. *)
LEMMA InitOK == Init => LInv
<1> SUFFICES ASSUME Init PROVE LInv
  OBVIOUS
<1>1. stable \in Database /\ stable.rows = stable.objects
  <2>1. CASE stable = EmptyDatabase
    BY <2>1 DEF EmptyDatabase, Database
  <2>2. ASSUME NEW o \in Oids,
               stable = [EmptyDatabase EXCEPT !.objects = {o}, !.table = TRUE, !.rows = {o}]
        PROVE  stable \in Database /\ stable.rows = stable.objects
    BY <2>2 DEF EmptyDatabase, Database
  <2> QED BY <2>1, <2>2 DEF Init
<1> QED
  BY <1>1 DEF Init, LInv, TypeOK, InTransaction, WorkDone, RowsOK, NoOid, Before

(* The user's own statements leave objects, rows and the routine alone.     *)
LEMMA UserOK == LInv /\ User /\ UNCHANGED torn => LInv'
<1> SUFFICES ASSUME LInv, User, UNCHANGED torn PROVE LInv'
  OBVIOUS
<1>1. pc = "idle" /\ pc' = "idle" /\ UNCHANGED <<exist_des, frame, ret>> /\ SQLOID' = NoOid
  BY DEF User
<1>2. [now EXCEPT !.change = ~@] \in Database
  BY DEF LInv, TypeOK, Database
<1>3. now' \in Database /\ stable' \in Database /\ txn' \in States
  BY <1>2, ServerTypes DEF User, LInv
<1>4. TypeOK'
  BY <1>1, <1>3 DEF LInv, TypeOK, frame, NoOid, States
<1>5. txn' = "none" => now' = stable'
  BY DEF User, Does, Fails, Begins, Commits, RollsBack, LInv, InTransaction
<1>6. ~torn => stable'.rows \subseteq stable'.objects /\ now'.rows \subseteq now'.objects
  <2>1. [now EXCEPT !.change = ~@].rows = now.rows /\ [now EXCEPT !.change = ~@].objects = now.objects
    BY DEF LInv, TypeOK, Database
  <2> QED BY <1>1, <2>1 DEF User, Does, Fails, Begins, Commits, RollsBack, LInv, RowsOK
<1> QED
  BY <1>1, <1>4, <1>5, <1>6 DEF LInv, InTransaction, WorkDone, RowsOK, Before

(* Another PgBash only adds the table. *)
LEMMA OtherOK == LInv /\ OtherCreates /\ UNCHANGED torn => LInv'
<1> SUFFICES ASSUME LInv, OtherCreates, UNCHANGED torn PROVE LInv'
  OBVIOUS
<1> DEFINE d == [now EXCEPT !.table = TRUE]
<1>1. /\ txn = "none" /\ txn' = "none" /\ now' = d /\ stable' = d /\ now = stable
      /\ UNCHANGED <<exist_des, SQLOID, pc, op, loid, start, ret>>
  BY DEF OtherCreates, Does, LInv, InTransaction, frame
<1>2. d \in Database /\ d.rows = now.rows /\ d.objects = now.objects /\ d.change = now.change
  BY DEF LInv, TypeOK, Database
<1> HIDE DEF d
<1>3. TypeOK'
  BY <1>1, <1>2 DEF LInv, TypeOK
<1>4. InTransaction'
  BY <1>1 DEF LInv, InTransaction
<1>5. WorkDone'
  BY <1>1, <1>2 DEF LInv, InTransaction, WorkDone, Same, PartlyDone
<1>6. RowsOK'
  BY <1>1, <1>2 DEF LInv, RowsOK
<1> QED BY <1>1, <1>3, <1>4, <1>5, <1>6 DEF LInv

(* A routine begins. *)
LEMMA StartOK ==
    ASSUME LInv, NEW o \in {"import", "export", "unlink"}, NEW n \in Oids \cup {NoOid}, Start(o, n),
           UNCHANGED torn
    PROVE  LInv'
<1>1. /\ pc = "idle" /\ pc' \in {"probe", "begin"} /\ op' = o /\ loid' = n
      /\ start' = [txn |-> txn, now |-> now]
      /\ UNCHANGED <<stable, now, txn, exist_des, SQLOID, ret>>
  BY DEF Start, server
<1>2. start' \in [txn : States, now : Database] /\ start'.txn = txn /\ start'.now = now
  BY <1>1 DEF LInv, TypeOK, States
<1>3. TypeOK'
  BY <1>1, <1>2 DEF LInv, TypeOK, States
<1> QED
  BY <1>1, <1>2, <1>3 DEF LInv, InTransaction, WorkDone, RowsOK, Same, PartlyDone, Before

(* create_pgbash_description changes no object and no row, and a            *)
(* transaction only by failing inside it.                                   *)
LEMMA CreateOK == LInv /\ (Probe \/ CreateTable \/ CreateIndex) /\ UNCHANGED torn => LInv'
<1> SUFFICES ASSUME LInv, Probe \/ CreateTable \/ CreateIndex, UNCHANGED torn PROVE LInv'
  OBVIOUS
<1> DEFINE d == [now EXCEPT !.table = TRUE]
<1>1. /\ pc \in {"probe", "create", "index"} /\ pc' \in {"create", "index", "begin", "idle"}
      /\ UNCHANGED <<op, loid, start, SQLOID>> /\ exist_des' \in BOOLEAN /\ ret' \in {0, -2}
  BY DEF Probe, CreateTable, CreateIndex, Goto, Return, frame, LInv, TypeOK
<1>2. Does(now) \/ Does(d) \/ Fails \/ UNCHANGED server
  BY DEF Probe, CreateTable, CreateIndex
<1>3. d \in Database /\ d.rows = now.rows /\ d.objects = now.objects /\ d.change = now.change
  BY DEF LInv, TypeOK, Database
<1> HIDE DEF d
<1>4. now' \in Database /\ stable' \in Database /\ txn' \in States
  BY <1>2, <1>3, ServerTypes DEF LInv, TypeOK, server, States
<1>5. TypeOK'
  BY <1>1, <1>4 DEF LInv, TypeOK, States
<1>6. /\ txn' = "none" <=> txn = "none"
      /\ txn' = "none" => now' = stable'
      /\ Same(stable', stable.objects, stable.rows) /\ Same(now', now.objects, now.rows)
      /\ now'.change = now.change
  BY <1>2, <1>3 DEF Does, Fails, server, LInv, InTransaction, Same
<1>7. InTransaction'
  BY <1>1, <1>6 DEF LInv, InTransaction, Before
<1>8. WorkDone'
  BY <1>1, <1>6 DEF LInv, WorkDone, Same, PartlyDone, Before
<1>9. RowsOK'
  BY <1>1, <1>6 DEF LInv, RowsOK, Same
<1> QED BY <1>1, <1>5, <1>7, <1>8, <1>9 DEF LInv

(* BEGIN opens the transaction, or the routine returns. *)
LEMMA BeginOK == LInv /\ Begin /\ UNCHANGED torn => LInv'
<1> SUFFICES ASSUME LInv, Begin, UNCHANGED torn PROVE LInv'
  OBVIOUS
<1>1. /\ pc = "begin" /\ pc' \in {"work", "idle"} /\ SQLOID' = NoOid
      /\ UNCHANGED <<op, loid, start, exist_des, now, stable>> /\ ret' \in {0, -2}
      /\ pc' = "work" => txn' = "open"
      /\ txn' \in States /\ (txn' = "none" => txn = "none")
  BY DEF Begin, Goto, Return, frame, LInv, TypeOK, Begins, Fails, States
<1>2. TypeOK'
  BY <1>1 DEF LInv, TypeOK, States
<1>3. InTransaction'
  BY <1>1 DEF LInv, InTransaction, Before
<1>4. WorkDone'
  BY <1>1 DEF LInv, WorkDone, InTransaction, Same, PartlyDone, Before
<1>5. RowsOK'
  BY <1>1 DEF LInv, RowsOK
<1> QED BY <1>1, <1>2, <1>3, <1>4, <1>5 DEF LInv

(* lo_import and lo_unlink change the objects inside the transaction. *)
LEMMA WorkOK == LInv /\ Work /\ UNCHANGED torn => LInv'
<1> SUFFICES ASSUME LInv, Work, UNCHANGED torn PROVE LInv'
  OBVIOUS
<1>1. pc = "work" /\ txn # "none" /\ UNCHANGED <<exist_des, SQLOID>>
  BY DEF Work, LInv, InTransaction
<1>2. CASE op = "import" /\ \E n \in Oids \ now.objects :
              /\ Does([now EXCEPT !.objects = @ \cup {n}])
              /\ \/ loid' = n /\ pc' = "note" /\ UNCHANGED <<op, start, ret>>
                 \/ Goto("rollback")
  <2>1. PICK n \in Oids \ now.objects :
              /\ Does([now EXCEPT !.objects = @ \cup {n}])
              /\ \/ loid' = n /\ pc' = "note" /\ UNCHANGED <<op, start, ret>>
                 \/ Goto("rollback")
    BY <1>2
  <2> DEFINE d == [now EXCEPT !.objects = @ \cup {n}]
  <2>2. d \in Database /\ d.rows = now.rows /\ d.objects = now.objects \cup {n}
      /\ d.change = now.change
    BY DEF LInv, TypeOK, Database
  <2>3. /\ now' = d /\ stable' = stable /\ txn' = txn /\ txn = "open"
        /\ UNCHANGED <<op, start, ret>> /\ loid' \in Oids \cup {NoOid}
        /\ (pc' = "note" /\ loid' = n) \/ pc' = "rollback"
    BY <1>1, <2>1 DEF Does, Goto, frame, LInv, TypeOK
  <2> HIDE DEF d
  <2>4. TypeOK'
    BY <1>1, <2>2, <2>3 DEF LInv, TypeOK
  <2>5. InTransaction'
    BY <1>1, <2>3 DEF LInv, InTransaction, Before
  <2>6. WorkDone'
    <3>1. /\ Same(now, start.now.objects, start.now.rows) /\ now.change = start.now.change
          /\ start.txn = "none" => Same(stable, start.now.objects, start.now.rows)
      BY <1>1 DEF LInv, WorkDone
    <3>2. Same(now', start.now.objects \cup {n}, start.now.rows) /\ now'.change = start.now.change
      BY <2>2, <2>3, <3>1 DEF Same
    <3>3. n \in Oids \ start.now.objects
      BY <3>1 DEF Same
    <3>4. PartlyDone(start.now.objects, start.now.rows)'
      BY <1>2, <2>3, <3>2, <3>3 DEF PartlyDone, Same
    <3>5. pc' = "note" => loid' = n
      BY <2>3
    <3> QED BY <1>2, <2>3, <3>1, <3>2, <3>3, <3>4, <3>5 DEF WorkDone, Same, Before
  <2>7. RowsOK'
    BY <1>1, <1>2, <2>2, <2>3 DEF LInv, RowsOK
  <2> QED BY <1>2, <2>3, <2>4, <2>5, <2>6, <2>7 DEF LInv
<1>3. CASE op = "export" /\ loid \in now.objects /\ Does(now) /\ Goto("commit")
  <2>1. /\ UNCHANGED <<now, stable, txn, op, loid, start, ret>> /\ pc' = "commit"
        /\ txn = "open"
    BY <1>1, <1>3 DEF Does, Goto, frame, LInv, TypeOK
  <2>2. TypeOK'
    BY <1>1, <2>1 DEF LInv, TypeOK
  <2>3. InTransaction'
    BY <1>1, <2>1 DEF LInv, InTransaction, Before
  <2>4. WorkDone'
    BY <1>1, <1>3, <2>1 DEF LInv, WorkDone, Same, PartlyDone
  <2>5. RowsOK'
    BY <1>1, <1>3, <2>1 DEF LInv, RowsOK
  <2> QED BY <1>3, <2>1, <2>2, <2>3, <2>4, <2>5 DEF LInv
<1>4. CASE /\ op = "unlink" /\ loid \in now.objects
           /\ Does([now EXCEPT !.objects = @ \ {loid}]) /\ Goto("note")
  <2> DEFINE d == [now EXCEPT !.objects = @ \ {loid}]
  <2>1. d \in Database /\ d.rows = now.rows /\ d.objects = now.objects \ {loid}
      /\ d.change = now.change
    BY DEF LInv, TypeOK, Database
  <2>2. /\ now' = d /\ stable' = stable /\ txn' = txn /\ pc' = "note"
        /\ UNCHANGED <<op, loid, start, ret>>
    BY <1>1, <1>4 DEF Does, Goto, frame, LInv, TypeOK
  <2> HIDE DEF d
  <2>3. TypeOK'
    BY <1>1, <2>1, <2>2 DEF LInv, TypeOK
  <2>4. InTransaction'
    BY <1>1, <2>2 DEF LInv, InTransaction, Before
  <2>5. WorkDone'
    <3>1. /\ Same(now, start.now.objects, start.now.rows) /\ now.change = start.now.change
          /\ start.txn = "none" => Same(stable, start.now.objects, start.now.rows)
      BY <1>1 DEF LInv, WorkDone
    <3>2. /\ Same(now', start.now.objects \ {loid}, start.now.rows)
          /\ now'.change = start.now.change /\ loid \in start.now.objects
      BY <1>4, <2>1, <2>2, <3>1 DEF Same
    <3> QED BY <1>4, <2>2, <3>1, <3>2 DEF WorkDone, Same, Before
  <2>6. RowsOK'
    BY <1>1, <1>4, <2>1, <2>2 DEF LInv, RowsOK
  <2> QED BY <1>4, <2>2, <2>3, <2>4, <2>5, <2>6 DEF LInv
<1>5. CASE (Fails \/ UNCHANGED server) /\ Goto("rollback")
  <2>1. /\ UNCHANGED <<now, stable, op, loid, start, ret>> /\ pc' = "rollback"
        /\ txn' \in States \ {"none"}
    BY <1>1, <1>5 DEF Fails, Goto, frame, server, LInv, TypeOK, States
  <2>2. TypeOK'
    BY <1>1, <2>1 DEF LInv, TypeOK, States
  <2>3. InTransaction'
    BY <1>1, <2>1 DEF LInv, InTransaction, Before
  <2>4. WorkDone'
    BY <1>1, <2>1 DEF LInv, WorkDone, Same, PartlyDone
  <2>5. RowsOK'
    BY <1>1, <2>1 DEF LInv, RowsOK
  <2> QED BY <1>1, <2>1, <2>2, <2>3, <2>4, <2>5 DEF LInv
<1> QED BY <1>2, <1>3, <1>4, <1>5 DEF Work

(* COMMENT ON LARGE OBJECT, or the DELETE of the object's row. *)
LEMMA NoteOK == LInv /\ Note /\ UNCHANGED torn => LInv'
<1> SUFFICES ASSUME LInv, Note, UNCHANGED torn PROVE LInv'
  OBVIOUS
<1> DEFINE d == [now EXCEPT !.rows = @ \ {loid}]
<1>1. /\ pc = "note" /\ txn # "none" /\ SQLOID' = NoOid
      /\ UNCHANGED <<exist_des, op, loid, start, ret, stable>>
      /\ txn' \in States \ {"none"}
  BY DEF Note, Goto, frame, Does, Fails, LInv, InTransaction, TypeOK, States
<1>2. d \in Database /\ d.objects = now.objects /\ d.rows = now.rows \ {loid}
      /\ d.change = now.change
  BY DEF LInv, TypeOK, Database
<1>3. \/ pc' = "rollback" /\ now' = now
      \/ pc' = "commit" /\ now' = now /\ op = "import" /\ txn' = "open"
      \/ pc' = "commit" /\ now' = d /\ op = "unlink" /\ txn' = "open"
  BY <1>1 DEF Note, Goto, Does, Fails, LInv, TypeOK
<1> HIDE DEF d
<1>4. TypeOK'
  BY <1>1, <1>2, <1>3 DEF LInv, TypeOK, States
<1>5. InTransaction'
  BY <1>1, <1>3 DEF LInv, InTransaction, Before
<1>6. WorkDone'
  <2> DEFINE o == start.now.objects
             r == start.now.rows
  <2>1. /\ start.txn = "none" => Same(stable, o, r)
        /\ now.change = start.now.change
        /\ \/ op = "import" /\ loid \in Oids \ o /\ Same(now, o \cup {loid}, r)
           \/ op = "unlink" /\ loid \in o /\ Same(now, o \ {loid}, r)
    BY <1>1 DEF LInv, WorkDone
  <2>2. /\ stable' = stable /\ start' = start /\ loid' = loid /\ op' = op
        /\ pc' \in {"commit", "rollback"} /\ now'.change = start.now.change
    BY <1>1, <1>2, <1>3, <2>1
  <2>3. CASE pc' = "rollback"
    <3>1. PartlyDone(o, r)'
      BY <1>3, <2>1, <2>2, <2>3 DEF PartlyDone, Same
    <3> QED BY <2>1, <2>2, <2>3, <3>1 DEF WorkDone, Same, Before
  <2>4. CASE pc' = "commit"
    BY <1>2, <1>3, <2>1, <2>2, <2>4 DEF WorkDone, Same, Before
  <2> QED BY <2>2, <2>3, <2>4
<1>7. RowsOK'
  BY <1>1, <1>2, <1>3 DEF LInv, RowsOK
<1> QED BY <1>1, <1>3, <1>4, <1>5, <1>6, <1>7 DEF LInv

(* COMMIT makes what the routine did visible, or fails. *)
LEMMA CommitOK == LInv /\ Commit /\ UNCHANGED torn => LInv'
<1> SUFFICES ASSUME LInv, Commit, UNCHANGED torn PROVE LInv'
  OBVIOUS
<1>1. /\ pc = "commit" /\ txn = "open" /\ UNCHANGED <<exist_des, op, loid, start>>
      /\ SQLOID' \in Oids \cup {NoOid, 1}
  BY DEF Commit, Goto, Return, frame, LInv, InTransaction
<1>2. CASE Fails /\ Goto("rollback")
  <2>1. UNCHANGED <<now, stable, ret>> /\ txn' = "failed" /\ pc' = "rollback"
    BY <1>1, <1>2 DEF Fails, Goto
  <2> QED
    BY <1>1, <2>1 DEF LInv, TypeOK, InTransaction, WorkDone, RowsOK, Same, PartlyDone, Before
<1>3. CASE Commits /\ (Return(0) \/ Return(-2))
  <2>1. txn' = "none" /\ stable' = now /\ now' = now /\ ret' \in {0, -2} /\ pc' = "idle"
    BY <1>1, <1>3 DEF Commits, Return
  <2> QED
    BY <1>1, <2>1 DEF LInv, TypeOK, InTransaction, WorkDone, RowsOK, Same, PartlyDone, Before
<1> QED BY <1>2, <1>3 DEF Commit

(* ROLLBACK takes everything back. *)
LEMMA RollbackOK == LInv /\ Rollback /\ UNCHANGED torn => LInv'
<1> SUFFICES ASSUME LInv, Rollback, UNCHANGED torn PROVE LInv'
  OBVIOUS
<1>1. /\ txn' = "none" /\ now' = stable /\ stable' = stable /\ ret' = -2 /\ pc' = "idle"
      /\ UNCHANGED <<exist_des, SQLOID, op, loid, start>>
  BY DEF Rollback, RollsBack, Return, frame
<1> QED
  BY <1>1 DEF LInv, TypeOK, InTransaction, WorkDone, RowsOK, Before

(* What a statement that was executed before the jump has done to the       *)
(* database: before the work nothing that is to be seen, then a part of the *)
(* work inside the transaction, then all of it or none.                     *)
LEMMA ExecutedIs ==
    ASSUME LInv, pc # "idle", Executed \/ Fails \/ UNCHANGED server
    PROVE  /\ now' \in Database /\ stable' \in Database /\ txn' \in States
           /\ txn' = "none" => now' = stable'
           /\ \/ /\ Same(stable', stable.objects, stable.rows)
                 /\ Same(now', now.objects, now.rows) /\ now'.change = now.change
                 /\ stable'.change = stable.change
              \/ /\ op = "import" /\ pc = "work" /\ stable' = stable
                 /\ now'.change = now.change
                 /\ \E n \in Oids : Same(now', now.objects \cup {n}, now.rows)
              \/ /\ op = "unlink" /\ pc = "work" /\ stable' = stable
                 /\ now'.change = now.change
                 /\ Same(now', now.objects \ {loid}, now.rows)
              \/ /\ op = "unlink" /\ pc = "note" /\ stable' = stable
                 /\ now'.change = now.change
                 /\ Same(now', now.objects, now.rows \ {loid})
              \/ pc = "commit" /\ now' = now /\ stable' = now
              \/ pc \in {"commit", "rollback"} /\ now' = stable /\ stable' = stable
<1> DEFINE t == [now EXCEPT !.table = TRUE]
           a(n) == [now EXCEPT !.objects = @ \cup {n}]
           u == [now EXCEPT !.objects = @ \ {loid}]
           g == [now EXCEPT !.rows = @ \ {loid}]
<1>0. now \in Database /\ stable \in Database /\ txn \in States
  BY DEF LInv, TypeOK, States
<1>1. /\ t \in Database /\ t.objects = now.objects /\ t.rows = now.rows /\ t.change = now.change
      /\ u \in Database /\ u.objects = now.objects \ {loid} /\ u.rows = now.rows
      /\ u.change = now.change
      /\ g \in Database /\ g.objects = now.objects /\ g.rows = now.rows \ {loid}
      /\ g.change = now.change
  BY <1>0 DEF Database
<1>2. ASSUME NEW n \in Oids
      PROVE  /\ a(n) \in Database /\ a(n).objects = now.objects \cup {n} /\ a(n).rows = now.rows
             /\ a(n).change = now.change
  BY <1>0 DEF Database
<1> HIDE DEF t, a, u, g
<1>3. /\ txn = "none" => now = stable
      /\ pc \in {"work", "note", "commit"} => txn # "none"
  BY DEF LInv, InTransaction
<1>4. CASE Does(now) \/ Does(t)
  BY <1>0, <1>1, <1>3, <1>4 DEF Does, Same, States
<1>5. CASE Fails \/ UNCHANGED server \/ Begins
  BY <1>0, <1>3, <1>5 DEF Fails, Begins, server, Same, States
<1>6. ASSUME NEW n \in Oids, pc = "work", op = "import", Does(a(n))
      PROVE  /\ now' = a(n) /\ stable' = stable /\ txn' = txn /\ txn # "none"
             /\ Same(now', now.objects \cup {n}, now.rows)
  BY <1>2, <1>3, <1>6 DEF Does, Same
<1>7. CASE pc = "work" /\ op = "unlink" /\ Does(u)
  BY <1>0, <1>1, <1>3, <1>7 DEF Does, Same
<1>8. CASE pc = "note" /\ op = "unlink" /\ Does(g)
  BY <1>0, <1>1, <1>3, <1>8 DEF Does, Same
<1>9. CASE pc = "commit" /\ Commits
  BY <1>0, <1>9 DEF Commits, States, LInv, InTransaction
<1>10. CASE pc \in {"commit", "rollback"} /\ RollsBack
  BY <1>0, <1>10 DEF RollsBack, States
<1>11. CASE pc = "work" /\ op = "import" /\ \E n \in Oids : Does(a(n))
  <2>1. PICK n \in Oids : Does(a(n))
    BY <1>11
  <2>2. /\ now' = a(n) /\ stable' = stable /\ txn' = txn /\ txn # "none"
        /\ Same(now', now.objects \cup {n}, now.rows)
    BY <1>6, <1>11, <2>1
  <2>3. a(n) \in Database /\ a(n).change = now.change
    BY <1>2
  <2> QED BY <1>0, <1>11, <2>2, <2>3
<1>12. \/ Does(now) \/ Does(t) \/ Fails \/ UNCHANGED server \/ Begins
       \/ pc = "work" /\ op = "import" /\ \E n \in Oids : Does(a(n))
       \/ pc = "work" /\ op = "unlink" /\ Does(u)
       \/ pc = "note" /\ op = "unlink" /\ Does(g)
       \/ pc = "commit" /\ Commits
       \/ pc \in {"commit", "rollback"} /\ RollsBack
  BY DEF Executed, t, a, u, g
<1> QED BY <1>4, <1>5, <1>7, <1>8, <1>9, <1>10, <1>11, <1>12

(* Control-C leaves what the statements executed so far have done.          *)
LEMMA InterruptOK == LInv /\ Interrupt => LInv'
<1> SUFFICES ASSUME LInv, Interrupt PROVE LInv'
  OBVIOUS
<1>1. /\ torn' = (torn \/ ~(now'.rows \subseteq now'.objects)) /\ ret' = 0
      /\ pc # "idle" /\ pc' = "idle"
      /\ SQLOID' \in {SQLOID, NoOid}
      /\ UNCHANGED <<exist_des, op, loid, start>>
      /\ Executed \/ Fails \/ UNCHANGED server
  BY DEF Interrupt, Return, frame
<1>2. /\ now' \in Database /\ stable' \in Database /\ txn' \in States
      /\ txn' = "none" => now' = stable'
      /\ Same(stable', stable.objects, stable.rows)
         \/ (stable' = now /\ pc = "commit")
  BY <1>1, ExecutedIs DEF Same
<1>3. TypeOK'
  BY <1>1, <1>2 DEF LInv, TypeOK, States, NoOid
<1>4. InTransaction' /\ WorkDone'
  BY <1>1, <1>2 DEF InTransaction, WorkDone, Before
<1>5. RowsOK'
  <2>1. ~torn' => now'.rows \subseteq now'.objects
    BY <1>1
  <2>2. ~torn => stable'.rows \subseteq stable'.objects
    BY <1>2 DEF LInv, RowsOK, Same
  <2>3. ~torn' => ~torn
    BY <1>1 DEF LInv, TypeOK
  <2> QED BY <1>1, <2>1, <2>2, <2>3 DEF RowsOK
<1> QED BY <1>1, <1>3, <1>4, <1>5 DEF LInv

(* Every step preserves LInv. *)
LEMMA NextOK == LInv /\ [Next]_vars => LInv'
<1> SUFFICES ASSUME LInv, [Next]_vars PROVE LInv'
  OBVIOUS
<1>1. CASE UNCHANGED vars
  BY <1>1 DEF vars, server, frame, LInv, TypeOK, InTransaction, WorkDone, RowsOK, Same, PartlyDone
<1>2. ASSUME Start("import", NoOid) \/ \E o \in {"export", "unlink"}, n \in Oids : Start(o, n),
             UNCHANGED torn
      PROVE  LInv'
  BY <1>2, StartOK
<1> QED
  BY <1>1, <1>2, UserOK, OtherOK, CreateOK, BeginOK, WorkOK, NoteOK, CommitOK, RollbackOK,
     InterruptOK DEF Next, Step

(* The large-object routines' work is done in a transaction and nothing of  *)
(* it is committed before COMMIT; an object and its row stay together.      *)
THEOREM LargeObjectInvariance == Spec => []LInv
BY InitOK, NextOK, PTL DEF Spec

(* No row of pgbash_description outlives its large object, whatever fails   *)
(* inside lo_unlink, as long as Control-C has not stopped one half way.     *)
THEOREM RowsMatch == Spec => []RowsHaveObjects
<1>1. LInv => RowsHaveObjects
  BY DEF LInv, RowsOK, RowsHaveObjects
<1> QED BY <1>1, LargeObjectInvariance, PTL

(* How a routine ends, when nobody interrupts it: before its transaction,   *)
(* by COMMIT, or by ROLLBACK.                                               *)
LEMMA Endings ==
    ASSUME LInv, [Next]_vars, Ends, ~Interrupt
    PROVE  /\ UNCHANGED <<op, loid, start>>
           /\ \/ /\ pc \in Before /\ ret' = -2
                 /\ Same(stable', stable.objects, stable.rows)
                 /\ txn = "none" => txn' = "none"
              \/ /\ pc = "commit" /\ Commits
                 /\ ret' = 0 \/ (op = "import" /\ loid > IntMax)
              \/ pc = "rollback" /\ RollsBack /\ ret' = -2
<1>1. Probe \/ CreateTable \/ CreateIndex \/ Begin \/ Commit \/ Rollback
  BY DEF Next, Step, vars, Ends, User, OtherCreates, Start, Work, Note, Goto
<1>2. CASE Probe
  BY <1>2 DEF Probe, Ends, Goto, Return, frame, server, Before, Same
<1>3. CASE CreateTable
  BY <1>3 DEF CreateTable, Ends, Goto, Return, frame, Before, Same, Fails
<1>4. CASE CreateIndex
  BY <1>4 DEF CreateIndex, Ends, Goto, Return, frame, Before, Same, Fails
<1>5. CASE Begin
  BY <1>5 DEF Begin, Ends, Goto, Return, frame, Before, Same, Fails
<1>6. CASE Commit
  BY <1>6 DEF Commit, Ends, Goto, Return, frame
<1>7. CASE Rollback
  BY <1>7 DEF Rollback, Return, frame
<1> QED BY <1>1, <1>2, <1>3, <1>4, <1>5, <1>6, <1>7

(* A routine that is not stopped leaves no transaction of its own open.     *)
THEOREM TransactionsEnd == Spec => OwnTransactionEnds
<1>1. LInv /\ [Next]_vars => [ReturnsOutside => txn' = "none"]_vars
  BY Endings DEF ReturnsOutside, LInv, InTransaction, Commits, RollsBack, Before
<1> QED BY <1>1, LargeObjectInvariance, PTL DEF Spec, OwnTransactionEnds

(* A routine that is called outside a transaction and not stopped does all  *)
(* of its work and returns 0, or none of it and returns an error, as long   *)
(* as the OID it imports to fits in an int.                                 *)
THEOREM RoutinesAreAtomic == Spec => AllOrNothing
<1> DEFINE was == start.now
           Kept == stable'.objects = was.objects /\ stable'.rows = was.rows
           Done == /\ stable'.objects = CASE op = "import" -> was.objects \cup {loid}
                                          [] op = "unlink" -> was.objects \ {loid}
                                          [] op = "export" -> was.objects
                   /\ op = "unlink" => loid \notin stable'.rows
           Fits == op = "import" => loid <= IntMax
           All  == ReturnsOutside /\ Fits => IF ret' # 0 THEN Kept ELSE Done
<1>1. LInv /\ [Next]_vars => [All]_vars
  <2> SUFFICES ASSUME LInv, [Next]_vars, Ends, start.txn = "none", ~Interrupt, Fits
               PROVE  IF ret' # 0 THEN Kept ELSE Done
    BY DEF ReturnsOutside
  <2>1. Same(stable, was.objects, was.rows)
    BY DEF LInv, WorkDone, Ends
  <2>2. ~(op = "import" /\ loid > IntMax)
    <3>1. loid \in Nat /\ IntMax \in Nat
      BY LargeObjectAssumption DEF LInv, TypeOK, NoOid
    <3> QED BY <3>1
  <2>3. CASE /\ pc \in Before /\ ret' = -2 /\ Same(stable', stable.objects, stable.rows)
    BY <2>1, <2>3 DEF Same
  <2>4. CASE pc = "commit" /\ Commits /\ ret' = 0
    <3>1. stable' = now /\ op \in {"import", "export", "unlink"}
      BY <2>4 DEF Commits, LInv, InTransaction, TypeOK
    <3>2. Done
      BY <2>1, <2>4, <3>1 DEF LInv, WorkDone, Same, PartlyDone
    <3> QED BY <2>4, <3>2
  <2>5. CASE pc = "rollback" /\ RollsBack /\ ret' = -2
    BY <2>1, <2>5 DEF RollsBack, Same
  <2> QED BY <2>2, <2>3, <2>4, <2>5, Endings
<1>2. Spec => [][All]_vars
  BY <1>1, LargeObjectInvariance, PTL DEF Spec
<1>3. [][All]_vars => AllOrNothing
  BY PTL DEF AllOrNothing
<1> QED BY <1>2, <1>3

-----------------------------------------------------------------------------
(* The sequence of statements implements the one-step routines of           *)
(* LargeObjectSpec, in a transaction of the user's as well.                 *)
Seen == View(IF pc = "idle" THEN now ELSE start.now)

(* Two databases with the same objects, rows and change look the same, and  *)
(* what a routine does to one it does to its view.                          *)
LEMMA ViewIs ==
    ASSUME NEW d, NEW e
    PROVE  /\ Same(d, e.objects, e.rows) /\ d.change = e.change => View(d) = View(e)
           /\ \A n : /\ d.change = e.change
                   => /\ Same(d, e.objects \cup {n}, e.rows) => View(d) = LO!With(View(e), n)
                      /\ Same(d, e.objects \ {n}, e.rows) => View(d) = LO!Without(View(e), n)
                      /\ Same(d, e.objects \ {n}, e.rows \ {n}) => View(d) = LO!Gone(View(e), n)
<1>1. Same(d, e.objects, e.rows) /\ d.change = e.change => View(d) = View(e)
  BY DEF View, Same
<1>2. ASSUME NEW n, d.change = e.change, Same(d, e.objects \cup {n}, e.rows)
      PROVE  View(d) = LO!With(View(e), n)
  BY <1>2 DEF View, Same, LO!With
<1>3. ASSUME NEW n, d.change = e.change, Same(d, e.objects \ {n}, e.rows)
      PROVE  View(d) = LO!Without(View(e), n)
  BY <1>3 DEF View, Same, LO!Without
<1>4. ASSUME NEW n, d.change = e.change, Same(d, e.objects \ {n}, e.rows \ {n})
      PROVE  View(d) = LO!Gone(View(e), n)
  <2>1. View(d) = [objects |-> e.objects \ {n}, rows |-> e.rows \ {n}, change |-> e.change]
    BY <1>4 DEF View, Same
  <2>2. LO!Without(View(e), n)
          = [objects |-> e.objects \ {n}, rows |-> e.rows, change |-> e.change]
    BY DEF View, LO!Without
  <2> QED BY <2>1, <2>2 DEF LO!Gone
<1> QED BY <1>1, <1>2, <1>3, <1>4

(* A routine that goes on shows nothing of its work. *)
LEMMA GoesOn ==
    ASSUME pc # "idle", pc' # "idle", start' = start, ret' = ret, View(stable)' = View(stable)
    PROVE  UNCHANGED LO!specVars
<1>1. Seen' = Seen
  BY DEF Seen
<1> QED BY <1>1 DEF LO!specVars, Seen

(* A routine that returns an error before its work, or after a ROLLBACK.    *)
LEMMA Refuses ==
    ASSUME LInv, pc # "idle", pc' = "idle", ret' = -2, View(stable)' = View(stable),
           View(now)' = View(stable) \/ (pc \in Before /\ View(now)' = View(now))
    PROVE  LO!Refuse
<1>1. Seen = View(start.now) /\ Seen' = View(now)'
  BY DEF Seen
<1>2. pc \in Before => View(now) = View(start.now)
  BY ViewIs DEF LInv, WorkDone, Same
<1> QED BY <1>1, <1>2 DEF LO!Refuse, Seen

(* The user's statements between the routines. *)
LEMMA UserRefines ==
    ASSUME LInv, User
    PROVE  LO!SpecNext \/ UNCHANGED LO!specVars
<1>1. pc = "idle" /\ pc' = "idle" /\ ret' = ret
  BY DEF User
<1>2. Seen = View(now) /\ Seen' = View(now)'
  BY <1>1 DEF Seen
<1>3. CASE Begins \/ Fails
  BY <1>1, <1>2, <1>3 DEF Begins, Fails, LO!specVars, Seen
<1>4. CASE Commits \/ RollsBack
  <2>1. LO!Becomes(Seen) \/ LO!Becomes(View(stable))
    BY <1>2, <1>4 DEF Commits, RollsBack, LO!Becomes, Seen
  <2> QED BY <1>1, <2>1 DEF LO!SpecNext, LO!UserEnds, Seen
<1>5. CASE Does([now EXCEPT !.change = ~@])
  <2>1. View(now)' = [View(now) EXCEPT !.change = ~@]
    BY <1>5 DEF Does, View, LInv, TypeOK, Database
  <2>2. View(stable)' = View(stable) \/ (View(now) = View(stable) /\ View(stable)' = View(now)')
    BY <1>5 DEF Does, LInv, InTransaction
  <2> QED BY <1>1, <1>2, <2>1, <2>2 DEF LO!SpecNext, LO!UserChanges, Seen
<1> QED BY <1>3, <1>4, <1>5 DEF User

(* Another PgBash creates the table, or a routine begins: nothing to see.   *)
LEMMA UnseenRefines ==
    ASSUME LInv, \/ OtherCreates
                 \/ \E o \in {"import", "export", "unlink"}, n \in Oids \cup {NoOid} : Start(o, n)
    PROVE  UNCHANGED LO!specVars
<1>1. ASSUME OtherCreates PROVE UNCHANGED LO!specVars
  <2>1. /\ View(now)' = View(now) /\ View(stable)' = View(stable)
        /\ pc' = pc /\ start' = start /\ ret' = ret
    BY <1>1 DEF OtherCreates, Does, View, frame, LInv, InTransaction, TypeOK, Database
  <2>2. Seen' = Seen
    BY <2>1 DEF Seen
  <2> QED BY <2>1, <2>2 DEF LO!specVars, Seen
<1>2. ASSUME NEW o, NEW n, Start(o, n) PROVE UNCHANGED LO!specVars
  <2>1. /\ now' = now /\ stable' = stable /\ pc = "idle" /\ pc' # "idle"
        /\ start'.now = now /\ ret' = ret
    BY <1>2 DEF Start, server
  <2>2. Seen' = Seen /\ View(stable)' = View(stable)
    BY <2>1 DEF Seen
  <2> QED BY <2>1, <2>2 DEF LO!specVars, Seen
<1> QED BY <1>1, <1>2

(* A routine up to its COMMIT: it goes on, or fails and has done nothing.   *)
LEMMA RoutineRefines ==
    ASSUME LInv, Probe \/ CreateTable \/ CreateIndex \/ Begin \/ Work \/ Note \/ Rollback
    PROVE  LO!SpecNext \/ UNCHANGED LO!specVars
<1>1. CASE Probe \/ CreateTable \/ CreateIndex \/ Begin
  <2>1. /\ pc \in Before /\ pc # "idle" /\ start' = start
        /\ (pc' # "idle" /\ ret' = ret) \/ (pc' = "idle" /\ ret' = -2)
    BY <1>1 DEF Probe, CreateTable, CreateIndex, Begin, Goto, Return, frame, Before
  <2>2. \/ Does(now) \/ Does([now EXCEPT !.table = TRUE]) \/ UNCHANGED <<stable, now>>
    BY <1>1 DEF Probe, CreateTable, CreateIndex, Begin, Begins, Fails, server
  <2>3. View(stable)' = View(stable) /\ View(now)' = View(now)
    BY <2>2 DEF Does, View, LInv, InTransaction, TypeOK, Database
  <2> QED BY <2>1, <2>3, GoesOn, Refuses DEF LO!SpecNext
<1>2. CASE Work \/ Note
  <2>1. /\ pc # "idle" /\ pc' # "idle" /\ start' = start /\ ret' = ret
    BY <1>2 DEF Work, Note, Goto, frame
  <2>2. stable' = stable
    BY <1>2 DEF Work, Note, Does, Fails, server, LInv, InTransaction
  <2> QED BY <2>1, <2>2, GoesOn
<1>3. CASE Rollback
  <2>1. pc # "idle" /\ pc' = "idle" /\ ret' = -2 /\ now' = stable /\ stable' = stable
    BY <1>3 DEF Rollback, RollsBack, Return
  <2> QED BY <2>1, Refuses DEF LO!SpecNext
<1> QED BY <1>1, <1>2, <1>3

(* COMMIT: the routine has done all of its work at once. *)
LEMMA CommitRefines ==
    ASSUME LInv, Commit
    PROVE  LO!SpecNext \/ UNCHANGED LO!specVars
<1>1. pc = "commit" /\ txn = "open" /\ start' = start
  BY DEF Commit, Goto, Return, frame, LInv, InTransaction
<1>2. CASE Fails /\ Goto("rollback")
  BY <1>1, <1>2, GoesOn DEF Fails, Goto
<1>3. CASE /\ Commits /\ pc' = "idle"
           /\ ret' = IF op = "import" /\ loid > IntMax THEN -2 ELSE 0
  <2>1. View(stable)' = View(now) /\ Seen' = View(now) /\ Seen = View(start.now)
    BY <1>1, <1>3 DEF Commits, Seen
  <2>2. /\ now.change = start.now.change
        /\ \/ op = "import" /\ loid \in Oids \ start.now.objects
              /\ Same(now, start.now.objects \cup {loid}, start.now.rows)
           \/ op = "export" /\ loid \in start.now.objects
              /\ Same(now, start.now.objects, start.now.rows)
           \/ op = "unlink" /\ loid \in start.now.objects
              /\ Same(now, start.now.objects \ {loid}, start.now.rows \ {loid})
    BY <1>1 DEF LInv, WorkDone
  <2>3. start.now.objects \subseteq Oids /\ View(start.now).objects = start.now.objects
    BY DEF LInv, TypeOK, Database, View
  <2>4. CASE op = "import"
    <3>1. View(now) = LO!With(Seen, loid) /\ loid \in Oids /\ loid \notin Seen.objects
      <4>1. loid \in Oids \ start.now.objects
            /\ Same(now, start.now.objects \cup {loid}, start.now.rows)
        BY <2>2, <2>4
      <4>2. View(now) = LO!With(View(start.now), loid)
        BY <2>2, <4>1, ViewIs
      <4> QED BY <2>1, <2>3, <4>1, <4>2
    <3>2. ret' = IF loid <= IntMax THEN 0 ELSE -2
      BY <1>3, <2>4, <3>1, LargeObjectAssumption
    <3>3. LO!Import(loid)
      BY <2>1, <3>1, <3>2 DEF LO!Import, LO!Becomes, Seen
    <3> QED BY <3>1, <3>3 DEF LO!SpecNext
  <2>5. CASE op = "export"
    <3>1. View(now) = Seen /\ loid \in Oids /\ loid \in Seen.objects /\ ret' = 0
      BY <1>3, <2>1, <2>2, <2>3, <2>5, ViewIs
    <3>2. LO!Export(loid)
      BY <2>1, <3>1 DEF LO!Export, LO!Becomes, Seen
    <3> QED BY <3>1, <3>2 DEF LO!SpecNext
  <2>6. CASE op = "unlink"
    <3>1. View(now) = LO!Gone(Seen, loid) /\ loid \in Oids /\ loid \in Seen.objects /\ ret' = 0
      BY <1>3, <2>1, <2>2, <2>3, <2>6, ViewIs
    <3>2. LO!Unlink(loid)
      BY <2>1, <3>1 DEF LO!Unlink, LO!Becomes, Seen
    <3> QED BY <3>1, <3>2 DEF LO!SpecNext
  <2> QED BY <2>2, <2>4, <2>5, <2>6
<1>4. op = "import" => (loid <= IntMax <=> ~(loid > IntMax))
  <2>1. op = "import" => loid \in Oids
    BY <1>1 DEF LInv, WorkDone
  <2>2. op = "import" => loid \in Nat
    BY <2>1, LargeObjectAssumption
  <2>3. IntMax \in Nat
    BY LargeObjectAssumption
  <2> QED BY <2>2, <2>3
<1> QED BY <1>2, <1>3, <1>4 DEF Commit, Return

(* Control-C: a part of the work, uncommitted, or all of it, committed.      *)
LEMMA InterruptRefines == ASSUME LInv, Interrupt PROVE LO!Abandon
<1> DEFINE o == start.now.objects
           r == start.now.rows
<1>1. /\ Interactive /\ pc # "idle" /\ pc' = "idle" /\ ret' = 0 /\ start' = start
      /\ Executed \/ Fails \/ UNCHANGED server
  BY DEF Interrupt, Return, frame
<1>2. Seen = View(start.now) /\ Seen' = View(now)'
  BY <1>1 DEF Seen
<1>3. /\ now.change = start.now.change
      /\ pc \in Before \cup {"work"} => Same(now, o, r)
      /\ pc \in {"note", "commit"} =>
            \/ op = "import" /\ loid \in Oids \ o /\ Same(now, o \cup {loid}, r)
            \/ op = "export" /\ loid \in o /\ Same(now, o, r) /\ pc = "commit"
            \/ op = "unlink" /\ loid \in o
               /\ Same(now, o \ {loid}, IF pc = "note" THEN r ELSE r \ {loid})
      /\ pc = "rollback" => PartlyDone(o, r)
      /\ pc \in Before \cup {"work", "note", "commit", "rollback"}
  BY <1>1 DEF LInv, WorkDone, TypeOK, Before
<1>4. o \subseteq Oids /\ r \subseteq Oids /\ NoOid \notin Oids /\ loid \in Oids \cup {NoOid}
  BY LargeObjectAssumption DEF LInv, TypeOK, Database, NoOid
<1>5. ASSUME View(stable)' = View(stable), now'.change = start.now.change,
             \/ Same(now', o, r)
             \/ \E n \in Oids :
                   \/ Same(now', o \cup {n}, r)
                   \/ Same(now', o \ {n}, r)
                   \/ Same(now', o \ {n}, r \ {n})
      PROVE  LO!Abandon
  <2>1. View(now') = View(start.now)
        \/ \E n \in Oids : \/ View(now') = LO!With(View(start.now), n)
                           \/ View(now') = LO!Without(View(start.now), n)
                           \/ View(now') = LO!Gone(View(start.now), n)
    BY <1>5, ViewIs
  <2>2. View(now)' = View(now')
    BY DEF View
  <2>3. Seen' \in {Seen, View(stable)}
                  \cup UNION {{LO!With(Seen, n), LO!Without(Seen, n), LO!Gone(Seen, n)} : n \in Oids}
    BY <1>2, <2>1, <2>2
  <2> QED BY <1>1, <1>5, <2>3 DEF LO!Abandon, LO!Parts, Seen
<1>6. CASE pc = "commit" /\ now' = now /\ stable' = now
  <2>1. Seen' = View(now) /\ View(stable)' = View(now)
    BY <1>2, <1>6 DEF View
  <2>2. Seen.objects = o
    BY <1>2 DEF View
  <2>3. CASE op = "import"
    <3>1. View(now) = LO!With(View(start.now), loid) /\ loid \in Oids \ o
      BY <1>3, <1>6, <2>3, ViewIs
    <3> QED BY <1>1, <1>2, <2>1, <2>2, <3>1 DEF LO!Abandon, LO!Becomes, Seen
  <2>4. CASE op = "export"
    <3>1. View(now) = View(start.now) /\ loid \in o
      BY <1>3, <1>6, <2>4, ViewIs
    <3> QED BY <1>1, <1>2, <2>1, <2>2, <3>1 DEF LO!Abandon, LO!Becomes, Seen
  <2>5. CASE op = "unlink"
    <3>1. View(now) = LO!Gone(View(start.now), loid) /\ loid \in o
      BY <1>3, <1>6, <2>5, ViewIs
    <3> QED BY <1>1, <1>2, <2>1, <2>2, <3>1 DEF LO!Abandon, LO!Becomes, Seen
  <2> QED BY <1>3, <1>6, <2>3, <2>4, <2>5
<1>7. CASE pc \in {"commit", "rollback"} /\ now' = stable /\ stable' = stable
  <2>1. Seen' = View(stable) /\ View(stable)' = View(stable)
    BY <1>2, <1>7 DEF View
  <2> QED BY <1>1, <2>1 DEF LO!Abandon, Seen
<1> DEFINE Part(x) == \/ Same(x, o, r)
                      \/ \E n \in Oids :
                            \/ Same(x, o \cup {n}, r)
                            \/ Same(x, o \ {n}, r)
                            \/ Same(x, o \ {n}, r \ {n})
<1>8. loid \notin Oids => o \ {loid} = o /\ r \ {loid} = r
  BY <1>4
<1>9. Part(now)
  BY <1>3, <1>4, <1>8 DEF PartlyDone
<1>10. CASE /\ Same(stable', stable.objects, stable.rows) /\ stable'.change = stable.change
            /\ Same(now', now.objects, now.rows) /\ now'.change = now.change
  <2>1. View(stable)' = View(stable)
    BY <1>10 DEF View, Same
  <2>2. Part(now')
    BY <1>9, <1>10 DEF Same
  <2> QED BY <1>3, <1>5, <1>10, <2>1, <2>2
<1>11. CASE /\ stable' = stable /\ now'.change = now.change /\ pc = "work"
            /\ \/ \E n \in Oids : Same(now', now.objects \cup {n}, now.rows)
               \/ Same(now', now.objects \ {loid}, now.rows)
  <2>1. Part(now')
    BY <1>3, <1>4, <1>8, <1>11 DEF Same
  <2> QED BY <1>3, <1>5, <1>11, <2>1 DEF View
<1>12. CASE /\ stable' = stable /\ now'.change = now.change /\ pc = "note" /\ op = "unlink"
            /\ Same(now', now.objects, now.rows \ {loid})
  <2>1. Same(now', o \ {loid}, r \ {loid})
    BY <1>3, <1>12 DEF Same
  <2>2. Part(now')
    BY <1>4, <1>8, <2>1
  <2> QED BY <1>3, <1>5, <1>12, <2>2 DEF View
<1> HIDE DEF Part
<1> QED BY <1>1, <1>6, <1>7, <1>10, <1>11, <1>12, ExecutedIs

(* In a transaction of the user's or out of one, and with Control-C at any  *)
(* step, the routines do what LargeObjectSpec says.                         *)
THEOREM RoutinesImplement == Spec => ImplementsRoutines
<1>1. Init => LO!SpecInit
  <2> SUFFICES ASSUME Init PROVE LO!SpecInit
    OBVIOUS
  <2>1. Seen = View(stable) /\ ret = 0
    BY DEF Init, Seen
  <2>2. \E S \in SUBSET Oids : View(stable) = [objects |-> S, rows |-> S, change |-> FALSE]
    <3>1. CASE stable = EmptyDatabase
      <4>1. View(stable) = [objects |-> {}, rows |-> {}, change |-> FALSE]
        BY <3>1 DEF View, EmptyDatabase
      <4> QED BY <4>1
    <3>2. ASSUME NEW o \in Oids,
                 stable = [EmptyDatabase EXCEPT !.objects = {o}, !.table = TRUE, !.rows = {o}]
          PROVE  \E S \in SUBSET Oids : View(stable) = [objects |-> S, rows |-> S, change |-> FALSE]
      <4>1. View(stable) = [objects |-> {o}, rows |-> {o}, change |-> FALSE]
        BY <3>2 DEF View, EmptyDatabase
      <4> QED BY <4>1
    <3> QED BY <3>1, <3>2 DEF Init
  <2> QED BY <2>1, <2>2 DEF LO!SpecInit, Seen
<1>2. LInv /\ [Next]_vars => [LO!SpecNext]_(LO!specVars)
  <2> SUFFICES ASSUME LInv, [Next]_vars PROVE LO!SpecNext \/ UNCHANGED LO!specVars
    OBVIOUS
  <2>1. CASE UNCHANGED vars
    <3>1. Seen' = Seen /\ View(stable)' = View(stable) /\ ret' = ret
      BY <2>1 DEF vars, server, frame, Seen
    <3> QED BY <3>1 DEF LO!specVars, Seen
  <2>2. CASE Interrupt
    BY <2>2, InterruptRefines DEF LO!SpecNext
  <2>3. CASE Start("import", NoOid) \/ \E o \in {"export", "unlink"}, n \in Oids : Start(o, n)
    BY <2>3, UnseenRefines
  <2> QED BY <2>1, <2>2, <2>3, UserRefines, UnseenRefines, RoutineRefines, CommitRefines
          DEF Next, Step
<1> QED BY <1>1, <1>2, LargeObjectInvariance, PTL DEF Spec, ImplementsRoutines, LO!SpecSpec
=============================================================================
