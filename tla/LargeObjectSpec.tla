-------------------------- MODULE LargeObjectSpec --------------------------
(***************************************************************************)
(* What lo_import, lo_export and lo_unlink do, each a single step, in or   *)
(* out of a transaction of the user's.  A database is its large objects,   *)
(* the objects pgbash_description has a row for, and whether a change of   *)
(* the user's is in it.  LargeObject is the sequence of statements that    *)
(* implements this.                                                        *)
(*                                                                         *)
(* The routines have no nested transaction: one that is called inside a    *)
(* transaction ends it, by committing what the user had done as well or by *)
(* rolling it back as well.  One that Control-C stops has done all of its  *)
(* work, or leaves a part of it for a later COMMIT or ROLLBACK, and does   *)
(* not say which.                                                          *)
(*                                                                         *)
(* This is what the code does, not all the guide promises: usage10 has the *)
(* OID and the comment of an import registered in pgbash_description, and  *)
(* the INSERT that did so is commented out in do_lo_import, in favour of a *)
(* COMMENT ON LARGE OBJECT.                                                *)
(***************************************************************************)
EXTENDS Integers

CONSTANTS Oids,         \* the OIDs the server gives to large objects
          IntMax,       \* the largest value of a C int
          Interactive   \* Control-C is handled

VARIABLES stable,       \* the database everybody sees
          seen,         \* the database the connection sees
          result        \* what the last routine returned

specVars == <<stable, seen, result>>

SpecInit ==
    /\ \E S \in SUBSET Oids : stable = [objects |-> S, rows |-> S, change |-> FALSE]
    /\ seen = stable /\ result = 0

With(d, n)    == [d EXCEPT !.objects = @ \cup {n}]
Without(d, n) == [d EXCEPT !.objects = @ \ {n}]
Gone(d, n)    == [Without(d, n) EXCEPT !.rows = @ \ {n}]

Becomes(d) == stable' = d /\ seen' = d
-----------------------------------------------------------------------------
(* do_lo_import adds no row for the object.  It returns the OID as an int,  *)
(* which the caller takes for an error when it is negative: the object is   *)
(* there all the same.                                                      *)
Import(n) ==
    /\ n \notin seen.objects
    /\ Becomes(With(seen, n))
    /\ result' = IF n <= IntMax THEN 0 ELSE -2

Export(n) ==
    /\ n \in seen.objects
    /\ Becomes(seen)
    /\ result' = 0

(* The object goes and its row goes with it. *)
Unlink(n) ==
    /\ n \in seen.objects
    /\ Becomes(Gone(seen, n))
    /\ result' = 0

(* A routine that fails does nothing, and nothing it finds uncommitted is   *)
(* committed by it: the user's transaction goes on, or is rolled back.      *)
Refuse ==
    /\ seen' \in {seen, stable}
    /\ result' = -2
    /\ UNCHANGED stable

(* Control-C, which is no failure for the shell.  Either all is committed,  *)
(* or nothing is: some of the statements, or the ROLLBACK, were executed.   *)
Parts(n) == {With(seen, n), Without(seen, n), Gone(seen, n)}
Abandon ==
    /\ Interactive /\ result' = 0
    /\ \/ seen' \in {seen, stable} \cup UNION {Parts(n) : n \in Oids}
          /\ UNCHANGED stable
       \/ \E n \in Oids \ seen.objects : Becomes(With(seen, n))
       \/ \E n \in seen.objects : Becomes(seen) \/ Becomes(Gone(seen, n))

(* The user changes something, in a transaction or out of one. *)
UserChanges ==
    /\ seen' = [seen EXCEPT !.change = ~@]
    /\ stable' = stable \/ (seen = stable /\ stable' = seen')
    /\ UNCHANGED result

(* The user's COMMIT and ROLLBACK. *)
UserEnds == (Becomes(seen) \/ Becomes(stable)) /\ UNCHANGED result

SpecNext ==
    \/ \E n \in Oids : Import(n) \/ Export(n) \/ Unlink(n)
    \/ Refuse \/ Abandon \/ UserChanges \/ UserEnds

SpecSpec == SpecInit /\ [][SpecNext]_specVars
=============================================================================
