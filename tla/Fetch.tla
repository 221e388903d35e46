------------------------------- MODULE Fetch -------------------------------
(***************************************************************************)
(* sql_fetch.c: SELECT INTO and FETCH INTO, from the INTO clause of the    *)
(* statement to the shell variables, one statement after the other.        *)
(*                                                                         *)
(* The text behind INTO is read token by token, and a token is chosen when *)
(* it is read: a host variable, one the code refuses, a keyword or a mark. *)
(* A variable is a scalar with the attributes that binding looks at.       *)
(***************************************************************************)
EXTENDS Integers, Sequences

CONSTANTS Var,          \* names of shell variables
          MaxList,      \* bound: host variables in one INTO clause
          MaxFields     \* bound: fields of a result

ASSUME FetchAssumption ==
    /\ Var # {} /\ MaxList \in Nat \ {0} /\ MaxFields \in Nat
    /\ "none" \notin Var

NULL == "null"                      \* what PQgetisnull says yes to
Fields == {"1", "text", NULL}       \* "text" is no arithmetic expression
Texts == {"", "0", "-1", "1", "text"}
None == "none"                      \* indicat = NULL

(* host and glued are :a and :a:b, bad is :1x; end is ';' or '\0'. *)
Marks == {"glued", "bad", "INDICATOR", "FROM", ",", "(", "word", "end"}
Tokens == [k : {"host"}, v : Var] \cup [k : Marks, v : {None}]

SQL_OK                 == 0
SQL_NOT_FOUND          == 100
SQL_TOO_MANY_ARGUMENTS == -201
SQL_TOO_FEW_ARGUMENTS  == -202
SQL_NONFATAL_ERROR     == -404

VARIABLES
    var,      \* the shell's variables: value, readonly, integer
    sqlcode,  \* sqlca.sqlcode
    kind,     \* "select" or "fetch"
    pc,
    list,     \* the PSfetchList
    freed,    \* it has been freed, pfet still points to it
    clause,   \* the query holds what the server refuses, as host variables
    fetflg,   \* what parse_select_fetch_into returned
    row,      \* the fields of the only row
    j,        \* the field being bound
    success,
    doc, reading,  \* ghost: where the text is in the guide's grammar, and what it lists
    old       \* ghost: var when the statement began

parser == <<kind, list, freed, clause, fetflg>>
guide  == <<doc, reading>>
vars   == <<var, sqlcode, pc, parser, row, j, success, guide, old>>

Init ==
    /\ var \in [Var -> [val : {""}, readonly : BOOLEAN, integer : BOOLEAN]]
    /\ sqlcode = SQL_OK /\ old = var
    /\ kind = "select" /\ pc = "idle" /\ list = <<>>
    /\ freed = FALSE /\ clause = FALSE /\ fetflg = -1
    /\ row = <<>> /\ j = 1 /\ success = FALSE
    /\ doc = "none" /\ reading = <<>>

-----------------------------------------------------------------------------
(* The user's guide: [INTO :host [[INDICATOR] :ind], ...], with FROM behind *)
(* it in a SELECT.  "glued" and "behind" are texts of the guide that the    *)
(* parsers refuse: an indicator glued to its variable, and a FROM behind an *)
(* indicator.  "quoted" is a text that is no INTO clause for the guide, and *)
(* neither for the server: it stands in a string or a comment.              *)
DocNext(t) ==
    CASE doc = "quoted" -> "quoted"
      [] doc = "host" /\ t.k = "host" -> "ind"
      [] doc = "host" /\ t.k = "glued" -> "glued"
      [] doc \in {"ind", "ind2"} /\ t.k = "host" -> "sep"
      [] doc = "ind" /\ t.k = "INDICATOR" -> "ind2"
      [] doc \in {"ind", "sep"} /\ t.k = "," -> "host"
      [] doc \in {"ind", "sep"} /\ t.k = "end" -> "done"
      [] doc = "ind" /\ t.k = "FROM" /\ kind = "select" -> "done"
      [] doc = "sep" /\ t.k = "FROM" /\ kind = "select" -> "behind"
      [] OTHER -> "bad"

Item(v, i) == [hostvar |-> v, indicat |-> i]
WithIndicator(l, i) == [l EXCEPT ![Len(l)].indicat = i]

Listen(t) ==
    /\ doc' = DocNext(t)
    /\ reading' = IF t.k # "host" THEN reading
                  ELSE IF doc = "host" THEN Append(reading, Item(t.v, None))
                  ELSE IF doc \in {"ind", "ind2"} THEN WithIndicator(reading, t.v)
                  ELSE reading
-----------------------------------------------------------------------------
(* SendQuery hands the query to parse_select_fetch_into; no INTO, one that  *)
(* makes a table, or one behind FROM is none of its business.  The parsers  *)
(* know no quotation, and take the INTO of 'write INTO :a' for a clause.    *)
Start(k, text, refused) ==
    /\ pc = "idle"
    /\ kind' = k /\ doc' = text
    /\ clause' = (text = "host" \/ refused)
    /\ pc' = IF text = "none" THEN "send" ELSE "host"
    /\ UNCHANGED <<var, sqlcode, list, freed, fetflg, row, j, success, reading, old>>

GoTo(place) == pc' = place /\ UNCHANGED <<list, freed, clause, fetflg>>

MutRefuseCuts(r) ==      \* with the INTO clause cut out
    /\ fetflg' = r /\ freed' = (list # <<>>) /\ pc' = "send" /\ clause' = FALSE
    /\ UNCHANGED list

(* free_PSfetchList and an error; the pointer keeps its value. *)
Refuse(r) ==
    /\ fetflg' = r /\ freed' = (list # <<>>) /\ pc' = "send"
    /\ UNCHANGED <<list, clause>>

(* The INTO clause is cut out of the query. *)
Accept ==
    /\ fetflg' = 0 /\ clause' = FALSE /\ pc' = "send"
    /\ UNCHANGED <<list, freed>>

HostVariable(t) ==
    /\ pc = "host"
    /\ \/ t.k = "host" /\ Len(list) < MaxList       \* bound: MaxList
          /\ list' = Append(list, Item(t.v, None)) /\ pc' = "ind"
          /\ UNCHANGED <<freed, clause, fetflg>>
       \/ t.k \in {"glued", "bad"} /\ Refuse(-2)
       \/ t.k \notin {"host", "glued", "bad"} /\ Refuse(-1)

(* Behind the variable, or behind INDICATOR: an indicator, a mark, or a     *)
(* word, which is skipped.                                                  *)
Indicator(t) ==
    \/ t.k = "host" /\ list' = WithIndicator(list, t.v) /\ pc' = "sep"
       /\ UNCHANGED <<freed, clause, fetflg>>
    \/ t.k \in {"glued", "bad"} /\ Refuse(-3)
    \/ t.k = "," /\ GoTo("host")
    \/ t.k = "end" /\ Accept
    \/ t.k = "(" /\ Refuse(-1)
    \/ t.k \in {"word", "FROM", "INDICATOR"} /\ GoTo("sep")

MutBehindVariable(t) ==   \* the keyword is not known
    /\ pc = "ind"
    /\ \/ kind = "select" /\ t.k = "FROM" /\ Accept
       \/ ~(kind = "select" /\ t.k = "FROM") /\ Indicator(t)

BehindVariable(t) ==
    /\ pc = "ind"
    /\ \/ kind = "select" /\ t.k = "FROM" /\ Accept
       \/ t.k = "INDICATOR" /\ GoTo("ind2")
       \/ ~(kind = "select" /\ t.k = "FROM") /\ t.k # "INDICATOR" /\ Indicator(t)

BehindKeyword(t) == pc = "ind2" /\ Indicator(t)

Separator(t) ==
    /\ pc = "sep"
    /\ \/ t.k = "," /\ GoTo("host")
       \/ t.k = "end" /\ Accept
       \/ t.k \notin {",", "end"} /\ Refuse(-1)

Parse ==
    /\ \E t \in Tokens :
          /\ HostVariable(t) \/ BehindVariable(t) \/ BehindKeyword(t) \/ Separator(t)
          /\ Listen(t)
    /\ UNCHANGED <<var, kind, row, j, sqlcode, success, old>>
-----------------------------------------------------------------------------
Return(code, ok) ==
    /\ pc' = "done" /\ sqlcode' = code /\ success' = ok
    /\ UNCHANGED <<var, parser, guide, old>>

(* A query the server refuses, as each that still has host variables in it. *)
Refused ==
    /\ pc = "send" /\ Return(SQL_NONFATAL_ERROR, FALSE)
    /\ UNCHANGED <<row, j>>

(* A result with its rows, as SendQuery and exec_fetchInto take it; that    *)
(* the list was refused with -2 or -3 makes no difference.                  *)
Rows(fields, tuples) ==
    /\ pc = "send" /\ ~clause
    /\ IF fetflg = -1 \/ tuples > 1             \* the result is printed
       THEN Return(SQL_OK, TRUE) /\ UNCHANGED <<row, j>>
       ELSE IF fields = <<>>
       THEN Return(SQL_OK, FALSE) /\ UNCHANGED <<row, j>>
       ELSE IF tuples = 0
       THEN Return(SQL_NOT_FOUND, FALSE) /\ UNCHANGED <<row, j>>
       ELSE /\ pc' = "bind" /\ row' = fields
            /\ sqlcode' = SQL_OK /\ success' = TRUE
            /\ UNCHANGED <<var, parser, j, guide, old>>

(* What bind_variable makes of a value; an integer evaluates it. *)
Text(field) == IF field = NULL THEN "" ELSE field
Stored(text, integer) == IF integer /\ text = "" THEN "0" ELSE text
NoNumber(v, text) == ~var[v].readonly /\ var[v].integer /\ text = "text"

MutAssign(v, text) == [var[v] EXCEPT !.val = Stored(text, var[v].integer)]
(* bind_variable leaves what is readonly alone, and returns it all the same. *)
Assign(v, text) ==
    IF var[v].readonly THEN var[v]
    ELSE [var[v] EXCEPT !.val = Stored(text, var[v].integer)]

Goes(place, next) == pc' = place /\ j' = next /\ UNCHANGED <<parser, row, sqlcode, success, guide, old>>

(* The list that was freed is read: nothing is said of the shell from then  *)
(* on.                                                                      *)
UseFreed ==
    /\ pc = "bind" /\ freed /\ pc' = "lost"
    /\ UNCHANGED <<var, parser, row, j, sqlcode, success, guide, old>>

BindHost ==
    /\ pc = "bind" /\ ~freed /\ j <= Len(row) /\ j <= Len(list)
    /\ LET v == list[j].hostvar  text == Text(row[j])
       IN  /\ ~NoNumber(v, text)
           /\ var' = [var EXCEPT ![v] = Assign(v, text)]
           /\ IF list[j].indicat = None THEN Goes("bind", j + 1) ELSE Goes("mark", j)

IsNull == IF row[j] = NULL THEN "-1" ELSE "0"
MutIndicator ==         \* overwrites the host variable
    /\ pc = "mark"
    /\ var' = [var EXCEPT ![list[j].hostvar] =
                 [val |-> Assign(list[j].indicat, IsNull).val, readonly |-> FALSE, integer |-> TRUE]]
    /\ Goes("bind", j + 1)
(* -PQgetisnull, and the attributes of an integer in place of the others. *)
BindIndicator ==
    /\ pc = "mark"
    /\ var' = [var EXCEPT ![list[j].indicat] =
                 [val |-> Assign(list[j].indicat, IsNull).val, readonly |-> FALSE, integer |-> TRUE]]
    /\ Goes("bind", j + 1)

MutLengthCode == IF j <= Len(row) THEN SQL_TOO_FEW_ARGUMENTS ELSE sqlcode     \* what is left is not looked at
(* The end of the loop: SendQuery frees the list. *)
LengthCode ==
    IF j <= Len(row) THEN SQL_TOO_FEW_ARGUMENTS
    ELSE IF j <= Len(list) THEN SQL_TOO_MANY_ARGUMENTS ELSE sqlcode
RowEnds ==
    /\ pc = "bind" /\ (j > Len(row) \/ j > Len(list))
    /\ sqlcode' = LengthCode
    /\ freed' = (list # <<>>) /\ pc' = "done"
    /\ UNCHANGED <<var, kind, list, clause, fetflg, row, j, success, guide, old>>

(* Back in exec_sql_main: the locals of SendQuery are gone. *)
Finish ==
    /\ kind' = "select" /\ pc' = "idle" /\ list' = <<>>
    /\ freed' = FALSE /\ clause' = FALSE /\ fetflg' = -1
    /\ row' = <<>> /\ j' = 1 /\ success' = FALSE
    /\ doc' = "none" /\ reading' = <<>> /\ old' = var
    /\ UNCHANGED <<var, sqlcode>>

StatementEnds == pc = "done" /\ Finish

(* The arithmetic error of an integer's value jumps to the reader's loop.  *)
BadNumber ==
    /\ pc = "bind" /\ ~freed /\ j <= Len(row) /\ j <= Len(list)
    /\ NoNumber(list[j].hostvar, Text(row[j]))
    /\ Finish

Interrupt == pc \notin {"idle", "lost"} /\ Finish       \* handle_sigint

Next ==
    \/ \E k \in {"select", "fetch"}, text \in {"none", "host", "quoted"}, refused \in BOOLEAN :
          Start(k, text, refused)
    \/ Parse
    \/ Refused
    \/ \E n \in 0 .. MaxFields : \E fields \in [1 .. n -> Fields], tuples \in 0 .. 2 :
          Rows(fields, tuples)
    \/ UseFreed \/ BindHost \/ BindIndicator \/ RowEnds \/ StatementEnds
    \/ BadNumber \/ Interrupt

Spec == Init /\ [][Next]_vars
-----------------------------------------------------------------------------
Variable == [val : Texts, readonly : BOOLEAN, integer : BOOLEAN]
Lists == Seq([hostvar : Var, indicat : Var \cup {None}])

TypeOK ==
    /\ var \in [Var -> Variable] /\ old \in [Var -> Variable]
    /\ sqlcode \in {SQL_OK, SQL_NOT_FOUND, SQL_TOO_MANY_ARGUMENTS, SQL_TOO_FEW_ARGUMENTS, SQL_NONFATAL_ERROR}
    /\ kind \in {"select", "fetch"}
    /\ pc \in {"idle", "host", "ind", "ind2", "sep", "send", "bind", "mark", "done",
              "lost"}
    /\ list \in Lists /\ reading \in Lists
    /\ freed \in BOOLEAN /\ clause \in BOOLEAN /\ success \in BOOLEAN
    /\ fetflg \in {0, -1, -2, -3}
    /\ row \in Seq(Fields) /\ j \in Nat \ {0}
    /\ doc \in {"none", "host", "ind", "ind2", "sep", "done", "glued", "behind", "bad",
               "quoted"}
-----------------------------------------------------------------------------
(* Binding as a whole: place <<i, 0>> is the host variable of item i, and   *)
(* <<i, 1>> its indicator; they are bound in this order.                    *)
Precedes(p, q) == 2 * p[1] + p[2] < 2 * q[1] + q[2]
Target(p) == IF p[2] = 0 THEN list[p[1]].hostvar ELSE list[p[1]].indicat

Bound ==      \* the places bound so far
    {p \in (1 .. Len(list)) \X {0, 1} : p[1] < j \/ (pc = "mark" /\ p = <<j, 0>>)}

MadeInteger(v, p) == \E q \in Bound : Precedes(q, p) /\ q[2] = 1 /\ Target(q) = v
Effective(v) == {p \in Bound : Target(p) = v /\ (~old[v].readonly \/ MadeInteger(v, p))}

Given(x, p) ==
    IF p[2] = 1 THEN (x = "0") <=> (row[p[1]] # NULL)
    ELSE x = Stored(Text(row[p[1]]), old[Target(p)].integer \/ MadeInteger(Target(p), p))

(* A fetched row goes field by field to the variables that the INTO clause  *)
(* lists, and a variable that is listed twice holds what the last of its    *)
(* places gave it; every other variable, and every variable when no single  *)
(* row came, is what it was before (exec_fetchInto).  An indicator is 0     *)
(* unless its field is NULL; the guide has two values for that, 1 and -1.   *)
RightFields ==
    \A v \in Var :
       IF Effective(v) = {} THEN var[v].val = old[v].val
       ELSE \E p \in Effective(v) :
              /\ \A q \in Effective(v) : q = p \/ Precedes(q, p)
              /\ Given(var[v].val, p)

(* A list that is shorter or longer than the row is told by its code, and   *)
(* only then (the end of exec_fetchInto).                                   *)
LengthIsTold ==
    pc = "done" /\ row # <<>> =>
       /\ (sqlcode = SQL_TOO_FEW_ARGUMENTS) <=> (Len(list) < Len(row))
       /\ (sqlcode = SQL_TOO_MANY_ARGUMENTS) <=> (Len(list) > Len(row))
       /\ sqlcode = SQL_OK <=> (Len(list) = Len(row))

(* exec_fetchInto binds through a list that nobody has freed, although the  *)
(* parsers free it and leave the pointer to SendQuery: the server refuses   *)
(* the query then, unless what the parsers took for an INTO clause stands   *)
(* in a string or a comment (UseFreed).                                     *)
ListIsAlive == pc \in {"bind", "mark"} /\ doc # "quoted" => ~freed /\ fetflg = 0

(* An INTO clause written as the guide has it is not refused in the middle, *)
(* is read as it is written, and is gone from the query; the slips are      *)
(* those of DocNext (parse_selectInto, parse_fetchInto).                    *)
ReadsAsDocumented ==
    pc = "send" =>
       /\ doc \notin {"host", "ind", "ind2", "sep"}
       /\ doc = "done" => fetflg = 0 /\ ~clause /\ list = reading

(* The guide, and the comment before parse_selectInto, write an indicator   *)
(* right behind its variable.                                               *)
GluedIsRead == pc = "send" /\ doc = "glued" => fetflg = 0

-----------------------------------------------------------------------------
(* The inductive invariant: the parser is where the guide's grammar is as   *)
(* long as the text is the guide's; a freed list goes with an INTO clause   *)
(* that is still there, or with a quoted one; attributes change where an    *)
(* indicator was bound.                                                     *)
Parsing == pc \in {"host", "ind", "ind2", "sep"}
Binding == pc \in {"bind", "mark"}

ParserOK ==
    /\ Parsing => /\ doc \in {pc, "glued", "behind", "bad", "quoted"}
                  /\ doc = pc => list = reading
                  /\ clause \/ doc = "quoted"
                  /\ ~freed /\ fetflg = -1
                  /\ pc # "host" => list # <<>>
    /\ pc = "send" => /\ doc \in {"none", "done", "glued", "behind", "bad", "quoted"}
                      /\ freed \/ fetflg < -1 => clause \/ doc = "quoted"
    /\ pc \in {"idle", "send"} \/ Parsing => row = <<>> /\ j = 1
    /\ pc = "idle" => list = <<>> /\ reading = <<>> /\ ~freed /\ fetflg = -1

BindingOK ==
    /\ Binding => /\ sqlcode = SQL_OK /\ row # <<>>
                  /\ j <= Len(row) + 1 /\ j <= Len(list) + 1
    /\ pc = "bind" /\ freed => j = 1
    /\ pc = "lost" => j = 1
    /\ pc = "mark" => ~freed /\ j <= Len(row) /\ j <= Len(list) /\ list[j].indicat # None
    /\ pc = "done" /\ row = <<>> => j = 1
    /\ \A v \in Var :
          LET made == \E q \in Bound : q[2] = 1 /\ Target(q) = v
          IN  /\ var[v].readonly = (old[v].readonly /\ ~made)
              /\ var[v].integer = (old[v].integer \/ made)

FInv ==
    /\ TypeOK
    /\ ParserOK
    /\ BindingOK
    /\ RightFields
    /\ LengthIsTold
    /\ ListIsAlive
    /\ ReadsAsDocumented
=============================================================================
