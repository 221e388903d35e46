---------------------------- MODULE FetchProofs ----------------------------
(***************************************************************************)
(* SELECT INTO and FETCH INTO, for every set of variables and every bound.  *)
(*                                                                         *)
(* FInv is inductive.  What a step binds is one more place, which comes     *)
(* behind all that are bound: BindHost and BindIndicator add it to Bound,   *)
(* and so to the effective places of one variable only.                     *)
(***************************************************************************)
EXTENDS Fetch, SequenceTheorems, TLAPS

USE FetchAssumption DEF NULL, None

(* While nothing is bound, nothing that binding is about changes. *)
LEMMA NothingBound ==
    ASSUME TypeOK, j = 1, pc # "mark" PROVE Bound = {}
BY DEF Bound, TypeOK

LEMMA Untouched ==
    ASSUME TypeOK, Bound = {}, BindingOK, RightFields
    PROVE  \A v \in Var : var[v].val = old[v].val /\ var[v].readonly = old[v].readonly
                          /\ var[v].integer = old[v].integer
<1>1. \A v \in Var : Effective(v) = {}
  BY DEF Effective
<1>2. ASSUME NEW v \in Var
      PROVE  var[v].readonly = old[v].readonly /\ var[v].integer = old[v].integer
  <2>1. var[v].readonly \in BOOLEAN /\ old[v].readonly \in BOOLEAN
        /\ var[v].integer \in BOOLEAN /\ old[v].integer \in BOOLEAN
    BY DEF TypeOK, Variable
  <2> QED BY <2>1 DEF BindingOK
<1> QED BY <1>1, <1>2 DEF RightFields

LEMMA StillUntouched ==
    ASSUME TypeOK, BindingOK, RightFields, var' = var, Bound' = {}, old' = old, Bound = {}
    PROVE  RightFields' /\ \A v \in Var : /\ var'[v].readonly = old'[v].readonly
                                          /\ var'[v].integer = old'[v].integer
<1>1. \A v \in Var : Effective(v)' = {}
  BY DEF Effective
<1> QED BY <1>1, Untouched DEF RightFields

LEMMA StartOK ==
    ASSUME FInv, NEW k \in {"select", "fetch"}, NEW text \in {"none", "host", "quoted"},
           NEW refused \in BOOLEAN, Start(k, text, refused)
    PROVE  FInv'
<1>1. TypeOK'
  BY DEF Start, FInv, TypeOK
<1>2. ParserOK'
  <2>1. /\ pc = "idle" /\ doc' = text /\ UNCHANGED <<list, reading, freed, fetflg, row, j>>
        /\ pc' = IF text = "none" THEN "send" ELSE "host"
        /\ text = "host" => clause'
    BY DEF Start
  <2>2. list = <<>> /\ reading = <<>> /\ freed = FALSE /\ fetflg = -1 /\ row = <<>> /\ j = 1
    BY <2>1 DEF FInv, ParserOK, TypeOK
  <2> QED BY <2>1, <2>2 DEF ParserOK, Parsing
<1>3. Bound = {} /\ Bound' = {}
  BY <1>1, NothingBound DEF Start, FInv, TypeOK, ParserOK, Parsing, Bound
<1>4. RightFields' /\ BindingOK'
  BY <1>3, StillUntouched DEF Start, FInv, BindingOK, Binding, ParserOK
<1> QED
  BY <1>1, <1>2, <1>4 DEF Start, FInv, LengthIsTold, ListIsAlive, ReadsAsDocumented

(* One more item, and an indicator for the last one. *)
LEMMA ListTypes ==
    ASSUME NEW l \in Lists, NEW v \in Var
    PROVE  /\ Append(l, Item(v, None)) \in Lists /\ Append(l, Item(v, None)) # <<>>
           /\ l # <<>> => WithIndicator(l, v) \in Lists /\ WithIndicator(l, v) # <<>>
<1>1. Item(v, None) \in [hostvar : Var, indicat : Var \cup {None}]
  BY DEF Item
<1>2. Append(l, Item(v, None)) \in Lists /\ Append(l, Item(v, None)) # <<>>
  BY <1>1 DEF Lists
<1>3. ASSUME l # <<>> PROVE WithIndicator(l, v) \in Lists /\ WithIndicator(l, v) # <<>>
  <2>1. Len(l) \in 1 .. Len(l) /\ l[Len(l)] \in [hostvar : Var, indicat : Var \cup {None}]
    <3>1. Len(l) \in Nat /\ Len(l) # 0
      BY <1>3, EmptySeq DEF Lists
    <3>2. Len(l) \in 1 .. Len(l)
      BY <3>1
    <3> QED BY <3>2, ElementOfSeq DEF Lists
  <2>2. [l[Len(l)] EXCEPT !.indicat = v] \in [hostvar : Var, indicat : Var \cup {None}]
    BY <2>1
  <2>3. WithIndicator(l, v) = [l EXCEPT ![Len(l)] = [l[Len(l)] EXCEPT !.indicat = v]]
    BY DEF WithIndicator
  <2>4. WithIndicator(l, v) \in Lists /\ Len(WithIndicator(l, v)) = Len(l)
    BY <2>1, <2>2, <2>3 DEF Lists
  <2> QED BY <1>3, <2>4 DEF Lists
<1> QED BY <1>2, <1>3

(* What a token does to the list, by the place it leads to. *)
Same == UNCHANGED <<list, freed, clause, fetflg>>
Adds(t) ==
    /\ pc = "host" /\ t.k = "host" /\ pc' = "ind"
    /\ list' = Append(list, Item(t.v, None)) /\ UNCHANGED <<freed, clause, fetflg>>
Completes(t) ==
    /\ pc \in {"ind", "ind2"} /\ t.k = "host" /\ pc' = "sep"
    /\ list' = WithIndicator(list, t.v) /\ UNCHANGED <<freed, clause, fetflg>>
Moves(t) ==
    /\ Same
    /\ \/ pc = "ind" /\ t.k = "INDICATOR" /\ pc' = "ind2"
       \/ pc \in {"ind", "ind2", "sep"} /\ t.k = "," /\ pc' = "host"
       \/ /\ pc \in {"ind", "ind2"} /\ t.k \in {"word", "FROM", "INDICATOR"} /\ pc' = "sep"
          /\ pc = "ind" => t.k # "INDICATOR" /\ ~(t.k = "FROM" /\ kind = "select")
Accepts(t) ==
    /\ pc \in {"ind", "ind2", "sep"} /\ pc' = "send" /\ fetflg' = 0 /\ clause' = FALSE
    /\ UNCHANGED <<list, freed>>
    /\ t.k = "end" \/ (pc = "ind" /\ t.k = "FROM" /\ kind = "select")
Refuses(t) ==
    /\ pc' = "send" /\ fetflg' \in {-1, -2, -3} /\ freed' \in BOOLEAN /\ UNCHANGED <<list, clause>>
    /\ \/ t.k \in {"glued", "bad", "("}
       \/ pc = "host" /\ t.k # "host"
       \/ pc = "sep" /\ t.k \notin {",", "end"}

LEMMA ParserSteps ==
    ASSUME NEW t \in Tokens,
           HostVariable(t) \/ BehindVariable(t) \/ BehindKeyword(t) \/ Separator(t)
    PROVE  /\ Parsing
           /\ Adds(t) \/ Completes(t) \/ Moves(t) \/ Accepts(t) \/ Refuses(t)
<1> USE DEF Adds, Completes, Moves, Accepts, Refuses, Same, Parsing
<1>1. CASE HostVariable(t)
  BY <1>1 DEF HostVariable, Refuse
<1>2. ASSUME Indicator(t), pc \in {"ind", "ind2"},
             pc = "ind" => t.k # "INDICATOR" /\ ~(t.k = "FROM" /\ kind = "select")
      PROVE  Completes(t) \/ Moves(t) \/ Accepts(t) \/ Refuses(t)
  BY <1>2 DEF Indicator, Refuse, Accept, GoTo
<1>3. CASE BehindVariable(t)
  BY <1>2, <1>3 DEF BehindVariable, Accept, GoTo
<1>4. CASE BehindKeyword(t)
  BY <1>2, <1>4 DEF BehindKeyword
<1>5. CASE Separator(t)
  BY <1>5 DEF Separator, Refuse, Accept, GoTo
<1> QED BY <1>1, <1>3, <1>4, <1>5

(* The guide's grammar goes where the parser goes, or gives up. *)
LEMMA ParseOK == FInv /\ Parse => FInv'
<1> SUFFICES ASSUME FInv, NEW t \in Tokens,
                    HostVariable(t) \/ BehindVariable(t) \/ BehindKeyword(t) \/ Separator(t),
                    Listen(t), UNCHANGED <<var, kind, row, j, sqlcode, success, old>>
             PROVE  FInv'
  BY DEF Parse
<1>1. Parsing /\ (Adds(t) \/ Completes(t) \/ Moves(t) \/ Accepts(t) \/ Refuses(t))
  BY ParserSteps
<1>2. /\ row = <<>> /\ j = 1 /\ freed = FALSE /\ fetflg = -1
      /\ clause = TRUE \/ doc = "quoted"
      /\ pc # "host" => list # <<>>
      /\ doc \in {pc, "glued", "behind", "bad", "quoted"} /\ (doc = pc => list = reading)
  BY <1>1 DEF FInv, ParserOK, Parsing, TypeOK
<1>3. (t.k = "host" => t.v \in Var) /\ list \in Lists /\ reading \in Lists
  BY DEF Tokens, Marks, FInv, TypeOK
<1>4. list' \in Lists /\ (pc' \in {"ind", "ind2", "sep"} => list' # <<>>)
                     /\ (pc' = "host" => list' = list)
  BY <1>1, <1>2, <1>3, ListTypes DEF Adds, Completes, Moves, Accepts, Refuses, Same
<1>5. /\ reading' \in Lists /\ doc' \in {pc', "done", "glued", "behind", "bad", "quoted"}
      /\ doc' # "send" /\ (doc' = "quoted" <=> doc = "quoted")
  <2>1. reading' \in Lists
    BY <1>1, <1>2, <1>3, ListTypes DEF Listen, Parsing
  <2>2. doc' \in {pc', "done", "glued", "behind", "bad", "quoted"}
    BY <1>1, <1>2 DEF Listen, DocNext, Parsing, Adds, Completes, Moves, Accepts, Refuses
  <2>3. doc' # "send" /\ (doc' = "quoted" <=> doc = "quoted")
    BY <1>1, <1>2 DEF Listen, DocNext, Parsing
  <2> QED BY <2>1, <2>2, <2>3
<1>6. /\ pc' \in {"host", "ind", "ind2", "sep"} /\ doc' = pc' => list' = reading'
      /\ doc' = "done" => pc' = "send" /\ fetflg' = 0 /\ ~clause' /\ list' = reading'
  BY <1>1, <1>2 DEF Listen, DocNext, Parsing, Adds, Completes, Moves, Accepts, Refuses, Same
<1>7. TypeOK'
  <2>1. /\ pc' \in {"host", "ind", "ind2", "sep", "send"} /\ fetflg' \in {0, -1, -2, -3}
        /\ freed' \in BOOLEAN /\ clause' \in BOOLEAN
    BY <1>1, <1>2 DEF FInv, TypeOK, Adds, Completes, Moves, Accepts, Refuses, Same
  <2>2. doc' \in {"none", "host", "ind", "ind2", "sep", "done", "glued", "behind", "bad",
                 "quoted"}
    BY <1>5, <2>1, <1>6, <1>1 DEF Listen, DocNext
  <2> QED BY <1>4, <1>5, <2>1, <2>2 DEF FInv, TypeOK
<1>8. pc' \in {"host", "ind", "ind2", "sep", "send"}
      /\ (pc' # "send" => clause' = clause /\ freed' = FALSE /\ fetflg' = -1)
      /\ (pc' = "send" => clause' = clause \/ (freed' = FALSE /\ fetflg' = 0))
  <2>1. CASE Adds(t) \/ Completes(t) \/ Moves(t)
    BY <1>2, <2>1 DEF Adds, Completes, Moves, Same
  <2>2. CASE Accepts(t)
    BY <1>2, <2>2 DEF Accepts
  <2>3. CASE Refuses(t)
    BY <1>2, <2>3 DEF Refuses
  <2> QED BY <1>1, <2>1, <2>2, <2>3
<1>9. ParserOK'
  BY <1>2, <1>4, <1>5, <1>6, <1>8 DEF ParserOK, Parsing
<1>10. Bound = {} /\ Bound' = {}
  BY <1>1, <1>2, <1>7, <1>8, NothingBound DEF FInv, Parsing, Bound, TypeOK
<1>11. RightFields' /\ BindingOK'
  BY <1>2, <1>8, <1>10, StillUntouched DEF FInv, BindingOK, Binding
<1>12. ReadsAsDocumented'
  BY <1>5, <1>6 DEF ReadsAsDocumented
<1> QED
  BY <1>2, <1>7, <1>8, <1>9, <1>11, <1>12 DEF FInv, LengthIsTold, ListIsAlive

(* Places are pairs, and numbers can tell their order. *)
LEMMA Places ==
    ASSUME TypeOK, NEW p \in Bound
    PROVE  /\ p[1] \in 1 .. Len(list) /\ p[2] \in {0, 1} /\ p = <<p[1], p[2]>>
           /\ p[1] < j \/ (pc = "mark" /\ p = <<j, 0>>)
BY DEF Bound, TypeOK

Made(v) == \E q \in Bound : q[2] = 1 /\ Target(q) = v

(* Binding one place more: n comes behind all others, and what else the step *)
(* passes (empty) names no variable.                                        *)
LEMMA OneMore ==
    ASSUME TypeOK, BindingOK, RightFields, UNCHANGED <<list, row, old>>,
           NEW n, NEW empty, n[1] \in Nat, n[2] \in {0, 1}, Target(n) \in Var,
           Bound' = Bound \cup {n} \cup empty,
           \A p \in Bound : Precedes(p, n) /\ p # n,
           \A p \in empty : Target(p) = None,
           NEW new \in Variable, var' = [var EXCEPT ![Target(n)] = new],
           ~var[Target(n)].readonly =>
              IF n[2] = 1 THEN (new.val = "0") <=> (row[n[1]] # NULL)
              ELSE new.val = Stored(Text(row[n[1]]), var[Target(n)].integer),
           var[Target(n)].readonly => new.val = var[Target(n)].val,
           n[2] = 1 => new.readonly = FALSE /\ new.integer = TRUE,
           n[2] = 0 => new.readonly = var[Target(n)].readonly /\ new.integer = var[Target(n)].integer
    PROVE  /\ RightFields'
           /\ \A v \in Var : /\ var'[v].readonly = (old'[v].readonly /\ ~Made(v)')
                             /\ var'[v].integer = (old'[v].integer \/ Made(v)')
<1> DEFINE w == Target(n)
<1>1. \A p : Target(p)' = Target(p)
  BY DEF Target
<1>2. ASSUME NEW v \in Var, NEW p \in Bound PROVE MadeInteger(v, p)' <=> MadeInteger(v, p)
  <2>1. p[1] \in Int /\ p[2] \in Int /\ n[1] \in Int /\ n[2] \in Int
    BY Places
  <2>2. ~Precedes(n, p)
    BY <2>1 DEF Precedes
  <2> QED BY <1>1, <2>2 DEF MadeInteger
<1>3. ASSUME NEW v \in Var PROVE MadeInteger(v, n)' <=> Made(v)
  <2>1. ~Precedes(n, n)
    BY DEF Precedes
  <2> QED BY <1>1, <2>1 DEF MadeInteger, Made
<1>4. ASSUME NEW v \in Var
      PROVE  /\ var[v].readonly \in BOOLEAN /\ var[v].integer \in BOOLEAN /\ old[v].readonly \in BOOLEAN
             /\ old[v].integer \in BOOLEAN
             /\ var[v].readonly <=> (old[v].readonly /\ ~Made(v))
             /\ var[v].integer <=> (old[v].integer \/ Made(v))
  BY DEF TypeOK, Variable, BindingOK, Made
<1>5. ASSUME NEW v \in Var
      PROVE  Effective(v)' = Effective(v) \cup (IF v = w /\ ~var[v].readonly THEN {n} ELSE {})
  BY <1>1, <1>2, <1>3, <1>4 DEF Effective
<1>6. ASSUME NEW v \in Var, NEW p \in Effective(v), var'[v].val = var[v].val,
             Given(var[v].val, p)
      PROVE  Given(var[v].val, p)'
  BY <1>1, <1>2, <1>6 DEF Effective, Given
<1>7. ASSUME NEW v \in Var, v = w, ~var[v].readonly, var'[v].val = new.val
      PROVE  Given(var[v].val, n)'
  BY <1>1, <1>3, <1>4, <1>7 DEF Given, Stored
<1>8. RightFields'
  <2> SUFFICES ASSUME NEW v \in Var
               PROVE  IF Effective(v)' = {} THEN var'[v].val = old'[v].val
                      ELSE \E p \in Effective(v)' :
                             /\ \A q \in Effective(v)' : q = p \/ Precedes(q, p)
                             /\ Given(var[v].val, p)'
    BY DEF RightFields, Precedes
  <2>1. CASE v = w /\ ~var[v].readonly
    <3>1. n \in Effective(v)' /\ \A q \in Effective(v)' : q = n \/ Precedes(q, n)
      BY <1>5, <2>1 DEF Effective
    <3>2. Given(var[v].val, n)'
      <4>1. var'[w].val = new.val
        BY DEF TypeOK
      <4> QED BY <1>7, <2>1, <4>1
    <3> QED BY <3>1, <3>2
  <2>2. CASE ~(v = w /\ ~var[v].readonly)
    <3>1. Effective(v)' = Effective(v) /\ var'[v].val = var[v].val /\ old' = old
      BY <1>5, <2>2 DEF TypeOK
    <3> QED BY <1>6, <3>1 DEF RightFields
  <2> QED BY <2>1, <2>2
<1>9. ASSUME NEW v \in Var
      PROVE  /\ var'[v].readonly = (old'[v].readonly /\ ~Made(v)')
             /\ var'[v].integer = (old'[v].integer \/ Made(v)')
  <2>1. Made(v)' <=> (Made(v) \/ (v = w /\ n[2] = 1))
    BY <1>1 DEF Made
  <2>2. var'[v] = IF v = w THEN new ELSE var[v]
    BY DEF TypeOK
  <2>3. var'[v].readonly \in BOOLEAN /\ var'[v].integer \in BOOLEAN
    BY <1>4, <2>2 DEF Variable
  <2>4. /\ var'[v].readonly <=> (old'[v].readonly /\ ~Made(v)')
        /\ var'[v].integer <=> (old'[v].integer \/ Made(v)')
    BY <1>4, <2>1, <2>2
  <2> QED BY <1>4, <2>3, <2>4
<1> QED BY <1>8, <1>9

Codes == {SQL_OK, SQL_NOT_FOUND, SQL_TOO_MANY_ARGUMENTS, SQL_TOO_FEW_ARGUMENTS, SQL_NONFATAL_ERROR}

(* SendQuery returns without a row of its own. *)
LEMMA ReturnOK ==
    ASSUME FInv, pc = "send", NEW code \in Codes, NEW ok \in BOOLEAN,
           Return(code, ok), UNCHANGED <<row, j>>
    PROVE  FInv'
<1>1. TypeOK'
  BY DEF FInv, TypeOK, Return, parser, guide, Codes
<1>2. row = <<>> /\ j = 1
  BY DEF FInv, ParserOK
<1>3. Bound = {} /\ Bound' = {}
  BY <1>1, <1>2, NothingBound DEF Return, parser, FInv, TypeOK, Bound
<1>4. RightFields' /\ BindingOK'
  BY <1>2, <1>3, StillUntouched DEF Return, FInv, BindingOK, Binding
<1> QED
  BY <1>1, <1>2, <1>4 DEF Return, parser, guide, FInv, ParserOK, Parsing, LengthIsTold, ListIsAlive,
                          ReadsAsDocumented

LEMMA RowsOK ==
    ASSUME FInv, NEW n \in 0 .. MaxFields, NEW fields \in [1 .. n -> Fields], NEW tuples \in 0 .. 2,
           Rows(fields, tuples)
    PROVE  FInv'
<1>1. CASE pc' # "bind"
  <2>1. (\E code \in Codes, ok \in BOOLEAN : Return(code, ok)) /\ UNCHANGED <<row, j>>
    BY <1>1 DEF Rows, Codes
  <2> QED BY <2>1, ReturnOK DEF Rows
<1>2. CASE pc' = "bind"
  <2>1. /\ pc = "send" /\ ~clause /\ fetflg # -1 /\ fields # <<>> /\ row' = fields
        /\ sqlcode' = SQL_OK /\ success' = TRUE /\ UNCHANGED <<var, parser, j, guide, old>>
    BY <1>2 DEF Rows, Return
  <2>2. row' \in Seq(Fields)
    BY <2>1 DEF FetchAssumption
  <2>3. TypeOK'
    BY <1>2, <2>1, <2>2 DEF FInv, TypeOK, parser, guide
  <2>4. j = 1 /\ (doc # "quoted" => ~freed /\ fetflg = 0)
    BY <2>1 DEF FInv, TypeOK, ParserOK
  <2>5. Bound = {} /\ Bound' = {}
    BY <1>2, <2>1, <2>3, <2>4, NothingBound DEF parser, FInv, TypeOK, Bound
  <2>6. 1 <= Len(row)' + 1 /\ 1 <= Len(list)' + 1
    BY <2>3 DEF TypeOK, Lists
  <2>7. RightFields' /\ BindingOK'
    BY <1>2, <2>1, <2>4, <2>5, <2>6, StillUntouched DEF FInv, BindingOK, Binding
  <2> QED
    BY <1>2, <2>1, <2>3, <2>4, <2>7 DEF parser, guide, FInv, ParserOK, Parsing, LengthIsTold, ListIsAlive,
                                        ReadsAsDocumented
<1> QED BY <1>1, <1>2

(* What reading a freed list does is left open. *)
LEMMA UseFreedOK == FInv /\ UseFreed => FInv'
<1> SUFFICES ASSUME FInv, UseFreed PROVE FInv'
  OBVIOUS
<1>1. /\ pc = "bind" /\ freed /\ pc' = "lost"
      /\ UNCHANGED <<var, kind, list, freed, clause, fetflg, row, j, sqlcode, success, doc, reading, old>>
  BY DEF UseFreed, parser, guide
<1>2. j = 1 /\ row # <<>>
  BY <1>1 DEF FInv, BindingOK, Binding
<1>3. TypeOK'
  BY <1>1 DEF FInv, TypeOK
<1>4. Bound' = Bound
  BY <1>1 DEF Bound
<1>5. RightFields'
  BY <1>1, <1>4 DEF FInv, RightFields, Effective, MadeInteger, Given, Target
<1>6. BindingOK'
  BY <1>1, <1>2, <1>4 DEF FInv, BindingOK, Binding, Target
<1> QED
  BY <1>1, <1>3, <1>5, <1>6 DEF FInv, ParserOK, Parsing, LengthIsTold, ListIsAlive, ReadsAsDocumented

(* The item and the field of a binding step. *)
LEMMA ItemTypes ==
    ASSUME TypeOK, j <= Len(row), j <= Len(list)
    PROVE  /\ j \in 1 .. Len(row) /\ j \in 1 .. Len(list) /\ row[j] \in Fields
           /\ list[j].hostvar \in Var /\ list[j].indicat \in Var \cup {None}
<1>1. j \in 1 .. Len(row) /\ j \in 1 .. Len(list)
  BY DEF TypeOK, Lists
<1>2. row[j] \in Fields /\ list[j] \in [hostvar : Var, indicat : Var \cup {None}]
  BY <1>1, ElementOfSeq DEF TypeOK, Lists
<1> QED BY <1>1, <1>2

LEMMA AssignOK ==
    ASSUME TypeOK, NEW v \in Var, NEW text \in Texts
    PROVE  /\ Assign(v, text) \in Variable
           /\ Assign(v, text).readonly = var[v].readonly /\ Assign(v, text).integer = var[v].integer
           /\ Assign(v, text).val = IF var[v].readonly THEN var[v].val ELSE Stored(text, var[v].integer)
BY DEF TypeOK, Variable, Assign, Stored, Texts

LEMMA BindHostOK == FInv /\ BindHost => FInv'
<1> SUFFICES ASSUME FInv, BindHost PROVE FInv'
  OBVIOUS
<1> DEFINE v == list[j].hostvar
           n == <<j, 0>>
           empty == IF list[j].indicat = None THEN {<<j, 1>>} ELSE {}
           new == Assign(v, Text(row[j]))
<1>1. /\ pc = "bind" /\ ~freed /\ j <= Len(row) /\ j <= Len(list) /\ var' = [var EXCEPT ![v] = new]
      /\ UNCHANGED <<kind, list, freed, clause, fetflg, row, sqlcode, success, doc, reading, old>>
      /\ \/ list[j].indicat = None /\ pc' = "bind" /\ j' = j + 1
         \/ list[j].indicat # None /\ pc' = "mark" /\ j' = j
  BY DEF BindHost, Goes, parser, guide
<1>2. TypeOK /\ BindingOK /\ RightFields
  BY DEF FInv
<1>3. j \in 1 .. Len(row) /\ j \in 1 .. Len(list) /\ row[j] \in Fields /\ v \in Var
  BY <1>1, <1>2, ItemTypes
<1>4. Text(row[j]) \in Texts
  BY <1>3 DEF Fields, Text, Texts
<1>5. new \in Variable
  BY <1>2, <1>3, <1>4, AssignOK
<1>6. TypeOK'
  BY <1>1, <1>2, <1>3, <1>5 DEF TypeOK
<1>7. Bound' = Bound \cup {n} \cup empty
  BY <1>1, <1>2, <1>3 DEF Bound, TypeOK
<1>8. \A p \in Bound : Precedes(p, n) /\ p # n
  BY <1>1, <1>2, <1>3, Places DEF Precedes
<1>9. RightFields' /\ \A u \in Var : /\ var'[u].readonly = (old'[u].readonly /\ ~Made(u)')
                                     /\ var'[u].integer = (old'[u].integer \/ Made(u)')
  <2>1. n[1] = j /\ j \in Nat /\ n[2] = 0 /\ Target(n) = v /\ \A p \in empty : Target(p) = None
    BY <1>3 DEF Target
  <2>2. /\ new.readonly = var[v].readonly /\ new.integer = var[v].integer
        /\ new.val = IF var[v].readonly THEN var[v].val ELSE Stored(Text(row[j]), var[v].integer)
    BY <1>2, <1>3, <1>4, AssignOK
  <2> HIDE DEF n, v, new, empty
  <2>3. /\ var' = [var EXCEPT ![Target(n)] = new] /\ Target(n) \in Var /\ n[2] \in {0, 1} /\ n[1] \in Nat
        /\ ~var[Target(n)].readonly =>
              IF n[2] = 1 THEN (new.val = "0") <=> (row[n[1]] # NULL)
              ELSE new.val = Stored(Text(row[n[1]]), var[Target(n)].integer)
        /\ var[Target(n)].readonly => new.val = var[Target(n)].val
        /\ n[2] = 0 => new.readonly = var[Target(n)].readonly /\ new.integer = var[Target(n)].integer
        /\ n[2] = 1 => new.readonly = FALSE /\ new.integer = TRUE
    BY <1>1, <1>3, <2>1, <2>2
  <2>4. UNCHANGED <<list, row, old>>
    BY <1>1
  <2> QED BY <1>2, <1>5, <1>7, <1>8, <2>1, <2>3, <2>4, OneMore
<1>10. BindingOK'
  BY <1>1, <1>2, <1>3, <1>9 DEF BindingOK, Binding, Made
<1> QED
  BY <1>1, <1>6, <1>9, <1>10 DEF FInv, ParserOK, Parsing, LengthIsTold, ListIsAlive, ReadsAsDocumented

LEMMA BindIndicatorOK == FInv /\ BindIndicator => FInv'
<1> SUFFICES ASSUME FInv, BindIndicator PROVE FInv'
  OBVIOUS
<1> DEFINE v == list[j].indicat
           n == <<j, 1>>
           empty == {}
           new == [val |-> Assign(v, IsNull).val, readonly |-> FALSE, integer |-> TRUE]
<1>1. /\ pc = "mark" /\ pc' = "bind" /\ j' = j + 1 /\ var' = [var EXCEPT ![v] = new]
      /\ UNCHANGED <<kind, list, freed, clause, fetflg, row, sqlcode, success, doc, reading, old>>
  BY DEF BindIndicator, Goes, parser, guide
<1>2. TypeOK /\ BindingOK /\ RightFields
  BY DEF FInv
<1>3. j \in 1 .. Len(row) /\ j \in 1 .. Len(list) /\ row[j] \in Fields /\ v \in Var
  BY <1>1, <1>2, ItemTypes DEF BindingOK
<1>4. IsNull \in Texts /\ \A integer : Stored(IsNull, integer) = IsNull
  BY DEF IsNull, Texts, Stored
<1>5. /\ new \in Variable
      /\ new.val = IF var[v].readonly THEN var[v].val ELSE IF row[j] = NULL THEN "-1" ELSE "0"
  BY <1>2, <1>3, <1>4, AssignOK DEF Variable, IsNull
<1>6. TypeOK'
  BY <1>1, <1>2, <1>3, <1>5 DEF TypeOK
<1>7. Bound' = Bound \cup {n} \cup empty
  <2>1. /\ {p \in (1 .. Len(list)) \X {0, 1} : p[1] < j + 1}
           = {p \in (1 .. Len(list)) \X {0, 1} : p[1] < j \/ p = <<j, 0>>} \cup {n}
        /\ j \in Nat
    BY <1>3
  <2> QED BY <1>1, <2>1 DEF Bound
<1>8. \A p \in Bound : Precedes(p, n) /\ p # n
  BY <1>1, <1>2, <1>3, Places DEF Precedes
<1>9. RightFields' /\ \A u \in Var : /\ var'[u].readonly = (old'[u].readonly /\ ~Made(u)')
                                     /\ var'[u].integer = (old'[u].integer \/ Made(u)')
  <2>1. n[1] = j /\ j \in Nat /\ n[2] = 1 /\ Target(n) = v /\ new.readonly = FALSE /\ new.integer = TRUE
    BY <1>3 DEF Target
  <2>4. \A p \in empty : Target(p) = None
    OBVIOUS
  <2> HIDE DEF n, v, new, empty
  <2>2. /\ var' = [var EXCEPT ![Target(n)] = new] /\ Target(n) \in Var /\ n[2] \in {0, 1} /\ n[1] \in Nat
        /\ ~var[Target(n)].readonly =>
              IF n[2] = 1 THEN (new.val = "0") <=> (row[n[1]] # NULL)
              ELSE new.val = Stored(Text(row[n[1]]), var[Target(n)].integer)
        /\ var[Target(n)].readonly => new.val = var[Target(n)].val
        /\ n[2] = 0 => new.readonly = var[Target(n)].readonly /\ new.integer = var[Target(n)].integer
        /\ n[2] = 1 => new.readonly = FALSE /\ new.integer = TRUE
    BY <1>1, <1>3, <1>5, <2>1
  <2>3. UNCHANGED <<list, row, old>>
    BY <1>1
  <2>5. new \in Variable
    BY <1>5
  <2> QED BY <1>2, <1>7, <1>8, <2>2, <2>3, <2>4, <2>5, OneMore
<1>10. BindingOK'
  <2>1. /\ ~freed /\ sqlcode = SQL_OK /\ row # <<>> /\ j + 1 <= Len(row) + 1 /\ j + 1 <= Len(list) + 1
    BY <1>1, <1>2, <1>3 DEF BindingOK, Binding, TypeOK, Lists
  <2> QED BY <1>1, <1>9, <2>1 DEF BindingOK, Made
<1> QED
  BY <1>1, <1>6, <1>9, <1>10 DEF FInv, ParserOK, Parsing, LengthIsTold, ListIsAlive, ReadsAsDocumented

LEMMA RowEndsOK == FInv /\ RowEnds => FInv'
<1> SUFFICES ASSUME FInv, RowEnds PROVE FInv'
  OBVIOUS
<1> USE DEF FInv
<1>1. TypeOK'
  <2>1. sqlcode' \in Codes /\ freed' \in BOOLEAN
    BY DEF RowEnds, LengthCode, TypeOK, Codes
  <2>2. /\ pc' = "done"
        /\ UNCHANGED <<var, kind, list, clause, fetflg, row, j, success, doc, reading, old>>
    BY DEF RowEnds, guide
  <2> QED BY <2>1, <2>2 DEF TypeOK, Codes
<1>2. Bound' = Bound /\ UNCHANGED <<var, list, row, j, old>>
  BY DEF RowEnds, Bound
<1>3. RightFields'
  BY <1>2 DEF RightFields, Effective, MadeInteger, Given, Target
<1>4. BindingOK'
  BY <1>2 DEF RowEnds, BindingOK, Binding, Target
<1>5. LengthIsTold'
  <2>1. /\ Len(row) \in Nat /\ Len(list) \in Nat /\ j \in Nat /\ sqlcode = SQL_OK
        /\ j <= Len(row) + 1 /\ j <= Len(list) + 1
        /\ j > Len(row) \/ j > Len(list)
        /\ sqlcode' = LengthCode /\ row' = row /\ list' = list
    BY DEF RowEnds, TypeOK, Lists, BindingOK, Binding
  <2> QED
    BY <2>1 DEF LengthIsTold, LengthCode, SQL_OK, SQL_TOO_FEW_ARGUMENTS, SQL_TOO_MANY_ARGUMENTS
<1> QED
  BY <1>1, <1>3, <1>4, <1>5 DEF RowEnds, ParserOK, Parsing, ListIsAlive, ReadsAsDocumented

LEMMA FinishOK == FInv /\ Finish => FInv'
<1> SUFFICES ASSUME FInv, Finish PROVE FInv'
  OBVIOUS
<1>1. TypeOK'
  <2>1. list' \in Lists /\ reading' \in Lists /\ row' \in Seq(Fields)
    BY EmptySeq DEF Finish, Lists
  <2>2. /\ pc' = "idle" /\ kind' = "select" /\ freed' = FALSE /\ clause' = FALSE /\ fetflg' = -1
        /\ success' = FALSE /\ doc' = "none" /\ j' = 1 /\ old' = var /\ UNCHANGED <<var, sqlcode>>
    BY DEF Finish
  <2>3. fetflg' \in {0, -1, -2, -3} /\ j' \in Nat \ {0}
    BY <2>2
  <2>4. /\ kind' \in {"select", "fetch"} /\ doc' = "none" /\ pc' = "idle"
        /\ clause' \in BOOLEAN /\ freed' \in BOOLEAN /\ success' \in BOOLEAN
    BY <2>2
  <2>5. /\ var' \in [Var -> Variable] /\ old' \in [Var -> Variable]
        /\ sqlcode' \in {SQL_OK, SQL_NOT_FOUND, SQL_TOO_MANY_ARGUMENTS, SQL_TOO_FEW_ARGUMENTS, SQL_NONFATAL_ERROR}
    BY <2>2 DEF FInv, TypeOK
  <2> QED BY <2>1, <2>3, <2>4, <2>5 DEF TypeOK
<1>2. Bound' = {}
  BY DEF Finish, Bound
<1>3. RightFields' /\ BindingOK'
  <2>1. \A v \in Var : Effective(v)' = {}
    BY <1>2 DEF Effective
  <2>2. old' = var /\ var' = var
    BY DEF Finish
  <2>3. \A v \in Var : /\ var'[v].readonly = old'[v].readonly /\ var'[v].integer = old'[v].integer
                       /\ var'[v].readonly \in BOOLEAN /\ var'[v].integer \in BOOLEAN
    BY <2>2 DEF FInv, TypeOK, Variable
  <2>4. BindingOK'
    BY <1>2, <2>3 DEF Finish, BindingOK, Binding
  <2> QED BY <2>1, <2>2, <2>4 DEF RightFields
<1> QED
  BY <1>1, <1>3 DEF Finish, FInv, ParserOK, Parsing, LengthIsTold, ListIsAlive, ReadsAsDocumented

LEMMA InitOK == Init => FInv
<1> SUFFICES ASSUME Init PROVE FInv
  OBVIOUS
<1>1. TypeOK
  <2>1. var \in [Var -> Variable] /\ old \in [Var -> Variable]
    BY DEF Init, Variable, Texts
  <2>2. list \in Lists /\ reading \in Lists /\ row \in Seq(Fields)
    BY EmptySeq DEF Init, Lists
  <2>3. /\ pc = "idle" /\ kind = "select" /\ freed = FALSE /\ clause = FALSE /\ fetflg = -1
        /\ success = FALSE /\ doc = "none" /\ j = 1 /\ sqlcode = SQL_OK
    BY DEF Init
  <2>4. fetflg \in {0, -1, -2, -3} /\ j \in Nat \ {0}
    BY <2>3
  <2>5. clause \in BOOLEAN /\ freed \in BOOLEAN /\ success \in BOOLEAN
    BY <2>3, Zenon
  <2> QED BY <2>1, <2>2, <2>3, <2>4, <2>5 DEF TypeOK
<1>2. Bound = {}
  BY <1>1, NothingBound DEF Init
<1>3. RightFields
  BY <1>2 DEF Init, RightFields, Effective
<1>4. BindingOK
  BY <1>1, <1>2 DEF Init, BindingOK, Binding, TypeOK, Variable
<1> QED
  BY <1>1, <1>3, <1>4 DEF Init, FInv, ParserOK, Parsing, LengthIsTold, ListIsAlive, ReadsAsDocumented

LEMMA StutterOK == FInv /\ UNCHANGED vars => FInv'
<1> SUFFICES ASSUME FInv, UNCHANGED vars PROVE FInv'
  OBVIOUS
<1>1. UNCHANGED <<var, sqlcode, kind, pc, list, freed, clause, fetflg, row, j, success, doc, reading, old>>
  BY DEF vars, parser, guide
<1>2. Bound' = Bound
  BY <1>1 DEF Bound
<1>3. RightFields'
  BY <1>1, <1>2 DEF FInv, RightFields, Effective, MadeInteger, Given, Target
<1>4. BindingOK'
  BY <1>1, <1>2 DEF FInv, BindingOK, Binding, Target
<1> QED
  BY <1>1, <1>3, <1>4 DEF FInv, TypeOK, ParserOK, Parsing, LengthIsTold, ListIsAlive, ReadsAsDocumented

(* FInv holds always: statements, answers and Control-C in any order. *)
THEOREM FetchInvariance == Spec => []FInv
<1>1. FInv /\ [Next]_vars => FInv'
  <2> SUFFICES ASSUME FInv, [Next]_vars PROVE FInv'
    OBVIOUS
  <2>1. CASE \E n \in 0 .. MaxFields : \E fields \in [1 .. n -> Fields], tuples \in 0 .. 2 :
               Rows(fields, tuples)
    BY <2>1, RowsOK
  <2>2. CASE Refused
    BY <2>2, ReturnOK DEF Refused, Codes
  <2>3. CASE StatementEnds \/ BadNumber \/ Interrupt
    BY <2>3, FinishOK DEF StatementEnds, BadNumber, Interrupt
  <2> QED BY <2>1, <2>2, <2>3, StartOK, ParseOK, UseFreedOK, BindHostOK, BindIndicatorOK, RowEndsOK, StutterOK DEF Next
<1> QED BY <1>1, InitOK, PTL DEF Spec

(* The shell variables have values and attributes, the code is a code. *)
THEOREM FetchTypes == Spec => []TypeOK
BY FetchInvariance, PTL DEF FInv

(* A row goes to the variables the INTO clause lists, and nowhere else, as  *)
(* long as no list was read that had been freed.                            *)
THEOREM FieldsAreRight == Spec => []RightFields
BY FetchInvariance, PTL DEF FInv

(* The code tells a list and a row of different lengths apart. *)
THEOREM LengthsAreTold == Spec => []LengthIsTold
BY FetchInvariance, PTL DEF FInv

(* The list that the parsers freed is not read, unless they have taken for  *)
(* an INTO clause what stands in a string or a comment of the query.        *)
THEOREM ListStaysAlive == Spec => []ListIsAlive
BY FetchInvariance, PTL DEF FInv

(* The guide's INTO clauses are read as they are written. *)
THEOREM GuideIsRead == Spec => []ReadsAsDocumented
BY FetchInvariance, PTL DEF FInv
=============================================================================
