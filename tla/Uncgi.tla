------------------------------- MODULE Uncgi -------------------------------
(***************************************************************************)
(* uncgi_sub.c: what a browser sent, as shell variables.  One step is one  *)
(* field of the query string, of the posted text or of the cookies.        *)
(*                                                                         *)
(* A text is a sequence of words with a blank between two of them, as the  *)
(* shell splits it when a scalar becomes an array.  Texts without blanks   *)
(* at their ends, without quotation marks and without what the shell would *)
(* expand.                                                                 *)
(***************************************************************************)
EXTENDS Integers, Sequences, FiniteSets

CONSTANTS Name,        \* names of fields
          Word,        \* words of values, and of names and values of cookies
          Extends,     \* pairs <<n, m>>: n is m and a character behind it that no name has
          Requests,    \* what a WWW server may hand over
          MAX_CNAME    \* size of the name table

Texts == Seq(Word)
Request ==
    LET fields == Seq([name : Name, value : Texts])
    IN  [get : fields, post : fields, cookie : Seq([name : Texts, value : Texts])]

NoWord == "no word"

ASSUME UncgiAssumption ==
    MAX_CNAME \in Nat \ {0} /\ Requests \subseteq Request /\ NoWord \notin Word

KEY == "HTTP_COOKIEKEY"
VAL == "HTTP_COOKIEVAL"
Identifier == Name \ {p[1] : p \in Extends}
Var == Identifier \cup {KEY, VAL}

VARIABLES
    request,   \* QUERY_STRING, the rest of the standard input, HTTP_COOKIE
    table,     \* Cname and M_Cname, up to N_Cname
    shell,     \* shell variables
    ncookie,   \* HTTP_NCOOKIE
    source,    \* what is scanned, "none" outside of uncgi
    left,      \* the fields of it that are not yet scanned
    count,
    sent,      \* ghost: the words scanned by this call for a variable
    times,     \* ghost: and how often a text came for it
    clean,     \* ghost: no call has come before it
    full,      \* ghost: a field of this call met a full table
    torn       \* ghost: a call was broken off

uvars == <<request, table, shell, ncookie, source, left, count, sent, times, clean, full, torn>>

(* What is between two blanks of a value: a word, or the place where an    *)
(* empty text is, and whether quotation marks stick to it.                 *)
Piece == [w : Word \cup {NoWord}, marked : BOOLEAN]
Pieces(text) ==
    IF text = <<>> THEN << [w |-> NoWord, marked |-> FALSE] >>
    ELSE [i \in DOMAIN text |-> [w |-> text[i], marked |-> FALSE]]

(* A variable: element 0 with what it holds, and one piece for each of the *)
(* other elements.                                                         *)
Variable == [arr : BOOLEAN, first : Seq(Piece) \ {<<>>}, rest : Seq(Piece)]
Unset == [arr |-> FALSE, first |-> Pieces(<<>>), rest |-> <<>>]

UncgiInit ==
    /\ request \in Requests
    /\ table = <<>> /\ ncookie = 0
    /\ shell = [v \in Var |-> Unset]
    /\ source = "none" /\ left = <<>> /\ count = 0
    /\ sent = [v \in Var |-> <<>>] /\ times = [v \in Var |-> 0]
    /\ clean = TRUE /\ full = FALSE /\ torn = FALSE
-----------------------------------------------------------------------------
Text(v) == v.first \o v.rest      \* what "${name[@]}" stands for

Quoted(ps) ==
    [i \in DOMAIN ps |-> IF i \in {1, Len(ps)} THEN [ps[i] EXCEPT !.marked = TRUE] ELSE ps[i]]

Elements(ps) == [arr |-> TRUE, first |-> << Head(ps) >>, rest |-> Tail(ps)]

MutBindArray(v, text) == Elements(Quoted(Pieces(text)) \o Quoted(Text(v)))
(* name=(\"${name[@]}\" \"value\"): the marks are characters, and do not    *)
(* keep the words together.                                                *)
BindArray(v, text) == Elements(Quoted(Text(v)) \o Quoted(Pieces(text)))

(* bind_variable: of an array, only element 0. *)
BindScalar(v, text) == [v EXCEPT !.first = Pieces(text)]

(* The ghosts, for a text that is bound to a variable. *)
Heard(v, text) ==
    /\ sent' = [sent EXCEPT ![v] = @ \o text]
    /\ times' = [times EXCEPT ![v] = @ + 1]
-----------------------------------------------------------------------------
(* The first name of the table that the name is, or begins with. *)
IsName(n, m) == n = m \/ <<n, m>> \in Extends
Found(n) == {i \in DOMAIN table : IsName(n, table[i].name)}
First(n) == CHOOSE i \in Found(n) : \A k \in Found(n) : i <= k

TableFull == Len(table) >= MAX_CNAME - 1

(* stock_host_name: the table, and the number of times the name came       *)
(* before, which a full table leaves unset.                                *)
Stocked(n) ==
    IF TableFull THEN table
    ELSE IF Found(n) = {} THEN Append(table, [name |-> n, m |-> 0])
    ELSE [table EXCEPT ![First(n)].m = @ + 1]
Mcnt(n) ==
    IF TableFull THEN {0, 1}
    ELSE IF Found(n) = {} THEN {0} ELSE {table[First(n)].m + 1}

(* One field of GET or POST.  What is bound under a name that is no        *)
(* identifier cannot be read back, and is left out.                        *)
Field ==
    /\ source \in {"GET", "POST"} /\ left # <<>>
    /\ LET f == Head(left)
       IN  /\ table' = Stocked(f.name)
           /\ IF f.name \notin Identifier THEN UNCHANGED <<shell, sent, times>>
              ELSE /\ \E mcnt \in Mcnt(f.name) :
                         shell' = [shell EXCEPT ![f.name] =
                                     IF mcnt > 0 THEN BindArray(@, f.value)
                                     ELSE BindScalar(@, f.value)]
                   /\ Heard(f.name, f.value)
    /\ left' = Tail(left) /\ count' = count + 1
    /\ full' = (full \/ TableFull)
    /\ UNCHANGED <<request, ncookie, source, clean, torn>>

MutBindCookie(v, text) == BindScalar(v, text)
BindCookie(v, text) == IF count > 0 THEN BindArray(v, text) ELSE BindScalar(v, text)

Cookie ==
    /\ source = "COOKIE" /\ left # <<>>
    /\ shell' = [shell EXCEPT ![KEY] = BindCookie(@, Head(left).name),
                              ![VAL] = BindCookie(@, Head(left).value)]
    /\ sent' = [sent EXCEPT ![KEY] = @ \o Head(left).name, ![VAL] = @ \o Head(left).value]
    /\ times' = [times EXCEPT ![KEY] = @ + 1, ![VAL] = @ + 1]
    /\ left' = Tail(left) /\ count' = count + 1
    /\ UNCHANGED <<request, table, ncookie, source, clean, full, torn>>

Scan(what, fields) ==
    /\ source' = what /\ left' = fields /\ count' = 0
    /\ UNCHANGED <<shell, clean, full, torn>>

Forget == sent' = [v \in Var |-> <<>>] /\ times' = [v \in Var |-> 0]

Uncgi ==      \* it is called
    /\ Scan("GET", request.get)
    /\ Forget
    /\ UNCHANGED <<request, table, ncookie>>

(* The standard input is read once. *)
ScanPost ==
    /\ source = "GET" /\ left = <<>>
    /\ Scan("POST", request.post)
    /\ request' = [request EXCEPT !.post = <<>>]
    /\ UNCHANGED <<table, ncookie, sent, times>>

ScanCookie ==
    /\ source = "POST" /\ left = <<>>
    /\ Scan("COOKIE", request.cookie)
    /\ UNCHANGED <<request, table, ncookie, sent, times>>

MutFreeHostName == UNCHANGED table
FreeHostName == table' = <<>>

UncgiReturns ==
    /\ source = "COOKIE" /\ left = <<>>
    /\ ncookie' = IF request.cookie = <<>> THEN ncookie ELSE count
    /\ FreeHostName
    /\ source' = "none" /\ count' = 0
    /\ Forget /\ clean' = FALSE /\ full' = FALSE
    /\ UNCHANGED <<request, shell, left, torn>>

(* handle_sigint leaves it; the table is not freed. *)
UncgiBroken ==
    /\ source # "none"
    /\ source' = "none" /\ left' = <<>> /\ count' = 0
    /\ Forget /\ clean' = FALSE /\ full' = FALSE /\ torn' = TRUE
    /\ UNCHANGED <<request, table, shell, ncookie>>

UncgiStep == Field \/ Cookie \/ ScanPost \/ ScanCookie \/ UncgiReturns
-----------------------------------------------------------------------------
UncgiTypeOK ==
    /\ request \in Request /\ table \in Seq([name : Name, m : Nat])
    /\ source \in {"none", "GET", "POST", "COOKIE"}
    /\ source \in {"GET", "POST"} => left \in Seq([name : Name, value : Texts])
    /\ source = "COOKIE" => left \in Seq([name : Texts, value : Texts])
    /\ shell \in [Var -> Variable]
    /\ sent \in [Var -> Texts] /\ times \in [Var -> Nat]
    /\ count \in Nat /\ ncookie \in Nat
    /\ clean \in BOOLEAN /\ full \in BOOLEAN /\ torn \in BOOLEAN

(* The words of a text, in their order, are those of the pieces. *)
Rank(ps, i) == Cardinality({j \in 1 .. i : ps[j].w # NoWord})
Spells(ps, text) ==
    /\ Len(text) = Rank(ps, Len(ps))
    /\ \A i \in DOMAIN ps : ps[i].w # NoWord => ps[i].w = text[Rank(ps, i)]

(* A variable holds every word of every text that came for it.  The first  *)
(* text makes it a scalar, the second an array.                            *)
Keeps(v) ==
    /\ Spells(Text(shell[v]), sent[v])
    /\ times[v] = 1 => shell[v] = [arr |-> FALSE, first |-> Pieces(sent[v]), rest |-> <<>>]
    /\ times[v] > 1 => shell[v].arr

(* A name that a form sends several times becomes an array, a name that it *)
(* sends once is a scalar: as long as the table has room, the variable of  *)
(* the first call holds every word of every value, in their order          *)
(* (stock_host_name with wrap_bind_array_variable).                        *)
FieldsAreKept ==
    source # "none" /\ clean /\ ~full => \A n \in Identifier \ {KEY, VAL} : Keeps(n)

CookiesAreCounted == ncookie > 0 => ncookie = Len(request.cookie)

(* Keys and values of the cookies, the first a scalar and the others       *)
(* behind it, in their order, and HTTP_NCOOKIE is their number (scanquery).*)
CookiesAreKept ==
    /\ source = "COOKIE" /\ clean =>
          \A v \in {KEY, VAL} : times[v] = count => Keeps(v)
    /\ CookiesAreCounted

(* The guide's HTTP_COOKIEKEY[i] is the name of a cookie, for every i from  *)
(* 0 to HTTP_NCOOKIE-1 (usage06-j.md:36; wrap_bind_array_variable).         *)
Element(v, i) == IF i = 1 THEN v.first ELSE SubSeq(v.rest, i - 1, i - 1)
CookieKeysAreNames ==
    source = "none" /\ ncookie > 0 =>
        \A i \in 1 .. ncookie :
            i <= Len(shell[KEY].rest) + 1 /\ Element(shell[KEY], i) = Pieces(request.cookie[i].name)

(* A call finds the table empty, unless one before it was broken off, and  *)
(* never writes behind its end (stock_host_name, free_host_name).          *)
TableIsEmptied ==
    /\ Len(table) <= MAX_CNAME - 1
    /\ source = "none" /\ ~torn => table = <<>>

(* The first call begins with nothing, and the table knows the names that  *)
(* came, as long as it has room.                                           *)
Entered(n) == \E i \in DOMAIN table : table[i].name = n
FirstCallOK ==
    clean =>
        /\ source = "none" => table = <<>> /\ \A v \in Var : times[v] = 0
        /\ \A v \in Var : times[v] = 0 => shell[v] = Unset /\ sent[v] = <<>>
        /\ source # "none" /\ ~full =>
              \A n \in Identifier \ {KEY, VAL} : times[n] > 0 <=> Entered(n)

(* The part of the inductive invariant of Options that is about uncgi. *)
UInv ==
    /\ UncgiTypeOK
    /\ TableIsEmptied
    /\ source = "COOKIE" => count + Len(left) = Len(request.cookie)
    /\ FirstCallOK
    /\ FieldsAreKept
    /\ CookiesAreKept
=============================================================================
