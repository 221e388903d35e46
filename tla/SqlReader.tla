------------------------------ MODULE SqlReader ------------------------------
(***************************************************************************)
(* read_EXEC_SQL_token in parse.y: how the shell's lexer turns the text of *)
(* an SQL statement, up to its semicolon, into the words exec_sql "...".   *)
(*                                                                         *)
(* Text arrives one character at a time.  A character is a class of those  *)
(* the code tells apart.  shell_getc drops a backslash that ends a line    *)
(* with that newline, and adds a newline to a last line without one, so    *)
(* that an end of file, Control-D or real, comes after a newline only.     *)
(***************************************************************************)
EXTENDS Integers

CONSTANTS SQL_MAXLEN,   \* the length beyond which a statement is cut
          MaxDepth,     \* bound: parentheses open at a time
          Careless      \* the user may write what Slip lists

ASSUME SqlReaderAssumption ==
    SQL_MAXLEN \in Nat \ {0} /\ MaxDepth \in Nat /\ Careless \in BOOLEAN

Char == {"plain", "squote", "dquote", "bslash", "hash", "newline", "tab",
         "lparen", "rparen", "semicolon", "eof"}
Token == {"reserved", "word", "time", "other", "newline", "eof"}

VARIABLES
    SQL_flag, last_read_token,   \* of the lexer; "exec_sql" stands for the WORD put in
    pc,                          \* "token", or where read_EXEC_SQL_statement is
    sqt, wqt, ssqt,              \* inside '...', "..." and \'...\'
    parenth, retind,             \* retind stays at SQL_MAXLEN + 1 once beyond it
    pending, ran,                \* a statement is in the line; how the last one run ended
    word,                        \* ghost: what a "..." of the shell makes of the_word
    end,                         \* ghost: why the reader left the loop
    char,                        \* ghost: the character read last
    context, escaped, depth      \* ghost: where usage02 says that the text is

lexer == <<SQL_flag, last_read_token, pending, ran, end>>
local == <<sqt, wqt, ssqt, parenth>>
text  == <<char, context, escaped, depth>>
vars  == <<lexer, pc, local, retind, word, text>>

Fresh ==
    /\ sqt' = FALSE /\ wqt' = FALSE /\ ssqt' = FALSE /\ parenth' = 0 /\ retind' = 1
    /\ word' = "open" /\ char' = "plain"
    /\ context' = "none" /\ escaped' = FALSE /\ depth' = 0

Init ==
    /\ SQL_flag = 0 /\ last_read_token = "newline" /\ pc = "token"
    /\ sqt = FALSE /\ wqt = FALSE /\ ssqt = FALSE /\ parenth = 0 /\ retind = 1
    /\ pending = FALSE /\ ran = "none" /\ end = "none"
    /\ word = "open" /\ char = "plain"
    /\ context = "none" /\ escaped = FALSE /\ depth = 0

-----------------------------------------------------------------------------
(* What the user's guide says of the text: a quotation begins and ends with *)
(* the same mark, ' or " or \', a comment is from # to the end of the line, *)
(* and outside of these a semicolon ends the statement unless a parenthesis *)
(* is open.  \" is an old way to write ".                                   *)
Mark(c) == CASE c = "squote" -> IF escaped THEN "special" ELSE "single"
             [] c = "dquote" -> "double"
             [] c = "hash" -> IF escaped THEN "none" ELSE "comment"
             [] OTHER -> "none"

ContextAfter(c) ==
    CASE context = "comment" -> IF c = "newline" THEN "none" ELSE "comment"
      [] context = "none" -> Mark(c)
      [] OTHER -> IF Mark(c) = context THEN "none" ELSE context

Outside == context = "none" /\ ~escaped
StatementEnds(c) == Outside /\ depth = 0 /\ c = "semicolon"

(* What the reader is not made for: a backslash right after a quotation,    *)
(* \" inside of \'...\', a parenthesis that closes nothing.                 *)
Slip(c) ==
    \/ c = "bslash" /\ pc = "closing"
    \/ c = "dquote" /\ escaped /\ context = "special"
    \/ c = "rparen" /\ Outside /\ depth = 0

Offered(c) ==
    /\ c = "newline" => char # "bslash"
    /\ c = "eof" => char = "newline"
    /\ c = "lparen" => depth < MaxDepth     \* bound: MaxDepth
    /\ c = "rparen" /\ Outside => depth > -MaxDepth
    /\ Slip(c) => Careless

Type(c) ==
    /\ Offered(c) /\ char' = c
    /\ context' = ContextAfter(c)
    /\ escaped' = (c = "bslash" /\ ~escaped /\ context # "comment")
    /\ depth' = CASE Outside /\ c = "lparen" -> depth + 1
                  [] Outside /\ c = "rparen" -> depth - 1
                  [] OTHER -> depth

-----------------------------------------------------------------------------
(* the_word: characters are stored as they are, but " as \". *)
Grow(n) == retind' = IF retind + n > SQL_MAXLEN THEN SQL_MAXLEN + 1 ELSE retind + n

StoreRaw(c) ==
    /\ Grow(1)
    /\ word' = CASE word = "closed" -> "closed"
                 [] word = "escaped" -> "open"
                 [] word = "open" /\ c = "bslash" -> "escaped"
                 [] word = "open" /\ c = "dquote" -> "closed"
                 [] OTHER -> "open"

MutStore(c) ==           \* " is stored as it is
    StoreRaw(c)

Store(c) ==
    \/ c # "dquote" /\ StoreRaw(c)
    \/ c = "dquote" /\ Grow(2) /\ word' = IF word = "open" THEN "open" ELSE "closed"

Finish(why) ==
    /\ pc' = "token" /\ SQL_flag' = 0 /\ last_read_token' = "word"
    /\ end' = why
    /\ pending' = (pending \/ last_read_token = "exec_sql")
    /\ UNCHANGED <<local, ran>>

(* The next character is read, and nothing else is different. *)
GoOn == pc' = "loop" /\ UNCHANGED <<lexer, local>>

(* A character outside of quotations; one read ahead behind a quotation has *)
(* sqt cleared with it, and is not looked at as an escape.                  *)
Unquoted(c) ==
    \/ c = "dquote" /\ wqt' = TRUE /\ sqt' = FALSE /\ pc' = "loop"
          /\ UNCHANGED <<lexer, ssqt, parenth>>
    \/ c = "hash" /\ sqt' = FALSE /\ pc' = "comment"
          /\ UNCHANGED <<lexer, wqt, ssqt, parenth>>
    \/ /\ c \in {"newline", "tab", "lparen", "rparen"} /\ pc' = "loop"
       /\ parenth' = CASE c = "lparen" -> parenth + 1
                       [] c = "rparen" -> parenth - 1
                       [] OTHER -> parenth
       /\ sqt' = FALSE /\ UNCHANGED <<lexer, wqt, ssqt>>
    \/ c = "semicolon" /\ parenth = 0 /\ Finish("semicolon")
    \/ /\ c \in {"plain", "bslash"} \/ (c = "semicolon" /\ parenth # 0)
       /\ \/ retind' > SQL_MAXLEN /\ Finish("length")
          \/ /\ retind' <= SQL_MAXLEN /\ sqt' = FALSE /\ pc' = "loop"
             /\ UNCHANGED <<lexer, wqt, ssqt, parenth>>

(* A character at the head of the loop. *)
Ordinary(c) ==
    /\ pc = "loop" /\ c # "eof" /\ Store(c)
    /\ \/ c = "bslash" /\ pc' = "escape" /\ UNCHANGED <<lexer, local>>
       \/ c # "bslash" /\ (ssqt \/ (wqt /\ c # "dquote")) /\ GoOn
       \/ c # "bslash" /\ ~ssqt /\ ~wqt /\ sqt /\ c # "squote" /\ GoOn
       \/ c = "squote" /\ ~ssqt /\ ~wqt /\ sqt /\ pc' = "closing" /\ UNCHANGED <<lexer, local>>
       \/ c = "squote" /\ ~ssqt /\ ~wqt /\ ~sqt /\ sqt' = TRUE /\ pc' = "loop"
             /\ UNCHANGED <<lexer, wqt, ssqt, parenth>>
       \/ c = "dquote" /\ ~ssqt /\ wqt /\ wqt' = FALSE /\ pc' = "loop"
             /\ UNCHANGED <<lexer, sqt, ssqt, parenth>>
       \/ c \notin {"bslash", "squote"} /\ ~ssqt /\ ~sqt /\ ~wqt /\ Unquoted(c)

MutEscaped(c) ==         \* \" begins and ends "..." also inside of '...'
    /\ pc = "escape" /\ StoreRaw(c)
    /\ ssqt' = IF c = "squote" /\ ~wqt /\ ~sqt THEN ~ssqt ELSE ssqt
    /\ wqt' = IF c = "dquote" THEN ~wqt ELSE wqt
    /\ pc' = "loop"
    /\ UNCHANGED <<lexer, sqt, parenth>>

(* The character after a backslash. *)
Escaped(c) ==
    /\ pc = "escape" /\ StoreRaw(c)
    /\ ssqt' = IF c = "squote" /\ ~wqt /\ ~sqt THEN ~ssqt ELSE ssqt
    /\ wqt' = IF c = "dquote" /\ ~sqt THEN ~wqt ELSE wqt
    /\ pc' = "loop"
    /\ UNCHANGED <<lexer, sqt, parenth>>

MutClosing(c) ==         \* '' ends the quotation
    /\ pc = "closing" /\ Store(c)
    /\ \/ c = "squote" /\ sqt' = FALSE /\ pc' = "loop"
          /\ UNCHANGED <<lexer, wqt, ssqt, parenth>>
       \/ c # "squote" /\ Unquoted(c)

(* The character after a "'" that may end '...'. *)
Closing(c) ==
    /\ pc = "closing" /\ Store(c)
    /\ \/ c = "squote" /\ GoOn
       \/ c # "squote" /\ Unquoted(c)

Comment(c) ==
    /\ pc = "comment"
    /\ pc' = IF c = "newline" THEN "loop" ELSE "comment"
    /\ UNCHANGED <<lexer, local, retind, word>>

EndOfFile(c) ==
    /\ pc = "loop" /\ c = "eof"
    /\ Finish("eof")
    /\ UNCHANGED <<retind, word>>

Read(c) ==
    /\ Type(c)
    /\ Ordinary(c) \/ Escaped(c) \/ Closing(c) \/ Comment(c) \/ EndOfFile(c)

-----------------------------------------------------------------------------
(* read_EXEC_SQL_token *)

(* A reserved word of SQL is one at the start of a line or behind a         *)
(* timespec.  The end of the line runs what is in it, unless the rest of it *)
(* is a syntax error.                                                       *)
ReadToken(t) ==
    /\ pc = "token" /\ SQL_flag = 0
    /\ t = "eof" => pending
    /\ LET sql == t = "reserved" /\ last_read_token \in {"newline", "time"} IN
          /\ SQL_flag' = IF sql THEN 1 ELSE 0
          /\ last_read_token' = CASE sql -> "exec_sql"
                                 [] t = "reserved" /\ ~sql -> "word"
                                 [] OTHER -> t
    /\ \/ t \in {"newline", "eof"} /\ pending' = FALSE
          /\ ran' \in {ran, IF pending THEN end ELSE ran}
       \/ t \notin {"newline", "eof"} /\ UNCHANGED <<pending, ran>>
    /\ UNCHANGED <<pc, end, local, retind, word, text>>

(* With SQL_flag set the next token is the statement. *)
BeginStatement ==
    /\ pc = "token" /\ SQL_flag = 1
    /\ pc' = "loop" /\ Fresh /\ end' = "none"
    /\ UNCHANGED <<SQL_flag, last_read_token, pending, ran>>

(* Control-C at a prompt: reset_parser knows nothing of SQL_flag. *)
Interrupt ==
    /\ last_read_token' = "newline" /\ pending' = FALSE /\ pc' = "token"
    /\ Fresh /\ end' = "none"
    /\ UNCHANGED <<SQL_flag, ran>>

Next ==
    \/ \E t \in Token : ReadToken(t)
    \/ BeginStatement
    \/ \E c \in Char : Read(c)
    \/ Interrupt

Spec == Init /\ [][Next]_vars

-----------------------------------------------------------------------------
(* Type correctness. *)
TypeOK ==
    /\ SQL_flag \in {0, 1} /\ last_read_token \in Token \cup {"exec_sql"}
    /\ pc \in {"token", "loop", "escape", "closing", "comment"}
    /\ sqt \in BOOLEAN /\ wqt \in BOOLEAN /\ ssqt \in BOOLEAN
    /\ parenth \in Int /\ retind \in 1 .. SQL_MAXLEN + 1
    /\ pending \in BOOLEAN
    /\ ran \in {"none", "semicolon", "eof", "length"}
    /\ end \in {"none", "semicolon", "eof", "length"}
    /\ word \in {"open", "escaped", "closed"} /\ char \in Char
    /\ context \in {"none", "single", "double", "special", "comment"}
    /\ escaped \in BOOLEAN /\ depth \in Int

(* The flags of the reader say where usage02 says that the text is.  They   *)
(* lag behind by one character after a "'" that may be the first of two.    *)
FlagsAgree ==
    pc # "token" =>
        /\ parenth = depth
        /\ escaped = (pc = "escape")
        /\ sqt = (context = "single" \/ pc = "closing")
        /\ wqt = (context = "double") /\ ssqt = (context = "special")
        /\ pc = "closing" => context = "none"
        /\ (context = "comment") = (pc = "comment")

(* The statement reaches the parser as one word: no " of the text ends the  *)
(* "..." it is put in, and no backslash of it takes the closing " away.     *)
StatementIsOneWord ==
    word # "closed" /\ (word = "escaped") = (pc = "escape")

RInv == TypeOK /\ FlagsAgree /\ StatementIsOneWord

(* usage02: input is asked for until a semicolon appears, one that is not   *)
(* in a quotation, a comment or parentheses.                                *)
EndsWhereWritten ==
    [][\A c \in Char : Read(c) => (end' = "semicolon" <=> StatementEnds(c))]_vars

(* usage02: from the second line on, Control-D abandons a statement.        *)
AbandonedIsNotRun == ran # "eof"
=============================================================================
