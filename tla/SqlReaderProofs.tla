--------------------------- MODULE SqlReaderProofs ---------------------------
(***************************************************************************)
(* Proofs about SqlReader, for any length limit and depth of parentheses.  *)
(***************************************************************************)
EXTENDS SqlReader, TLAPS

(* What is stored of a character keeps the_word within its quotation marks. *)
LEMMA StoreOK ==
    ASSUME RInv, NEW c \in Char, Store(c)
    PROVE  /\ retind' \in 1 .. SQL_MAXLEN + 1
           /\ pc # "escape" => word' = IF c = "bslash" THEN "escaped" ELSE "open"
<1>1. retind' \in 1 .. SQL_MAXLEN + 1
  BY SqlReaderAssumption DEF RInv, TypeOK, Store, StoreRaw, Grow
<1>2. pc # "escape" => word = "open"
  BY DEF RInv, TypeOK, StatementIsOneWord
<1> QED BY <1>1, <1>2 DEF Store, StoreRaw

(* The same for the character after a backslash. *)
LEMMA StoreRawOK ==
    ASSUME RInv, NEW c \in Char, StoreRaw(c), pc = "escape"
    PROVE  retind' \in 1 .. SQL_MAXLEN + 1 /\ word' = "open"
<1>1. retind' \in 1 .. SQL_MAXLEN + 1
  BY SqlReaderAssumption DEF RInv, TypeOK, StoreRaw, Grow
<1>2. word = "escaped"
  BY DEF RInv, StatementIsOneWord
<1> QED BY <1>1, <1>2 DEF StoreRaw

(* The description of the text stays well typed. *)
LEMMA TypeCharOK ==
    ASSUME RInv, NEW c \in Char, Type(c)
    PROVE  /\ char' \in Char /\ escaped' \in BOOLEAN /\ depth' \in Int
           /\ context' \in {"none", "single", "double", "special", "comment"}
BY DEF RInv, TypeOK, Type, ContextAfter, Mark

(* A statement that ends leaves the loop with its flags as they were. *)
LEMMA FinishOK ==
    ASSUME RInv, NEW c \in Char, NEW why \in {"semicolon", "eof", "length"},
           Type(c), Finish(why), word' = "open", retind' \in 1 .. SQL_MAXLEN + 1
    PROVE  RInv'
<1>1. TypeOK'
  BY TypeCharOK DEF Finish, RInv, TypeOK, local, Token
<1>2. FlagsAgree' /\ StatementIsOneWord'
  BY DEF Finish, FlagsAgree, StatementIsOneWord
<1> QED BY <1>1, <1>2 DEF RInv

(* A character outside of quotations, or read ahead behind one.  It is not  *)
(* a backslash unless that is a slip.                                       *)
LEMMA UnquotedOK ==
    ASSUME RInv, ~Careless, NEW c \in Char \ {"bslash", "squote", "eof"},
           Type(c), Store(c), Unquoted(c),
           pc \in {"loop", "closing"}, ~wqt, ~ssqt, sqt => pc = "closing"
    PROVE  RInv'
<1>1. /\ retind' \in 1 .. SQL_MAXLEN + 1 /\ word' = "open"
  BY StoreOK
<1>2. Outside /\ parenth = depth
  BY DEF RInv, TypeOK, FlagsAgree, Outside
<1>3. CASE Finish("length")
  BY <1>1, <1>3, FinishOK
<1>4. CASE ~Finish("length") /\ ~Finish("semicolon")
  <2>1. /\ pc' = IF c = "hash" THEN "comment" ELSE "loop"
        /\ sqt' = FALSE /\ wqt' = (c = "dquote") /\ ssqt' = FALSE
        /\ parenth' = CASE c = "lparen" -> parenth + 1
                        [] c = "rparen" -> parenth - 1
                        [] OTHER -> parenth
        /\ UNCHANGED lexer
    BY <1>4 DEF Unquoted, RInv, TypeOK
  <2>2. /\ context' = IF c = "dquote" THEN "double" ELSE IF c = "hash" THEN "comment" ELSE "none"
        /\ escaped' = FALSE /\ depth' = parenth'
    BY <1>2, <2>1 DEF Type, ContextAfter, Mark, Outside
  <2>3. TypeOK'
    <3>0. parenth' \in Int
      <4>1. parenth \in Int
        BY DEF RInv, TypeOK
      <4> QED BY <2>1, <4>1
    <3>1. sqt' \in BOOLEAN /\ wqt' \in BOOLEAN /\ ssqt' \in BOOLEAN
      <4>1. sqt' = FALSE /\ wqt' = (c = "dquote") /\ ssqt' = FALSE
        BY <2>1
      <4> QED BY <4>1
    <3>2. pc' \in {"token", "loop", "escape", "closing", "comment"}
      BY <2>1
    <3>3. char' \in Char /\ escaped' \in BOOLEAN /\ depth' \in Int
          /\ context' \in {"none", "single", "double", "special", "comment"}
      BY TypeCharOK
    <3> QED BY <1>1, <2>1, <3>0, <3>1, <3>2, <3>3 DEF RInv, TypeOK, lexer
  <2>4. FlagsAgree' /\ StatementIsOneWord'
    BY <1>1, <2>1, <2>2 DEF FlagsAgree, StatementIsOneWord
  <2> QED BY <2>3, <2>4 DEF RInv
<1>5. CASE Finish("semicolon")
  BY <1>1, <1>5, FinishOK
<1> QED BY <1>3, <1>4, <1>5

(* Reading a character keeps the invariant. *)
LEMMA ReadOK ==
    ASSUME RInv, ~Careless, NEW c \in Char, Read(c)
    PROVE  RInv'
<1>0. Type(c) /\ ~Slip(c)
  BY DEF Read, Type, Offered
<1>1. CASE Ordinary(c)
  <2>0. /\ pc = "loop" /\ c # "eof" /\ ~escaped /\ parenth = depth /\ context # "comment"
        /\ sqt = (context = "single") /\ wqt = (context = "double")
        /\ ssqt = (context = "special")
    BY <1>1 DEF Ordinary, RInv, FlagsAgree
  <2>1. /\ retind' \in 1 .. SQL_MAXLEN + 1
        /\ word' = IF c = "bslash" THEN "escaped" ELSE "open"
    BY <1>1, StoreOK DEF Ordinary
  <2>2. CASE c \notin {"bslash", "squote"} /\ ~ssqt /\ ~sqt /\ ~wqt /\ Unquoted(c)
    BY <1>0, <1>1, <2>0, <2>2, UnquotedOK DEF Ordinary
  <2>3. CASE c = "bslash" \/ ssqt \/ sqt \/ wqt \/ c = "squote"
    <3>1. UNCHANGED lexer /\ parenth' = parenth /\ ssqt' = ssqt
      BY <1>1, <2>3 DEF Ordinary, local, GoOn
    <3>2. depth' = depth /\ escaped' = (c = "bslash")
      BY <1>0, <2>0, <2>3 DEF Type, Outside, RInv, TypeOK
    <3>3. /\ pc' = IF c = "bslash" THEN "escape"
                   ELSE IF c = "squote" /\ sqt THEN "closing" ELSE "loop"
          /\ sqt' = (sqt \/ (c = "squote" /\ ~ssqt /\ ~wqt))
          /\ wqt' = (wqt /\ c # "dquote")
      BY <1>1, <2>0, <2>3 DEF Ordinary, local, GoOn
    <3>4. context' = CASE c = "squote" /\ context = "none" -> "single"
                       [] c = "squote" /\ context = "single" -> "none"
                       [] c = "dquote" /\ context = "double" -> "none"
                       [] OTHER -> context
      BY <1>0, <2>0, <2>3 DEF Type, ContextAfter, Mark, RInv, TypeOK
    <3>5. TypeOK'
      BY <2>1, <3>1, <3>3, TypeCharOK, <1>0 DEF RInv, TypeOK, lexer
    <3>6. StatementIsOneWord'
      BY <2>1, <3>3 DEF StatementIsOneWord
    <3>7. FlagsAgree'
      BY <2>0, <2>3, <3>1, <3>2, <3>3, <3>4 DEF FlagsAgree, RInv, TypeOK
    <3> QED BY <3>5, <3>6, <3>7 DEF RInv
  <2> QED BY <1>1, <2>2, <2>3 DEF Ordinary
<1>2. CASE Escaped(c)
  <2>0. /\ pc = "escape" /\ escaped /\ parenth = depth /\ context # "comment"
        /\ sqt = (context = "single") /\ wqt = (context = "double")
        /\ ssqt = (context = "special")
    BY <1>2 DEF Escaped, RInv, FlagsAgree
  <2>1. retind' \in 1 .. SQL_MAXLEN + 1 /\ word' = "open"
    BY <1>2, StoreRawOK DEF Escaped
  <2>2. TypeOK'
    BY <1>0, <1>2, <2>1, TypeCharOK DEF Escaped, RInv, TypeOK, lexer
  <2>3. depth' = depth /\ escaped' = FALSE
    BY <1>0, <2>0 DEF Type, Outside
  <2>4. context' = CASE c = "squote" /\ context = "none" -> "special"
                     [] c = "squote" /\ context = "special" -> "none"
                     [] c = "dquote" /\ context = "none" -> "double"
                     [] c = "dquote" /\ context = "double" -> "none"
                     [] OTHER -> context
    BY <1>0, <2>0 DEF Type, ContextAfter, Mark, RInv, TypeOK
  <2>5. ~(c = "dquote" /\ context = "special")
    BY <1>0, <2>0 DEF Slip
  <2>6. FlagsAgree' /\ StatementIsOneWord'
    BY <1>2, <2>0, <2>1, <2>3, <2>4, <2>5 DEF Escaped, FlagsAgree, StatementIsOneWord, RInv, TypeOK
  <2> QED BY <2>2, <2>6 DEF RInv
<1>3. CASE Closing(c)
  <2>0. pc = "closing" /\ context = "none" /\ ~escaped /\ sqt /\ ~wqt /\ ~ssqt
    BY <1>3 DEF Closing, RInv, FlagsAgree
  <2>1. c # "bslash" /\ c # "eof"
    BY <1>0, <1>3, <2>0 DEF Slip, Closing, Unquoted
  <2>2. CASE c # "squote" /\ Unquoted(c)
    BY <1>0, <1>3, <2>0, <2>1, <2>2, UnquotedOK DEF Closing
  <2>3. CASE c = "squote" /\ GoOn
    <3>1. retind' \in 1 .. SQL_MAXLEN + 1 /\ word' = "open"
      BY <1>3, <2>0, <2>3, StoreOK DEF Closing
    <3>2. context' = "single" /\ escaped' = FALSE /\ depth' = depth
      BY <1>0, <2>0, <2>3 DEF Type, ContextAfter, Mark, Outside
    <3>3. TypeOK'
      BY <1>0, <2>3, <3>1, TypeCharOK DEF GoOn, RInv, TypeOK, lexer, local
    <3>4. FlagsAgree' /\ StatementIsOneWord'
      BY <2>0, <2>3, <3>1, <3>2 DEF GoOn, local, RInv, FlagsAgree, StatementIsOneWord
    <3> QED BY <3>3, <3>4 DEF RInv
  <2> QED BY <1>3, <2>2, <2>3 DEF Closing
<1>4. CASE Comment(c)
  <2>1. TypeOK'
    BY <1>0, <1>4, TypeCharOK DEF Comment, RInv, TypeOK, lexer, local
  <2>2. FlagsAgree' /\ StatementIsOneWord'
    BY <1>0, <1>4 DEF Comment, Type, ContextAfter, Outside, local, RInv, FlagsAgree,
       StatementIsOneWord
  <2> QED BY <2>1, <2>2 DEF RInv
<1>5. CASE EndOfFile(c)
  <2>1. retind' \in 1 .. SQL_MAXLEN + 1 /\ word' = "open"
    BY <1>5 DEF EndOfFile, RInv, TypeOK, StatementIsOneWord
  <2> QED BY <1>0, <1>5, <2>1, FinishOK DEF EndOfFile
<1> QED BY <1>1, <1>2, <1>3, <1>4, <1>5 DEF Read

(* RInv holds in every state, whatever text is typed without a slip. *)
THEOREM ReaderInvariance == ~Careless => (Spec => []RInv)
<1> SUFFICES ASSUME ~Careless PROVE Spec => []RInv
  OBVIOUS
<1>1. Init => RInv
  <2> SUFFICES ASSUME Init PROVE RInv
    OBVIOUS
  <2>1. retind \in 1 .. SQL_MAXLEN + 1 /\ parenth \in Int /\ depth \in Int
    BY SqlReaderAssumption DEF Init
  <2>2. TypeOK
    BY <2>1 DEF Init, TypeOK, Char, Token
  <2> QED BY <2>2 DEF Init, RInv, FlagsAgree, StatementIsOneWord
<1>2. RInv /\ [Next]_vars => RInv'
  <2> SUFFICES ASSUME RInv, [Next]_vars PROVE RInv'
    OBVIOUS
  <2>1. ASSUME NEW t \in Token, ReadToken(t) PROVE RInv'
    <3>1. TypeOK'
      <4>1. SQL_flag' \in {0, 1} /\ last_read_token' \in Token \cup {"exec_sql"}
        BY <2>1 DEF ReadToken, Token
      <4>2. pending' \in BOOLEAN /\ ran' \in {"none", "semicolon", "eof", "length"}
        BY <2>1 DEF ReadToken, RInv, TypeOK
      <4> QED BY <2>1, <4>1, <4>2 DEF ReadToken, RInv, TypeOK, local, text
    <3> QED BY <2>1, <3>1 DEF ReadToken, RInv, FlagsAgree, StatementIsOneWord, local, text
  <2>2. CASE BeginStatement
    <3>1. TypeOK'
      <4>1. retind' \in 1 .. SQL_MAXLEN + 1 /\ parenth' \in Int /\ depth' \in Int
        BY <2>2, SqlReaderAssumption DEF BeginStatement, Fresh
      <4> QED BY <2>2, <4>1 DEF BeginStatement, Fresh, RInv, TypeOK, Char
    <3> QED BY <2>2, <3>1 DEF BeginStatement, Fresh, RInv, FlagsAgree, StatementIsOneWord
  <2>3. ASSUME NEW c \in Char, Read(c) PROVE RInv'
    BY <2>3, ReadOK
  <2>4. CASE Interrupt
    <3>1. TypeOK'
      <4>1. retind' \in 1 .. SQL_MAXLEN + 1 /\ parenth' \in Int /\ depth' \in Int
        BY <2>4, SqlReaderAssumption DEF Interrupt, Fresh
      <4> QED BY <2>4, <4>1 DEF Interrupt, Fresh, RInv, TypeOK, Char, Token
    <3> QED BY <2>4, <3>1 DEF Interrupt, Fresh, RInv, FlagsAgree, StatementIsOneWord
  <2>5. CASE UNCHANGED vars
    BY <2>5 DEF vars, lexer, local, text, RInv, TypeOK, FlagsAgree, StatementIsOneWord
  <2> QED BY <2>1, <2>2, <2>3, <2>4, <2>5 DEF Next
<1> QED BY <1>1, <1>2, PTL DEF Spec

(* The statement is one word for the parser, however it ends. *)
THEOREM OneWord == ~Careless => (Spec => []StatementIsOneWord)
<1>1. RInv => StatementIsOneWord
  BY DEF RInv
<1> QED BY ReaderInvariance, <1>1, PTL
(* While it reads, the reader has not ended; this and RInv give where it ends. *)
Reading == pc # "token" => end = "none"

(* A character ends the statement exactly if it is where the guide says so. *)
LEMMA ReadEnds ==
    ASSUME RInv, Reading, ~Careless, NEW c \in Char, Read(c)
    PROVE  end' = "semicolon" <=> StatementEnds(c)
<1>0. Type(c) /\ ~Slip(c)
  BY DEF Read, Type, Offered
<1>1. ASSUME Unquoted(c), Outside, pc # "token"
      PROVE  end' = "semicolon" <=> StatementEnds(c)
  <2>1. parenth = depth /\ end = "none"
    BY <1>1 DEF RInv, FlagsAgree, Reading
  <2>2. CASE c = "semicolon" /\ parenth = 0
    BY <1>1, <2>1, <2>2 DEF Unquoted, Finish, StatementEnds
  <2>3. CASE ~(c = "semicolon" /\ parenth = 0)
    BY <1>1, <2>1, <2>3 DEF Unquoted, Finish, StatementEnds, lexer
  <2> QED BY <2>2, <2>3
<1>2. ASSUME UNCHANGED lexer, pc # "token", ~(Outside /\ c = "semicolon" /\ depth = 0)
      PROVE  end' = "semicolon" <=> StatementEnds(c)
  BY <1>2 DEF lexer, Reading, StatementEnds
<1>3. CASE Ordinary(c)
  <2>1. /\ pc = "loop" /\ ~escaped /\ context # "comment" /\ sqt = (context = "single")
        /\ wqt = (context = "double") /\ ssqt = (context = "special")
    BY <1>3 DEF Ordinary, RInv, FlagsAgree
  <2>2. CASE c \notin {"bslash", "squote"} /\ ~ssqt /\ ~sqt /\ ~wqt /\ Unquoted(c)
    BY <1>1, <2>1, <2>2 DEF Outside, RInv, TypeOK
  <2>3. CASE c = "bslash" \/ ssqt \/ sqt \/ wqt \/ c = "squote"
    <3>1. UNCHANGED lexer
      BY <1>3, <2>3 DEF Ordinary, GoOn
    <3>2. ~(Outside /\ c = "semicolon")
      BY <2>1, <2>3 DEF Outside
    <3> QED BY <1>2, <2>1, <3>1, <3>2
  <2> QED BY <1>3, <2>2, <2>3 DEF Ordinary
<1>4. CASE Escaped(c)
  <2>1. UNCHANGED lexer /\ pc = "escape" /\ ~Outside
    BY <1>4 DEF Escaped, Outside, RInv, FlagsAgree
  <2> QED BY <1>2, <2>1
<1>5. CASE Closing(c)
  <2>1. pc = "closing" /\ Outside
    BY <1>5 DEF Closing, Outside, RInv, FlagsAgree
  <2>2. CASE c = "squote" /\ GoOn
    BY <1>2, <2>1, <2>2 DEF GoOn
  <2> QED BY <1>1, <1>5, <2>1, <2>2 DEF Closing
<1>6. CASE Comment(c)
  <2>1. UNCHANGED lexer /\ pc = "comment" /\ ~Outside
    BY <1>6 DEF Comment, Outside, RInv, FlagsAgree
  <2> QED BY <1>2, <2>1
<1>7. CASE EndOfFile(c)
  BY <1>7 DEF EndOfFile, Finish, StatementEnds
<1> QED BY <1>3, <1>4, <1>5, <1>6, <1>7 DEF Read

(* What is text to the guide ends the statement, and nothing else. *)
THEOREM EndsOnlyThere == ~Careless => (Spec => EndsWhereWritten)
<1> SUFFICES ASSUME ~Careless PROVE Spec => EndsWhereWritten
  OBVIOUS
<1>1. Init => Reading
  BY DEF Init, Reading
<1>2. Reading /\ [Next]_vars => Reading'
  <2> SUFFICES ASSUME Reading, [Next]_vars PROVE Reading'
    OBVIOUS
  <2>1. ASSUME NEW t \in Token, ReadToken(t) PROVE Reading'
    BY <2>1 DEF ReadToken, Reading
  <2>2. CASE BeginStatement
    BY <2>2 DEF BeginStatement, Reading
  <2>3. ASSUME NEW c \in Char, Read(c) PROVE Reading'
    <3>1. pc # "token"
      BY <2>3 DEF Read, Ordinary, Escaped, Closing, Comment, EndOfFile
    <3>2. pc' = "token" \/ UNCHANGED lexer
      BY <2>3 DEF Read, Ordinary, Escaped, Closing, Comment, EndOfFile, Unquoted, Finish, GoOn
    <3> QED BY <3>1, <3>2 DEF lexer, Reading
  <2>4. CASE Interrupt
    BY <2>4 DEF Interrupt, Reading
  <2>5. CASE UNCHANGED vars
    BY <2>5 DEF vars, lexer, Reading
  <2> QED BY <2>1, <2>2, <2>3, <2>4, <2>5 DEF Next
<1>3. RInv /\ Reading /\ [Next]_vars
      => [\A c \in Char : Read(c) => (end' = "semicolon" <=> StatementEnds(c))]_vars
  BY ReadEnds
<1> QED BY <1>1, <1>2, <1>3, ReaderInvariance, PTL DEF Spec, EndsWhereWritten
=============================================================================
