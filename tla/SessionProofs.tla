--------------------------- MODULE SessionProofs ---------------------------
(***************************************************************************)
(* Proofs about Session, for any connections and connect names.            *)
(***************************************************************************)
EXTENDS Session, WellFoundedInduction, TLAPS

-----------------------------------------------------------------------------
(* A nonempty set of numbers has a least element. *)
LEMMA LeastExists ==
    ASSUME NEW S \in SUBSET Nat, S # {}
    PROVE  \E c \in S : \A d \in S : c <= d
<1>1. \E c \in S : \A d \in S : <<d, c>> \notin OpToRel(<, Nat)
  BY NatLessThanWellFounded, WFMin, Zenon
<1>2. PICK c \in S : \A d \in S : <<d, c>> \notin OpToRel(<, Nat)
  BY <1>1
<1>3. ASSUME NEW d \in S PROVE c <= d
  <2>1. ~(d < c)
    BY <1>2 DEF OpToRel
  <2> QED BY <2>1
<1> QED BY <1>2, <1>3

(* Oldest takes a member of the set. *)
LEMMA OldestInSet ==
    ASSUME NEW S \in SUBSET Nat
    PROVE  Oldest(S) \in S \cup {NULL} /\ (S # {} => Oldest(S) \in S)
BY LeastExists DEF Oldest, NULL

(* Connect keeps the connections well typed. *)
LEMMA ConnectOK ==
    ASSUME TypeOK, NEW nm \in Name, Connect(Unused, nm)
    PROVE  /\ open' \subseteq Conn /\ name' \in [open' -> Name]
           /\ current' \in open'
<1> DEFINE S == {c \in Conn : \A d \in open : d < c}
<1>1. S \in SUBSET Nat
  BY SessionAssumption DEF NULL
<1>2. CASE S = {}
  <2>1. Unused = 0
    BY <1>2 DEF Unused, Oldest
  <2>2. PICK d \in open : TRUE
    BY <1>2, SessionAssumption
  <2>3. d < 0
    BY <2>1, <2>2 DEF Connect
  <2> QED BY <2>3, SessionAssumption DEF TypeOK, NULL
<1>3. CASE S # {}
  <2>1. Unused \in Conn
    BY <1>1, <1>3, OldestInSet DEF Unused
  <2> QED BY <2>1 DEF Connect, TypeOK
<1> QED BY <1>2, <1>3

(* Close keeps the connections well typed, and so does what follows it. *)
LEMMA CloseOK ==
    ASSUME TypeOK, NEW c, Close(c)
    PROVE  /\ open' \subseteq Conn /\ name' \in [open' -> Name]
           /\ current' \in open' \cup {NULL}
BY DEF Close, TypeOK, NULL

LEMMA OldestOK ==
    ASSUME TypeOK, open # {}
    PROVE  Oldest(open) \in open
BY OldestInSet, SessionAssumption DEF TypeOK

(* The fields of commands. *)
LEMMA CommandFields ==
    ASSUME NEW c \in Command
    PROVE  /\ c.op \in {"connect", "set"} => c.name \in Ident \cup {"DEFAULT"}
           /\ c.op = "disconnect" => c.name \in Ident \cup {"DEFAULT", "CURRENT", "ALL"}
           /\ c.op \in SqlOp => c.d \in Ident \cup {None, "DEFAULT"}
           /\ c.op \notin SqlOp => c.d = None
           /\ c # NoCommand
<1>1. CASE c \in [op : {"info", "option", "badoption", "malformed", "cgi"},
                    name : {None}, d : {None}, x : {FALSE}]
  BY <1>1 DEF SqlOp, NoCommand
<1>2. CASE c \in [op : {"connect", "set"}, name : Ident \cup {"DEFAULT"}, d : {None}, x : {FALSE}]
  BY <1>2 DEF SqlOp, NoCommand
<1>3. CASE c \in [op : {"disconnect"}, name : Ident \cup {"DEFAULT", "CURRENT", "ALL"},
                    d : {None}, x : {FALSE}]
  BY <1>3 DEF SqlOp, NoCommand
<1>4. CASE c \in [op : SqlOp, name : {None}, d : Ident \cup {None, "DEFAULT"}, x : BOOLEAN]
  BY <1>4 DEF SqlOp, NoCommand
<1> QED BY <1>1, <1>2, <1>3, <1>4, Zenon DEF Command

(* Every way a command ends satisfies the invariant, given the connections. *)
LEMMA ReturnOK ==
    ASSUME SInv, NEW st \in {0, -1}, Return(st),
           open' \subseteq Conn, name' \in [open' -> Name], current' \in open' \cup {NULL},
           cancelConn' = cancelConn, SQLCODE' \in Codes, sqlca' \in Codes
    PROVE  SInv'
<1>1. TypeOK'
  BY DEF SInv, TypeOK, Return
<1>2. ControlOK'
  BY DEF SInv, ControlOK, HandlerIsRemoved, Return, WantsConnection
<1>3. PlaceOK'
  BY DEF PlaceOK, Return, InQuery
<1> QED BY <1>1, <1>2, <1>3 DEF SInv

(* normal_end and exec_error end a command. *)
LEMMA EndOK ==
    ASSUME SInv, NEW code \in Codes, NEW ok \in BOOLEAN, End(code, ok),
           open' \subseteq Conn, name' \in [open' -> Name], current' \in open' \cup {NULL},
           cancelConn' = cancelConn
    PROVE  SInv'
<1> DEFINE st == IF ok THEN 0 ELSE -1
<1>1. Return(st) /\ st \in {0, -1} /\ SQLCODE' \in Codes /\ sqlca' \in Codes
  BY DEF End
<1> HIDE DEF st
<1> QED BY <1>1, ReturnOK

(* The initial state. *)
LEMMA SInit == Init => SInv
<1> SUFFICES ASSUME Init PROVE SInv
  OBVIOUS
<1>1. TypeOK
  BY DEF Init, SpecInit, TypeOK, Codes, Handler, NULL, SQL_OK
<1>2. ControlOK /\ PlaceOK
  BY DEF Init, ControlOK, HandlerIsRemoved, PlaceOK, InQuery
<1> QED BY <1>1, <1>2 DEF SInv

(* The shell between commands, and a command that begins. *)
LEMMA ShellOK ==
    ASSUME SInv,
           \/ \E h \in Handler : SetTrap(h)
           \/ ReadCommand
           \/ \E c \in Command : Begin(c)
    PROVE  SInv'
<1>1. ASSUME NEW h \in Handler, SetTrap(h) PROVE SInv'
  <2>1. TypeOK'
    BY <1>1 DEF SetTrap, SInv, TypeOK, list, shell, frame
  <2>2. ControlOK' /\ PlaceOK'
    BY <1>1 DEF SetTrap, SInv, ControlOK, HandlerIsRemoved,
       PlaceOK, InQuery, WantsConnection, list, shell,
       frame, Handler
  <2> QED BY <2>1, <2>2 DEF SInv
<1>2. CASE ReadCommand
  <2>1. TypeOK'
    BY <1>2 DEF ReadCommand, SInv, TypeOK, list, shell, frame
  <2>2. ControlOK' /\ PlaceOK'
    BY <1>2 DEF ReadCommand, SInv, TypeOK, ControlOK, HandlerIsRemoved,
       PlaceOK, InQuery, WantsConnection, list,
       shell, frame, Handler
  <2> QED BY <2>1, <2>2 DEF SInv
<1>3. ASSUME NEW c \in Command, Begin(c) PROVE SInv'
  <2>1. TypeOK'
    BY <1>3 DEF Begin, SInv, TypeOK, list, Codes
  <2>2. ControlOK'
    <3>1. cmd' = c /\ cmd' \in Command /\ good' /\ pc' \in {"free", "parse"} /\ ~jumped'
      BY <1>3 DEF Begin
    <3>2. pc' = "free" => cmd'.op = "disconnect"
      BY <1>3 DEF Begin
    <3>3. ~Interactive => intr' # "cancel"
      BY <1>3 DEF Begin, SInv, ControlOK
    <3>4. silent' = None
      BY <1>3 DEF Begin, SInv, ControlOK
    <3> QED BY <3>1, <3>2, <3>3, <3>4 DEF ControlOK, HandlerIsRemoved
  <2>3. PlaceOK'
    BY <1>3 DEF Begin, PlaceOK, InQuery, list
  <2> QED BY <2>1, <2>2, <2>3 DEF SInv
<1> QED BY <1>1, <1>2, <1>3

(* The codes a command ends with. *)
LEMMA CodesAre ==
    /\ {SQL_OK, SQL_CONNECTION_BAD, SQL_INVALID_STMT, SQL_NAME_ALREADY_USE, SQL_DB_NOT_OPEN,
        SQL_NAME_NOT_FOUND, SQL_CONNECT_ERROR, SQL_BAD_RESPONSE, SQL_INVALID_DATA} \subseteq Codes
    /\ \A op : \A r \in Answers(op) \cup Errors :
          /\ r.code \in Codes /\ r.good \in BOOLEAN
          /\ (~r.good => r.code # SQL_OK)
    /\ {e.code : e \in Errors} \cup {SQL_CONNECTION_BAD} \subseteq Codes \ {SQL_OK}
    /\ SQL_OK \notin {SQL_CONNECTION_BAD, SQL_INVALID_STMT, SQL_NAME_ALREADY_USE,
                     SQL_DB_NOT_OPEN, SQL_NAME_NOT_FOUND, SQL_CONNECT_ERROR,
                     SQL_BAD_RESPONSE, SQL_INVALID_DATA}
<1> USE DEF SQL_OK, SQL_NOT_FOUND, SQL_SYSTEM_ERROR, SQL_TOO_MANY_ARGUMENTS,
      SQL_TOO_FEW_ARGUMENTS, SQL_CONNECT_ERROR, SQL_INVALID_STMT, SQL_DB_NOT_OPEN,
      SQL_NAME_NOT_FOUND, SQL_NAME_ALREADY_USE, SQL_INVALID_DATA, SQL_BAD_RESPONSE,
      SQL_EMPTY_QUERY, SQL_CONNECTION_BAD, SQL_FATAL_ERROR, SQL_NONFATAL_ERROR
<1>1. ASSUME NEW r \in Errors PROVE r.code \in Codes /\ r.good \in BOOLEAN /\ r.code # SQL_OK
  <2>1. r.code \in Codes /\ r.good = FALSE /\ r.code # SQL_OK
    BY DEF Errors, Ends, Codes
  <2> QED BY <2>1, Zenon
<1>2. ASSUME NEW op, NEW r \in Answers(op)
      PROVE  r.code \in Codes /\ r.good \in BOOLEAN /\ (~r.good => r.code # SQL_OK)
  <2>1. \/ Answers(op) = {}
        \/ Answers(op) = {Ends(SQL_EMPTY_QUERY, TRUE)}
        \/ Answers(op) = {Ends(SQL_OK, TRUE)}
        \/ Answers(op) = {Ends(SQL_OK, TRUE), Ends(SQL_NOT_FOUND, FALSE),
                          Ends(SQL_SYSTEM_ERROR, FALSE),
                          Ends(SQL_TOO_MANY_ARGUMENTS, TRUE),
                          Ends(SQL_TOO_FEW_ARGUMENTS, TRUE)}
    <3> HIDE DEF SQL_OK, SQL_NOT_FOUND, SQL_SYSTEM_ERROR, SQL_TOO_MANY_ARGUMENTS,
             SQL_TOO_FEW_ARGUMENTS, SQL_EMPTY_QUERY
    <3> QED BY Zenon DEF Answers
  <2>2. r \in {Ends(SQL_EMPTY_QUERY, TRUE), Ends(SQL_OK, TRUE), Ends(SQL_NOT_FOUND, FALSE),
              Ends(SQL_SYSTEM_ERROR, FALSE), Ends(SQL_TOO_MANY_ARGUMENTS, TRUE),
              Ends(SQL_TOO_FEW_ARGUMENTS, TRUE)}
    <3> HIDE DEF SQL_OK, SQL_NOT_FOUND, SQL_SYSTEM_ERROR, SQL_TOO_MANY_ARGUMENTS,
             SQL_TOO_FEW_ARGUMENTS, SQL_EMPTY_QUERY
    <3> QED BY <1>2, <2>1, Zenon
  <2>3. r.code \in Codes
    BY <2>2 DEF Ends, Codes
  <2>4. r.good = TRUE \/ (r.good = FALSE /\ r.code # SQL_OK)
    BY <2>2 DEF Ends
  <2> QED BY <2>3, <2>4, Zenon
<1>3. ASSUME NEW op, NEW r \in Answers(op) \cup Errors
      PROVE  r.code \in Codes /\ r.good \in BOOLEAN /\ (~r.good => r.code # SQL_OK)
  <2>1. CASE r \in Errors
    <3>1. r.code \in Codes /\ r.good \in BOOLEAN
      BY <1>1, <2>1
    <3>2. ~r.good => r.code # SQL_OK
      BY <1>1, <2>1
    <3> QED BY <3>1, <3>2
  <2>2. CASE r \in Answers(op)
    BY <1>2, <2>2
  <2> QED BY <2>1, <2>2
<1>4. {e.code : e \in Errors} \cup {SQL_CONNECTION_BAD} \subseteq Codes \ {SQL_OK}
  BY <1>1 DEF Codes
<1> QED BY <1>3, <1>4 DEF Codes

(* Commands that end without touching the connections. *)
LEMMA EndsInPlace ==
    ASSUME SInv, UNCHANGED <<list, cancelConn>>,
           \/ \E st \in {0, -1} : Return(st) /\ UNCHANGED <<SQLCODE, sqlca>>
           \/ \E code \in Codes, ok \in BOOLEAN : End(code, ok)
    PROVE  SInv'
<1>1. /\ open' \subseteq Conn /\ name' \in [open' -> Name] /\ current' \in open' \cup {NULL}
      /\ cancelConn' = cancelConn
  BY DEF SInv, TypeOK, list
<1>2. ASSUME NEW st \in {0, -1}, Return(st), UNCHANGED <<SQLCODE, sqlca>> PROVE SInv'
  <2>1. SQLCODE' \in Codes /\ sqlca' \in Codes
    BY <1>2 DEF SInv, TypeOK
  <2> QED BY <1>1, <1>2, <2>1, ReturnOK
<1>3. ASSUME NEW code \in Codes, NEW ok \in BOOLEAN, End(code, ok) PROVE SInv'
  BY <1>1, <1>3, EndOK
<1> QED BY <1>2, <1>3

(* CONNECT, DISCONNECT and SET CONNECTION. *)
LEMMA ConnectionStatementOK ==
    ASSUME SInv, \/ ExecConnect \/ ExecSetConnection \/ ExecDisconnect \/ OldestIsCurrent
                 \/ FreeOldest \/ AllFreed
    PROVE  SInv'
<1> USE CodesAre
<1>0. TypeOK /\ (pc \notin {"idle", "exited"} => cmd \in Command)
  BY DEF SInv, ControlOK
<1>1. CASE ExecConnect
  <2>1. cmd.name \in Ident \cup {"DEFAULT"}
    BY <1>0, <1>1, CommandFields DEF ExecConnect
  <2>2. ConnectName(cmd.name) \in Name
    BY <2>1, SessionAssumption DEF ConnectName, Ident
  <2>3. CASE Connect(Unused, ConnectName(cmd.name)) /\ End(SQL_OK, TRUE)
    <3>1. open' \subseteq Conn /\ name' \in [open' -> Name] /\ current' \in open'
      BY <1>0, <2>2, <2>3, ConnectOK
    <3>2. cancelConn' = cancelConn
      BY <1>1 DEF ExecConnect
    <3> QED BY <2>3, <3>1, <3>2, EndOK
  <2>4. CASE /\ End(SQL_NAME_ALREADY_USE, FALSE) \/ End(SQL_CONNECTION_BAD, FALSE)
             /\ UNCHANGED list
    <3>1. UNCHANGED <<list, cancelConn>>
      BY <1>1, <2>4 DEF ExecConnect
    <3> QED BY <2>4, <3>1, EndsInPlace
  <2> QED BY <1>1, <2>3, <2>4 DEF ExecConnect
<1>2. CASE ExecSetConnection
  <2>1. ASSUME NEW c \in Named(ConnectName(cmd.name)), SetConnection(c), End(SQL_OK, TRUE)
        PROVE  SInv'
    <3>1. /\ open' \subseteq Conn /\ name' \in [open' -> Name]
          /\ current' \in open' \cup {NULL} /\ cancelConn' = cancelConn
      BY <1>0, <1>2, <2>1 DEF SetConnection, TypeOK, ExecSetConnection
    <3> QED BY <2>1, <3>1, EndOK
  <2>2. CASE /\ End(SQL_DB_NOT_OPEN, FALSE) \/ End(SQL_NAME_NOT_FOUND, FALSE)
             /\ UNCHANGED list
    <3>1. UNCHANGED <<list, cancelConn>>
      BY <1>2, <2>2 DEF ExecSetConnection
    <3> QED BY <2>2, <3>1, EndsInPlace
  <2> QED BY <1>2, <2>1, <2>2 DEF ExecSetConnection
<1>3. CASE ExecDisconnect
  <2>1. ASSUME NEW c \in NamedToClose, Close(c), pc' = "closed",
               UNCHANGED <<signal, shell, sqlca, cmd, dbset, work, good, silent, was>>
        PROVE  SInv'
    <3>1. /\ open' \subseteq Conn /\ name' \in [open' -> Name]
          /\ current' \in open' \cup {NULL} /\ cancelConn' = cancelConn
      BY <1>0, <1>3, <2>1, CloseOK DEF ExecDisconnect
    <3>2. TypeOK'
      BY <1>0, <2>1, <3>1 DEF TypeOK, signal, shell
    <3>3. ControlOK'
      BY <1>3, <2>1 DEF ExecDisconnect, SInv, ControlOK, HandlerIsRemoved, WantsConnection,
         signal, shell
    <3>4. PlaceOK'
      BY <2>1 DEF PlaceOK, InQuery
    <3> QED BY <3>2, <3>3, <3>4 DEF SInv
  <2>2. CASE /\ End(SQL_DB_NOT_OPEN, FALSE) \/ End(SQL_NAME_NOT_FOUND, FALSE)
             /\ UNCHANGED list
    <3>1. UNCHANGED <<list, cancelConn>>
      BY <1>3, <2>2 DEF ExecDisconnect
    <3> QED BY <2>2, <3>1, EndsInPlace
  <2> QED BY <1>3, <2>1, <2>2 DEF ExecDisconnect
<1>4. CASE FreeOldest
  <2>1. /\ open' \subseteq Conn /\ name' \in [open' -> Name]
        /\ current' \in open' \cup {NULL}
    BY <1>0, <1>4, CloseOK DEF FreeOldest, CloseOldest
  <2>2. TypeOK'
    BY <1>0, <1>4, <2>1 DEF FreeOldest, TypeOK, signal, shell, frame
  <2>3. ControlOK' /\ PlaceOK'
    BY <1>4 DEF FreeOldest, SInv, ControlOK, HandlerIsRemoved,
       PlaceOK, InQuery, WantsConnection, signal, shell, frame
  <2> QED BY <2>2, <2>3 DEF SInv
<1>6. CASE OldestIsCurrent
  <2>1. End(SQL_OK, TRUE) /\ cancelConn' = cancelConn
    BY <1>6 DEF OldestIsCurrent
  <2>2. /\ open' \subseteq Conn /\ name' \in [open' -> Name]
        /\ current' \in open' \cup {NULL}
    BY <1>0, <1>6 DEF OldestIsCurrent, SetConnection, list, TypeOK
  <2> QED BY <2>1, <2>2, EndOK
<1>5. CASE AllFreed
  <2>1. End(SQL_OK, TRUE) /\ UNCHANGED <<list, cancelConn>>
    BY <1>5 DEF AllFreed
  <2> QED BY <2>1, EndsInPlace
<1> QED BY <1>1, <1>2, <1>3, <1>4, <1>5, <1>6

(* A query finds its connection. *)
LEMMA PrepareOK ==
    ASSUME SInv,
           \/ OptionEnd \/ SyntaxError \/ AutoConnect \/ TakeCurrent \/ NoCurrent
           \/ Switch \/ SwitchFails \/ SwitchBack \/ NoSwitch \/ NothingToSend
    PROVE  SInv'
<1> USE CodesAre
<1>0. TypeOK /\ (pc \notin {"idle", "exited"} => cmd \in Command)
  BY DEF SInv, ControlOK
<1>1. CASE \/ OptionEnd \/ SyntaxError \/ NoCurrent \/ SwitchFails \/ NothingToSend
  <2>1. UNCHANGED <<list, cancelConn>> /\ sqlca \in Codes
    BY <1>0, <1>1 DEF OptionEnd, SyntaxError, NoCurrent, SwitchFails, NothingToSend, TypeOK
  <2>2. \/ Return(0) /\ UNCHANGED <<SQLCODE, sqlca>>
        \/ \E code \in Codes : End(code, FALSE)
    BY <1>1, <2>1 DEF OptionEnd, SyntaxError, NoCurrent, SwitchFails, NothingToSend
  <2> QED BY <2>1, <2>2, EndsInPlace
<1>2. CASE AutoConnect
  <2>1. CASE End(SQL_CONNECTION_BAD, FALSE) /\ UNCHANGED list
    <3>1. UNCHANGED <<list, cancelConn>>
      BY <1>2, <2>1 DEF AutoConnect
    <3> QED BY <2>1, <3>1, EndsInPlace
  <2>2. CASE Connect(Unused, DEFAULT_VALUE) /\ UNCHANGED <<signal, shell, sqlca, frame>>
    <3>1. open' \subseteq Conn /\ name' \in [open' -> Name] /\ current' \in open'
      BY <1>0, <2>2, ConnectOK, SessionAssumption
    <3>2. cancelConn' = cancelConn /\ open = {} /\ pc = "parse"
      BY <1>2 DEF AutoConnect
    <3>3. TypeOK'
      BY <1>0, <2>2, <3>1, <3>2 DEF TypeOK, signal, shell, frame
    <3>4. ControlOK'
      BY <2>2 DEF SInv, ControlOK, HandlerIsRemoved, WantsConnection, signal, shell, frame
    <3>5. current = NULL
      BY <1>0, <3>2 DEF TypeOK
    <3>6. PlaceOK'
      BY <2>2, <3>2, <3>5 DEF SInv, PlaceOK, InQuery, frame
    <3> QED BY <3>3, <3>4, <3>6 DEF SInv
  <2> QED BY <1>2, <2>1, <2>2 DEF AutoConnect
<1>3. CASE TakeCurrent
  <2>1. TypeOK'
    BY <1>0, <1>3 DEF TakeCurrent, TypeOK, list, signal, shell
  <2>2. ControlOK' /\ PlaceOK'
    BY <1>0, <1>3 DEF TakeCurrent, TypeOK, SInv, ControlOK, HandlerIsRemoved,
       PlaceOK, InQuery, WantsConnection,
       list, signal, shell
  <2> QED BY <2>1, <2>2 DEF SInv
<1>4. CASE Switch
  <2>1. PICK c \in Named(SwitchName(cmd.d)) : SetConnection(c) /\ dbset' = c
    BY <1>4 DEF Switch
  <2>2. c \in open /\ name[c] = SwitchName(cmd.d)
    BY <2>1 DEF Named
  <2>3. TypeOK'
    BY <1>0, <1>4, <2>1, <2>2 DEF Switch, SetConnection, TypeOK, signal, shell
  <2>4. ControlOK'
    BY <1>4 DEF Switch, SInv, ControlOK, HandlerIsRemoved, WantsConnection, signal, shell
  <2>5. PlaceOK'
    BY <1>4, <2>1, <2>2 DEF Switch, SetConnection, SInv, PlaceOK, InQuery
  <2> QED BY <2>3, <2>4, <2>5 DEF SInv
<1>5. CASE SwitchBack
  <2>1. TypeOK'
    BY <1>0, <1>5 DEF SwitchBack, SInv, PlaceOK, TypeOK, signal, shell
  <2>2. ControlOK' /\ PlaceOK'
    BY <1>5 DEF SwitchBack, SInv, ControlOK, HandlerIsRemoved,
       PlaceOK, InQuery, WantsConnection, signal, shell
  <2> QED BY <2>1, <2>2 DEF SInv
<1>6. CASE NoSwitch
  <2>1. TypeOK'
    BY <1>0, <1>6 DEF NoSwitch, TypeOK, list, signal, shell
  <2>2. ControlOK' /\ PlaceOK'
    BY <1>6 DEF NoSwitch, SInv, ControlOK, HandlerIsRemoved,
       PlaceOK, InQuery, WantsConnection, list, signal, shell
  <2> QED BY <2>1, <2>2 DEF SInv
<1> QED BY <1>1, <1>2, <1>3, <1>4, <1>5, <1>6

(* SendQuery, lo_exec and Control-C. *)
LEMMA QueryOK ==
    ASSUME SInv,
           \/ Send \/ LoExec \/ LoUnknown \/ NoResult
           \/ \E r \in Answers(cmd.op) \cup Errors : Result(r)
           \/ NoFields \/ CopyBegins \/ (\E ok \in BOOLEAN : CopyEnds(ok))
           \/ ConnectionLost \/ Notified \/ QueryDone
           \/ NumberJump \/ Interrupt \/ DeadFrame
    PROVE  SInv'
<1> USE CodesAre
<1>0. TypeOK
  BY DEF SInv
<1>1. CASE NoResult \/ QueryDone
  <2>1. UNCHANGED <<list, cancelConn>> /\ sqlca \in Codes /\ good \in BOOLEAN
    BY <1>0, <1>1 DEF NoResult, QueryDone, TypeOK
  <2>2. \E code \in Codes, ok \in BOOLEAN : End(code, ok)
    BY <1>1, <2>1 DEF NoResult, QueryDone
  <2> QED BY <2>1, <2>2, EndsInPlace
<1>8. CASE LoExec \/ NoFields
  <2>1. TypeOK'
    BY <1>0, <1>8 DEF LoExec, NoFields, TypeOK, list, signal, shell
  <2>2. ControlOK'
    <3>1. pc' = "done" /\ UNCHANGED <<cmd, intr, jumped>> /\ pc \in {"lo", "sent"}
      BY <1>8 DEF LoExec, NoFields, signal
    <3>2. ~good' /\ silent' = None => sqlca' # SQL_OK
      BY <1>8 DEF LoExec, NoFields, None
    <3>3. cmd' \in Command /\ cmd'.op \in SqlOp
      BY <3>1 DEF SInv, ControlOK
    <3>4. ~jumped' /\ (~Interactive => intr' # "cancel")
      BY <3>1 DEF SInv, ControlOK
    <3> QED BY <3>1, <3>2, <3>3, <3>4 DEF ControlOK, HandlerIsRemoved
  <2>3. PlaceOK'
    BY <1>8 DEF LoExec, NoFields, SInv, PlaceOK, InQuery, list
  <2> QED BY <2>1, <2>2, <2>3 DEF SInv
<1>2. CASE Send \/ LoUnknown \/ CopyBegins \/ ConnectionLost \/ Notified
  <2>1. TypeOK'
    BY <1>0, <1>2 DEF Send, LoUnknown, CopyBegins, ConnectionLost, Notified, TypeOK, list, signal,
       shell, frame
  <2>2. ControlOK'
    BY <1>2 DEF Send, LoUnknown, CopyBegins, ConnectionLost, Notified, SInv, ControlOK, HandlerIsRemoved,
       WantsConnection, list, signal, shell, frame
  <2>3. PlaceOK'
    BY <1>2 DEF Send, LoUnknown, CopyBegins, ConnectionLost, Notified, SInv, PlaceOK, InQuery,
       list, frame
  <2> QED BY <2>1, <2>2, <2>3 DEF SInv
<1>3. ASSUME NEW r \in Answers(cmd.op) \cup Errors, Result(r) PROVE SInv'
  <2>1. r.code \in Codes /\ r.good \in BOOLEAN /\ (~r.good => r.code # SQL_OK)
    OBVIOUS
  <2>2. TypeOK'
    BY <1>0, <1>3, <2>1 DEF Result, TypeOK, list, signal, shell
  <2>3. ControlOK'
    BY <1>3, <2>1 DEF Result, SInv, ControlOK, HandlerIsRemoved, WantsConnection, list, signal, shell
  <2>4. PlaceOK'
    BY <1>3 DEF Result, SInv, PlaceOK, InQuery, list
  <2> QED BY <2>2, <2>3, <2>4 DEF SInv
<1>4. ASSUME NEW ok \in BOOLEAN, CopyEnds(ok) PROVE SInv'
  <2>1. TypeOK'
    BY <1>0, <1>4 DEF CopyEnds, TypeOK, list, signal, shell
  <2>2. ControlOK'
    BY <1>4 DEF CopyEnds, SInv, ControlOK, HandlerIsRemoved, WantsConnection, list, signal, shell
  <2>3. PlaceOK'
    BY <1>4 DEF CopyEnds, SInv, PlaceOK, InQuery, list
  <2> QED BY <2>1, <2>2, <2>3 DEF SInv
<1>5. CASE Interrupt
  <2>1. TypeOK'
    BY <1>0, <1>5 DEF Interrupt, TypeOK, list
  <2>2. ControlOK' /\ PlaceOK'
    BY <1>5 DEF Interrupt, SInv, ControlOK, HandlerIsRemoved, PlaceOK, InQuery, WantsConnection
  <2> QED BY <2>1, <2>2 DEF SInv
<1>6. CASE NumberJump
  <2>1. TypeOK'
    BY <1>0, <1>6 DEF NumberJump, TypeOK, list
  <2>2. ControlOK' /\ PlaceOK'
    BY <1>6 DEF NumberJump, SInv, ControlOK, HandlerIsRemoved, PlaceOK, InQuery,
       WantsConnection
  <2> QED BY <2>1, <2>2 DEF SInv
<1>7. CASE DeadFrame
  <2>1. TypeOK'
    BY <1>0, <1>7 DEF DeadFrame, TypeOK, list, signal, shell
  <2>2. ControlOK' /\ PlaceOK'
    BY <1>7 DEF DeadFrame, SInv, ControlOK, HandlerIsRemoved, PlaceOK, InQuery,
       WantsConnection, signal
  <2> QED BY <2>1, <2>2 DEF SInv
<1> QED BY <1>1, <1>2, <1>3, <1>4, <1>5, <1>6, <1>7, <1>8

(* SInv holds in every state of every behaviour. *)
THEOREM SessionInvariance == Spec => []SInv
<1>1. SInv /\ [Next]_vars => SInv'
  <2> SUFFICES ASSUME SInv, [Next]_vars PROVE SInv'
    OBVIOUS
  <2>1. CASE Next
    <3>1. CASE Step
      BY <3>1, ConnectionStatementOK, PrepareOK, QueryOK DEF Step
    <3> QED BY <2>1, <3>1, ShellOK, QueryOK DEF Next
  <2>2. CASE UNCHANGED vars
    BY <2>2 DEF vars, list, shell, signal, frame, SInv, TypeOK, ControlOK, HandlerIsRemoved, PlaceOK, InQuery,
       WantsConnection
  <2> QED BY <2>1, <2>2
<1> QED BY SInit, <1>1, PTL DEF Spec

(* However exec_sql_main returns, SIGINT no longer jumps into it; only a    *)
(* jump past its end can leave that handler behind.                         *)
THEOREM HandlerGoes == Spec => []HandlerIsRemoved
<1>1. SInv => HandlerIsRemoved
  BY DEF SInv, ControlOK
<1> QED BY SessionInvariance, <1>1, PTL

(* A query runs on the connection its -d names, or on the one that was      *)
(* current, whatever the command before it did.                             *)
THEOREM QueriesRunWhereTold == Spec => []RunsWhereTold
<1>1. SInv => RunsWhereTold
  BY DEF SInv, PlaceOK, InQuery, RunsWhereTold, Running, SwitchName, ConnectName
<1> QED BY <1>1, SessionInvariance, PTL

(* Control-C asks the backend that is running the query, never another.     *)
THEOREM CancelIsWellAimed == Spec => CancelReachesQuery
<1>1. SInv /\ [Next]_vars => [Interrupt /\ Running => cancelled' = dbset]_vars
  <2>1. ASSUME SInv, Interrupt, Running PROVE cancelled' = dbset
    <3>1. cancelConn = dbset /\ dbset \in open
      BY <2>1 DEF SInv, PlaceOK, InQuery, Running
    <3>2. cancelConn # NULL
      BY <2>1, <3>1, SessionAssumption DEF SInv, TypeOK
    <3> QED BY <2>1, <3>1, <3>2 DEF Interrupt
  <2> QED BY <2>1
<1> QED BY <1>1, SessionInvariance, PTL DEF Spec, CancelReachesQuery

(* The current connection is one that is open, and the rest of TypeOK.      *)
THEOREM SessionTypes == Spec => []TypeOK
<1>1. SInv => TypeOK
  BY DEF SInv
<1> QED BY SessionInvariance, <1>1, PTL

(* The connection that was current when a query was given is current again  *)
(* when it ends, whatever -d named and whatever went wrong on the way, as   *)
(* long as Control-C does not fall between the two halves of -d.            *)
THEOREM SwitchEnds == Spec => SwitchIsUndone
<1> DEFINE Ended == QueryEnds /\ ~(Interrupt /\ pc = "switched")
<1>1. SInv /\ [Next]_vars => [Ended => current' = was]_vars
  <2> SUFFICES ASSUME SInv, Next, Ended PROVE current' = was
    OBVIOUS
  <2>0. pc # "idle" /\ pc' = "idle" /\ cmd.op \in SqlOp /\ was # NULL
    BY DEF QueryEnds
  <2>1. cmd.op \notin {"connect", "set", "disconnect"} /\ pc \notin {"closed", "free"}
    BY <2>0 DEF SqlOp, SInv, ControlOK
  <2>2. Step \/ (Interrupt /\ pc # "switched")
    <3>1. ~(\E c \in Command : Begin(c)) /\ ~ReadCommand /\ ~(\E h \in Handler : SetTrap(h))
      BY <2>0 DEF Begin, ReadCommand, SetTrap
    <3>2. ~DeadFrame
      BY <2>0 DEF DeadFrame
    <3> QED BY <3>1, <3>2 DEF Next
  <2>3. UNCHANGED current /\ pc \notin {"switched", "idle", "exited"}
    <3>1. CASE Step
      BY <2>0, <2>1, <3>1 DEF Step, OptionEnd, SyntaxError, ExecConnect, ExecSetConnection,
         ExecDisconnect, OldestIsCurrent, FreeOldest, AllFreed, AutoConnect, TakeCurrent, NoCurrent, Switch,
         SwitchFails, SwitchBack, NoSwitch, NothingToSend, Send, LoExec, LoUnknown, NoResult,
         NumberJump, Result, NoFields, CopyBegins, CopyEnds, ConnectionLost, Notified, QueryDone,
         list, frame
    <3>2. CASE Interrupt /\ pc # "switched"
      BY <3>2 DEF Interrupt, list
    <3> QED BY <2>2, <3>1, <3>2
  <2>4. was = current
    BY <2>0, <2>1, <2>3 DEF SInv, TypeOK, PlaceOK, InQuery
  <2> QED BY <2>3, <2>4
<1> QED BY <1>1, SessionInvariance, PTL DEF Spec, SwitchIsUndone

(* A command that fails leaves the reason in SQLCODE, apart from -i without *)
(* a query and the three events FailureHasCode names.                       *)
THEOREM FailuresAreTold == Spec => FailureHasCode
<1> DEFINE Excepted == cmd.op = "cgi" \/ silent # None \/ jumped'
           Told == pc # "idle" /\ pc' = "idle" /\ status' # 0 =>
                      \/ SQLCODE' # SQL_OK
                      \/ cmd.op = "cgi" \/ silent # None \/ jumped'
           Failed == pc # "idle" /\ pc' = "idle" /\ status' # 0 /\ ~Excepted
<1>0. (Failed => SQLCODE' # SQL_OK) => Told
  OBVIOUS
<1>1. SInv /\ [Next]_vars => [Failed => SQLCODE' # SQL_OK]_vars
  <2> SUFFICES ASSUME SInv, Next, Failed PROVE SQLCODE' # SQL_OK
    OBVIOUS
  <2>1. Step
    <3>1. ~Interrupt /\ ~DeadFrame
      BY DEF Interrupt, DeadFrame
    <3>2. ~(\E c \in Command : Begin(c)) /\ ~ReadCommand /\ ~(\E h \in Handler : SetTrap(h))
      BY DEF Begin, ReadCommand, SetTrap
    <3> QED BY <3>1, <3>2 DEF Next
  <2>2. ASSUME NEW code, End(code, TRUE) PROVE FALSE
    BY <2>2 DEF End, Return
  <2>3. ASSUME NEW code, code # SQL_OK, End(code, FALSE) PROVE SQLCODE' # SQL_OK
    BY <2>3 DEF End
  <2>4. CASE QueryDone
    <3>1. good = FALSE /\ End(sqlca, FALSE)
      BY <2>2, <2>4 DEF QueryDone, SInv, TypeOK
    <3>2. sqlca # SQL_OK
      BY <3>1 DEF SInv, ControlOK
    <3> QED BY <2>3, <3>1, <3>2
  <2>6. CASE \/ SyntaxError \/ ExecConnect \/ ExecSetConnection \/ ExecDisconnect
             \/ OldestIsCurrent \/ AllFreed \/ AutoConnect \/ NoCurrent \/ SwitchFails \/ NoResult
    <3>1. AutoConnect => End(SQL_CONNECTION_BAD, FALSE)
      BY DEF AutoConnect, frame
    <3>2. \E code : code # SQL_OK /\ End(code, FALSE)
      BY <2>2, <2>6, <3>1, CodesAre DEF SyntaxError, ExecConnect, ExecSetConnection,
         ExecDisconnect, OldestIsCurrent, AllFreed, NoCurrent, SwitchFails, NoResult
    <3> QED BY <2>3, <3>2
  <2>7. CASE OptionEnd \/ NothingToSend
    BY <2>7 DEF OptionEnd, NothingToSend, Return
  <2>8. ~\/ NumberJump \/ LoExec \/ NoFields \/ FreeOldest \/ TakeCurrent \/ Switch \/ SwitchBack \/ NoSwitch \/ Send \/ LoUnknown
         \/ (\E r \in Answers(cmd.op) \cup Errors : Result(r))
         \/ CopyBegins \/ (\E ok \in BOOLEAN : CopyEnds(ok)) \/ ConnectionLost \/ Notified
    BY DEF NumberJump, LoExec, NoFields, FreeOldest, TakeCurrent, Switch, SwitchBack, NoSwitch, Send,
       LoUnknown, Result, CopyBegins, CopyEnds, ConnectionLost, Notified, frame
  <2> QED BY <2>1, <2>4, <2>6, <2>7, <2>8 DEF Step
<1>2. SInv /\ [Next]_vars => [Told]_vars
  BY <1>0, <1>1
<1> QED BY <1>2, SessionInvariance, PTL DEF Spec, FailureHasCode

-----------------------------------------------------------------------------
(* CONNECT, DISCONNECT and SET CONNECTION, the CONNECT a query does by      *)
(* itself and the two halves of -d are steps of the abstract connections.   *)
LEMMA ConnectionStep ==
    ASSUME SInv,
           \/ ExecConnect \/ ExecSetConnection \/ ExecDisconnect \/ OldestIsCurrent
           \/ FreeOldest \/ AutoConnect \/ Switch \/ SwitchBack
    PROVE  StepNext \/ UNCHANGED specVars
<1>0. TypeOK /\ (pc \notin {"idle", "exited"} => cmd \in Command)
  BY DEF SInv, ControlOK
<1>1. ASSUME NEW nm \in Name, Connect(Unused, nm) PROVE StepNext
  <2>1. Unused \in Conn
    BY <1>0, <1>1, ConnectOK DEF Connect
  <2> QED BY <1>1, <2>1 DEF StepNext
<1>2. CASE ExecConnect
  <2>1. ConnectName(cmd.name) \in Name
    BY <1>0, <1>2, CommandFields, SessionAssumption DEF ExecConnect, ConnectName, Ident
  <2> QED BY <1>1, <1>2, <2>1 DEF ExecConnect, list, specVars
<1>3. CASE AutoConnect
  BY <1>1, <1>3, SessionAssumption DEF AutoConnect, list, specVars
<1>4. CASE ExecSetConnection \/ Switch
  BY <1>4 DEF ExecSetConnection, Switch, Named, StepNext, list, specVars
<1>5. CASE ExecDisconnect
  <2>1. ASSUME NEW c, Close(c) PROVE StepNext
    BY <2>1 DEF Close, StepNext
  <2> QED BY <1>5, <2>1 DEF ExecDisconnect, list, specVars
<1>6. CASE SwitchBack
  <2>1. work \in open /\ SetConnection(work)
    BY <1>6 DEF SwitchBack, SInv, PlaceOK, SetConnection
  <2> QED BY <2>1 DEF StepNext
<1>7. CASE FreeOldest
  BY <1>7 DEF FreeOldest, CloseOldest, Close, StepNext
<1>8. CASE OldestIsCurrent
  BY <1>8 DEF OldestIsCurrent, SetConnection, StepNext, list, specVars
<1> QED BY <1>2, <1>3, <1>4, <1>5, <1>6, <1>7, <1>8

(* Whatever a command is and wherever Control-C cuts it, the connections    *)
(* change by the steps of ConnSpec alone; the saved connection that -d puts *)
(* back has not been closed meanwhile.                                      *)
THEOREM ConnectionsStepByStep == Spec => StepsOfConnections
<1>1. Init => SpecInit
  BY DEF Init
<1>2. SInv /\ [Next]_vars => [StepNext]_specVars
  <2> SUFFICES ASSUME SInv, [Next]_vars PROVE [StepNext]_specVars
    OBVIOUS
  <2>1. CASE UNCHANGED vars \/ Interrupt \/ DeadFrame \/ ReadCommand
             \/ (\E h \in Handler : SetTrap(h)) \/ (\E c \in Command : Begin(c))
    BY <2>1 DEF vars, list, specVars, Interrupt, DeadFrame, ReadCommand, SetTrap, Begin
  <2>2. CASE \/ OptionEnd \/ SyntaxError \/ AllFreed \/ TakeCurrent \/ NoCurrent
             \/ SwitchFails \/ NoSwitch \/ NothingToSend \/ Send \/ LoExec \/ LoUnknown
             \/ NoResult \/ NumberJump \/ (\E r \in Answers(cmd.op) \cup Errors : Result(r))
             \/ NoFields \/ CopyBegins \/ (\E ok \in BOOLEAN : CopyEnds(ok))
             \/ ConnectionLost \/ Notified \/ QueryDone
    BY <2>2 DEF list, specVars, OptionEnd, SyntaxError, AllFreed, TakeCurrent, NoCurrent,
       SwitchFails, NoSwitch, NothingToSend, Send, LoExec, LoUnknown, NoResult, NumberJump,
       Result, NoFields, CopyBegins, CopyEnds, ConnectionLost, Notified, QueryDone
  <2> QED BY <2>1, <2>2, ConnectionStep DEF Next, Step
<1> QED BY <1>1, <1>2, SessionInvariance, PTL DEF Spec, StepsOfConnections, StepSpec
=============================================================================
