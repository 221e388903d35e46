------------------------------ MODULE ConnSpec ------------------------------
(***************************************************************************)
(* What PgBash promises about its set of database connections, without the *)
(* pointers: a set of open connections, each with its own connect name, of *)
(* which one is the current connection whenever any is open.  A connection *)
(* is identified by the order in which it was opened.                      *)
(* ConnList is the linked list of sql_connect.c that implements this.      *)
(***************************************************************************)
EXTENDS Integers

CONSTANTS Conn,        \* the connections that can be opened, a set of numbers
          Name         \* the connect names a connection may carry

VARIABLES open,        \* the connections that are open
          name,        \* name[c]: the connect name of the open connection c
          current      \* the connection SQL is sent to, 0 when none is open

specVars == <<open, name, current>>

Oldest(S) == IF S = {} THEN 0 ELSE CHOOSE c \in S : \A d \in S : c <= d

SpecInit == open = {} /\ name = [c \in {} |-> 0] /\ current = 0

-----------------------------------------------------------------------------
(* CONNECT TO ... AS nm: a name no open connection has; it becomes current. *)
Connect(c, nm) ==
    /\ \A d \in open : d < c /\ name[d] # nm
    /\ open' = open \cup {c}
    /\ name' = [d \in open \cup {c} |-> IF d = c THEN nm ELSE name[d]]
    /\ current' = c

(* DISCONNECT nm | CURRENT: one connection closes, the oldest of the        *)
(* remaining ones becomes current, whether or not the current one closed.   *)
Disconnect(c) ==
    /\ c \in open
    /\ open' = open \ {c}
    /\ name' = [d \in open \ {c} |-> name[d]]
    /\ current' = Oldest(open \ {c})

(* DISCONNECT ALL. *)
DisconnectAll ==
    /\ open' = {}
    /\ name' = [c \in {} |-> 0]
    /\ current' = 0

(* SET CONNECTION nm. *)
SetConnection(c) ==
    /\ c \in open
    /\ current' = c
    /\ UNCHANGED <<open, name>>

SpecNext ==
    \/ \E c \in Conn, nm \in Name : Connect(c, nm)
    \/ \E c \in open : Disconnect(c) \/ SetConnection(c)
    \/ DisconnectAll

SpecSpec == SpecInit /\ [][SpecNext]_specVars

-----------------------------------------------------------------------------
(* The same call by call.  DISCONNECT closes a connection, and only then    *)
(* makes the oldest of the others current; DISCONNECT ALL closes the oldest *)
(* again and again.  Broken off in between, there may be no current one,    *)
(* and DISCONNECT ALL leaves the connections it has not reached.            *)
Close(c) ==
    /\ c \in open
    /\ open' = open \ {c}
    /\ name' = [d \in open \ {c} |-> name[d]]
    /\ current' = IF c = current THEN 0 ELSE current

CloseOldest == open # {} /\ Close(Oldest(open))

StepNext ==
    \/ \E c \in Conn, nm \in Name : Connect(c, nm)
    \/ \E c \in open : Close(c) \/ SetConnection(c)

StepSpec == SpecInit /\ [][StepNext]_specVars
=============================================================================
