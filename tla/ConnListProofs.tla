--------------------------- MODULE ConnListProofs ---------------------------
(* Proofs about ConnList, for every set of names and versions and any bound. *)
EXTENDS ConnList, FiniteSetTheorems, TLAPS

(* The name a statement looks for is a connect name or ALL_VALUE. *)
LEMMA ConnectNameType ==
    ASSUME NEW s \in ConnectStmt
    PROVE  ConnectName(s) \in ConnName /\ ConnectName(s) # NoName
BY ConstAssumption DEF ConnectStmt, ConnectName, ConnName, Target, IsDefault,
   DEFAULT_VALUE, NoName

(* A statement is a CONNECT, a DISCONNECT or a SET CONNECTION. *)
LEMMA StmtCases ==
    ASSUME NEW s \in Stmt
    PROVE  \/ s \in ConnectStmt /\ s.op = "connect"
           \/ s \in DisconnectStmt /\ s.op = "disconnect"
           \/ s \in SetStmt /\ s.op = "set"
BY DEF Stmt, ConnectStmt, DisconnectStmt, SetStmt

(* SET CONNECTION looks for a connect name, never for nothing. *)
LEMMA SetNameType ==
    ASSUME NEW s \in SetStmt
    PROVE  SetName(s) \in ConnName /\ SetName(s) # NoName
BY ConstAssumption DEF SetStmt, SetName, ConnName, Target, DEFAULT_VALUE, NoName

(* DISCONNECT looks for a connect name or an internal name. *)
LEMMA DisconnectNameType ==
    ASSUME NEW s \in DisconnectStmt
    PROVE  DisconnectName(s) \in ConnName \cup {CURRENT_VALUE, ALL_VALUE} 
BY ConstAssumption DEF DisconnectStmt, DisconnectName, ConnName, Target,
   DEFAULT_VALUE, CURRENT_VALUE, ALL_VALUE

(* Removing a member of a finite set, or adding a new number to it. *)
LEMMA LiveFinite == ASSUME TypeOK PROVE IsFiniteSet(live)
<1>1. IsFiniteSet(Node)
  BY ConstAssumption, FS_Interval DEF Node
<1> QED BY <1>1, FS_Subset DEF TypeOK

(* A list of one connection holds that connection only. *)
LEMMA CountOne ==
    ASSUME TypeOK, maxno = Cardinality(live), NEW d \in live
    PROVE  /\ maxno = 1 <=> live = {d}
           /\ maxno \in Nat \ {0}
           /\ Cardinality(live \ {d}) = maxno - 1
<1>1. IsFiniteSet(live)
  BY LiveFinite
<1>2. /\ IsFiniteSet(live \ {d})
      /\ Cardinality(live \ {d}) = Cardinality(live) - 1
  BY <1>1, FS_RemoveElement
<1>3. Cardinality(live) \in Nat /\ Cardinality(live \ {d}) \in Nat
  BY <1>1, <1>2, FS_CardinalityType
<1>4. Cardinality(live \ {d}) = 0 <=> live \ {d} = {}
  BY <1>2, FS_EmptySet
<1> QED BY <1>2, <1>3, <1>4

(* Between iterations maxno is the number of nodes. *)
LEMMA Counts ==
    ASSUME TypeOK, ListOK, ~InPieces \/ pDBL \in live
    PROVE  maxno = Cardinality(live) /\ (maxno = 0 <=> live = {}) /\ Linked
<1>1. live \cup Half = live
  BY DEF Half
<1>2. IsFiniteSet(live)
  BY LiveFinite
<1> QED BY <1>1, <1>2, FS_EmptySet DEF ListOK

(* psconninfo starts as an empty list. *)
LEMMA InitIInv == Init => IInv
<1> SUFFICES ASSUME Init PROVE IInv
  OBVIOUS
<1> USE DEF Init
<1>1. TypeOK
  BY ConstAssumption DEF TypeOK, Node, NULL, Pointer
<1>2. ListOK
  BY FS_EmptySet DEF ListOK, Linked, Half, InPieces
<1>3. NoDangling /\ DistinctNames /\ WalkOK /\ OrderOK /\ CurrentOK
  BY DEF NoDangling, DistinctNames, WalkOK, OrderOK, CurrentOK, Half, InPieces, NULL
<1> QED BY <1>1, <1>2, <1>3 DEF IInv

-----------------------------------------------------------------------------
(* A statement that ends without having touched the list keeps IInv, unless *)
(* a batch shell is left with a session that is not bound, or with a node   *)
(* in pieces.                                                               *)
LEMMA EndUntouched ==
    ASSUME IInv, NEW code \in {SQL_OK, SQL_DB_NOT_OPEN, SQL_NAME_NOT_FOUND,
                               SQL_NAME_ALREADY_USE, SQL_CONNECTION_BAD},
           Finish(code), UNCHANGED <<extern, heap, info, shell>>,
           ~InPieces,
           Interactive \/ pc \in {"idle", "connect"} \/ (pc = "walk" /\ ~FreesAll)
    PROVE  IInv'
<1> USE DEF extern, heap, info, shell, Finish, IInv
<1>0. Half = {} /\ Half' = {} /\ ~InPieces'
  BY DEF Half, InPieces
<1>1. TypeOK'
  BY DEF TypeOK, Pointer, Node, NULL
<1>2. ListOK' /\ NoDangling' /\ DistinctNames'
  BY <1>0 DEF ListOK, Linked, NoDangling, DistinctNames
<1>3. WalkOK' /\ OrderOK'
  BY <1>0 DEF WalkOK, OrderOK
<1>4. CurrentOK'
  BY <1>0 DEF CurrentOK, InPieces
<1> QED BY <1>1, <1>2, <1>3, <1>4

(* A refused statement changes no list. *)
LEMMA RefuseOK == ASSUME IInv, NEW s \in Stmt, Refuse(s) PROVE IInv'
BY EndUntouched DEF Refuse, InPieces

(* The name a statement looks for is a connect name or ALL_VALUE.           *)
LEMMA SearchNameType ==
    ASSUME IInv, NEW s \in Stmt, pc = "idle", ~NoConnection(s)
    PROVE  /\ SearchName(s) \in ConnName \cup {ALL_VALUE}
           /\ s.op = "connect" => SearchName(s) = ConnectName(s)
           /\ s.op = "set" => SearchName(s) = SetName(s)
           /\ s.op = "disconnect" /\ ~IsCurrent(s) => SearchName(s) = DisconnectName(s)
           /\ IsCurrent(s) => SearchName(s) \in ConnName /\ SearchName(s) = cname[currentp]
<1>1. CASE s \in ConnectStmt /\ s.op = "connect"
  BY <1>1, ConnectNameType DEF SearchName, IsCurrent
<1>2. CASE s \in SetStmt /\ s.op = "set"
  BY <1>2, SetNameType DEF SearchName, IsCurrent
<1>3. CASE s \in DisconnectStmt /\ s.op = "disconnect" /\ IsCurrent(s)
  <2>1. currentp \in live
    BY <1>3 DEF IInv, NoDangling, NoConnection, IsCurrent
  <2>2. cname[currentp] \in ConnName
    BY <2>1 DEF IInv, TypeOK, NoDangling, Half, InPieces
  <2> QED BY <1>3, <2>2 DEF SearchName, IsCurrent
<1>4. CASE s \in DisconnectStmt /\ s.op = "disconnect" /\ ~IsCurrent(s)
  BY <1>4, DisconnectNameType DEF SearchName, IsCurrent
<1> QED BY <1>1, <1>2, <1>3, <1>4, StmtCases

(* A walk starts at firstp, and nothing is before it. *)
LEMMA StartOK == ASSUME IInv, NEW s \in Stmt, Start(s) PROVE IInv'
<1> USE DEF Start, extern, heap, info, shell, IInv
<1>0. Half = {} /\ Half' = {} /\ ~InPieces /\ ~InPieces'
  BY DEF Half, InPieces
<1>1. /\ SearchName(s) \in ConnName \cup {ALL_VALUE}
      /\ s.op = "connect" => SearchName(s) = ConnectName(s)
      /\ s.op = "set" => SearchName(s) = SetName(s)
      /\ s.op = "disconnect" /\ ~IsCurrent(s) => SearchName(s) = DisconnectName(s)
      /\ IsCurrent(s) => SearchName(s) \in ConnName /\ SearchName(s) = cname[currentp]
  BY SearchNameType
<1>2. TypeOK'
  BY <1>1 DEF TypeOK, Pointer, Node, NULL
<1>3. ListOK' /\ NoDangling' /\ DistinctNames' /\ OrderOK'
  BY <1>0 DEF ListOK, Linked, NoDangling, DistinctNames, OrderOK
<1>4. maxno = 0 <=> live = {}
  BY <1>0, Counts
<1>5. pDBL' = firstp /\ \A n \in live : firstp <= n
  BY <1>4 DEF ListOK, Linked
<1>6. WalkOK'
  <2>1. pDBL' \in live \cup {NULL} /\ prev' = firstp
    BY <1>4, <1>5 DEF ListOK, Linked
  <2>2. IsCurrent(s) => currentp # NULL
    BY DEF NoConnection, IsCurrent
  <2>3. \A n \in live : ~(pDBL' # NULL => n < pDBL')
    BY <1>4, <1>5, <2>1 DEF ListOK, Linked, TypeOK, Node, NULL
  <2>4. stmt' = s /\ arg' = SearchName(s) /\ pc' = "walk" /\ live' = live /\ cname' = cname
        /\ currentp' = currentp /\ firstp' = firstp /\ next' = next /\ alloc' = alloc
    OBVIOUS
  <2>5. s.op = "connect" => alloc < MaxConn
    OBVIOUS
  <2> HIDE DEF Start, IInv
  <2> QED BY <1>0, <1>1, <1>5, <2>1, <2>2, <2>3, <2>4, <2>5 DEF WalkOK, IsCurrent, FreesAll
<1>7. CurrentOK'
  BY <1>0 DEF CurrentOK
<1> QED BY <1>2, <1>3, <1>6, <1>7

(* The node behind a listed one is listed, or there is none. *)
LEMMA NextListed ==
    ASSUME TypeOK, Linked, NEW d \in live
    PROVE  next[d] \in live \cup {NULL} /\ next[d] # d
BY DEF Linked, TypeOK, Node, NULL

(* The node that is left behind did not match. *)
LEMMA WalkStepOK == ASSUME IInv, Walk PROVE IInv'
<1> USE DEF Walk, extern, heap, info, shell, IInv
<1>0. Half = {} /\ Half' = {} /\ ~InPieces /\ ~InPieces'
  BY DEF Half, InPieces
<1>1. pDBL \in live /\ pDBL \in Node
  BY DEF WalkOK, TypeOK
<1>2. next[pDBL] \in live \cup {NULL}
  BY <1>1, NextListed DEF ListOK
<1>3. TypeOK'
  BY <1>1, <1>2 DEF TypeOK, Pointer, Node, NULL
<1>4. ListOK' /\ NoDangling' /\ DistinctNames' /\ OrderOK'
  BY <1>0 DEF ListOK, Linked, NoDangling, DistinctNames, OrderOK
<1>5. WalkOK'
  <2>1. ~FreesAll /\ ~FreesAll' /\ cname[pDBL] # arg
    BY DEF Matches, FreesAll
  <2>2. \A n \in live : (pDBL' # NULL => n < pDBL') => n = pDBL \/ n < pDBL
    BY <1>1 DEF ListOK, Linked, TypeOK, Node, NULL
  <2>3. \A n \in live : (pDBL' # NULL => n < pDBL') => cname[n] # arg
    BY <2>1, <2>2 DEF WalkOK
  <2>4. pDBL' \in live \cup {NULL} /\ prev' = pDBL /\ next[prev'] = pDBL' /\ pDBL # NULL
    BY <1>2
  <2>5. pDBL' # firstp \/ pDBL' = NULL
    BY <1>1, <1>2 DEF ListOK, Linked, TypeOK, Node, NULL
  <2>6. firstp # NULL
    BY <1>1 DEF ListOK, Linked, TypeOK, Node, NULL
  <2>7. stmt' = stmt /\ arg' = arg /\ pc' = "walk" /\ live' = live /\ cname' = cname
        /\ currentp' = currentp /\ firstp' = firstp /\ next' = next /\ alloc' = alloc
    OBVIOUS
  <2>8. WalkOK /\ pc = "walk"
    OBVIOUS
  <2> HIDE DEF Walk, IInv
  <2> QED BY <1>0, <1>1, <2>1, <2>3, <2>4, <2>5, <2>6, <2>7, <2>8 DEF WalkOK, IsCurrent
<1>6. CurrentOK'
  BY <1>0 DEF CurrentOK, FreesAll, Matches
<1> QED BY <1>3, <1>4, <1>5, <1>6

(* CONNECT with a name in use changes nothing. *)
LEMMA NameUsedOK == ASSUME IInv, NameUsed PROVE IInv'
BY EndUntouched DEF NameUsed, FreesAll, InPieces

(* A walk that reached the end has seen every name. *)
LEMMA NameFreeOK == ASSUME IInv, NameFree PROVE IInv'
<1> USE DEF NameFree, extern, heap, info, shell, IInv
<1>0. Half = {} /\ Half' = {} /\ ~InPieces /\ ~InPieces'
  BY DEF Half, InPieces
<1>1. TypeOK'
  BY DEF TypeOK
<1>2. ListOK' /\ NoDangling' /\ DistinctNames' /\ OrderOK'
  BY <1>0 DEF ListOK, Linked, NoDangling, DistinctNames, OrderOK
<1>3. WalkOK' /\ CurrentOK'
  BY <1>0 DEF WalkOK, CurrentOK, FreesAll, IsCurrent, TypeOK
<1> QED BY <1>1, <1>2, <1>3

(* PQsetdb fails: nothing is added. *)
LEMMA ConnectFailsOK == ASSUME IInv, ConnectFails PROVE IInv'
BY EndUntouched DEF ConnectFails, InPieces

(* PQsetdb returns a session that is in no list yet. *)
LEMMA ConnectReturnsOK ==
    ASSUME IInv, NEW v \in Versions, ConnectReturns(v) PROVE IInv'
<1> USE DEF ConnectReturns, heap, info, shell, IInv
<1>1. alloc \in Nat /\ alloc + 1 \in Node /\ alloc + 1 \notin live /\ alloc + 1 \notin sessions
  BY ConstAssumption DEF TypeOK, WalkOK, OrderOK, Node
<1>2. TypeOK'
  BY <1>1, ConstAssumption DEF TypeOK, Node
<1>0. Half = {} /\ Half' = {} /\ ~InPieces /\ ~InPieces'
  BY DEF Half, InPieces
<1>3. ListOK' /\ NoDangling' /\ DistinctNames'
  BY <1>0 DEF ListOK, Linked, NoDangling, DistinctNames
<1>4. WalkOK'
  BY <1>0 DEF WalkOK, IsCurrent
<1>5. OrderOK'
  BY <1>1 DEF OrderOK
<1>6. CurrentOK'
  <2>1. /\ server'[alloc + 1] = v /\ v # NoVersion
        /\ \A n \in live \cup sessions : server'[n] = server[n]
    BY <1>1, ConstAssumption DEF TypeOK
  <2>2. Half = {} /\ \A n \in live : ver_no'[n] = ver_no[n]
    BY <1>0
  <2>3. currentp' # NULL => currentp' \in live
    BY DEF NoDangling
  <2> QED BY <1>0, <1>1, <2>1, <2>2, <2>3 DEF CurrentOK
<1> QED BY <1>2, <1>3, <1>4, <1>5, <1>6

-----------------------------------------------------------------------------
(* getVersion: only its buffer changes. *)
LEMMA VersionReturnsOK ==
    ASSUME IInv, NEW answered \in {TRUE, ~Fallible}, VersionReturns(answered)
    PROVE  IInv'
<1> USE DEF VersionReturns, extern, heap, info, IInv
<1>0. Half = {} /\ Half' = {} /\ ~InPieces /\ ~InPieces'
  BY DEF Half, InPieces
<1>1. alloc \in Node /\ alloc \in sessions /\ server[alloc] \in Versions
  BY DEF OrderOK, CurrentOK, TypeOK
<1>2. TypeOK'
  BY <1>1 DEF TypeOK
<1>3. ListOK' /\ NoDangling' /\ DistinctNames' /\ OrderOK'
  BY <1>0 DEF ListOK, Linked, NoDangling, DistinctNames, OrderOK
<1>4. WalkOK' /\ CurrentOK'
  BY <1>0 DEF WalkOK, CurrentOK, IsCurrent
<1> QED BY <1>2, <1>3, <1>4

(* The shell variable is bound before the connection is. *)
LEMMA BindNewVersionOK == ASSUME IInv, BindNewVersion PROVE IInv'
<1> USE DEF BindNewVersion, extern, heap, info, IInv
<1>0. Half = {} /\ Half' = {} /\ ~InPieces /\ ~InPieces'
  BY DEF Half, InPieces
<1>1. alloc \in sessions /\ server[alloc] # NoVersion
  BY DEF OrderOK, CurrentOK
<1>2. TypeOK'
  BY DEF TypeOK
<1>3. ListOK' /\ NoDangling' /\ DistinctNames' /\ OrderOK'
  BY <1>0 DEF ListOK, Linked, NoDangling, DistinctNames, OrderOK
<1>4. WalkOK' /\ CurrentOK'
  BY <1>0, <1>1 DEF WalkOK, CurrentOK, IsCurrent
<1> QED BY <1>2, <1>3, <1>4

(* bind_PSconnList: the new node has the largest number, so it is last. *)
LEMMA ConnectedOK == ASSUME IInv, Connected PROVE IInv'
<1> USE DEF Connected, BindPSconnList, extern, shell, Finish, IInv
<1>0. Half = {} /\ Half' = {} /\ ~InPieces /\ ~InPieces'
  BY DEF Half, InPieces
<1>1. /\ alloc \in Node /\ alloc \notin live /\ alloc \in sessions /\ alloc # NULL
      /\ \A n \in live : n \in Node /\ n < alloc
  BY DEF OrderOK, TypeOK, Node, NULL
<1>2. firstp = NULL <=> live = {}
  BY DEF ListOK, Linked, TypeOK, Node, NULL
<1>3. IsFiniteSet(live) /\ Cardinality(live') = maxno + 1 /\ (maxno = 0 <=> live = {})
  BY <1>0, <1>1, Counts, LiveFinite, FS_AddElement
<1>4. stmt \in ConnectStmt /\ arg = ConnectName(stmt) /\ arg \in ConnName /\ arg # NoName
  BY ConnectNameType, StmtCases DEF WalkOK, TypeOK
<1>6. maxno' = maxno + 1 /\ maxno' <= MaxConn
  <2>1. live' \subseteq Node
    BY <1>1 DEF TypeOK
  <2>2. Cardinality(Node) = MaxConn /\ IsFiniteSet(Node)
    BY ConstAssumption, FS_Interval DEF Node
  <2>3. Cardinality(live') <= MaxConn
    BY <2>1, <2>2, FS_Subset
  <2>4. firstp = NULL => maxno = 0
    BY <1>2, <1>3
  <2> QED BY <1>3, <2>3, <2>4
<1>7. TypeOK'
  <2>1. verbuf \in Versions \cup {NoVersion}
    BY DEF TypeOK
  <2>2. next' \in [Node -> Pointer] /\ cname' \in [Node -> ConnName \cup {NoName}]
    BY <1>1, <1>4 DEF TypeOK, Pointer
  <2>3. ver_no' \in [Node -> Versions \cup {NoVersion}]
    BY <1>1, <2>1 DEF TypeOK
  <2>4. maxno' \in 0 .. MaxConn /\ live' \subseteq Node
    BY <1>1, <1>6, ConstAssumption DEF TypeOK
  <2>5. POSTGRESQL_VERSION' \in Versions \cup {NoVersion}
    BY DEF TypeOK
  <2>6. /\ firstp' \in Pointer /\ lastp' \in Pointer
        /\ currentp' \in Pointer /\ defaultp' \in Pointer
    BY <1>1 DEF TypeOK, Pointer
  <2> QED BY <2>1, <2>2, <2>3, <2>4, <2>5, <2>6 DEF TypeOK, Pointer
<1>8. ListOK'
  <2>1. \A n \in live : firstp <= n /\ n <= lastp
    BY DEF ListOK, Linked
  <2>2. CASE live = {}
    BY <1>0, <1>1, <1>2, <1>3, <1>6, <2>2 DEF TypeOK, ListOK, Linked, Node, NULL
  <2>3. CASE live # {}
    <3>1. firstp \in live /\ lastp \in live /\ firstp # NULL /\ lastp # alloc
      BY <1>1, <1>2, <2>3 DEF ListOK, Linked
    <3>2. next'[lastp] = alloc /\ next'[alloc] = NULL
      BY <1>1, <3>1 DEF TypeOK
    <3>3. \A n \in live \ {lastp} : next'[n] = next[n]
      BY <1>1, <3>1 DEF TypeOK
    <3>4. lastp' = alloc /\ firstp' = firstp /\ live' = live \cup {alloc}
      BY <3>1
    <3>5. \A n \in live' : firstp' <= n /\ n <= lastp'
      BY <1>1, <2>1, <3>1, <3>4 DEF Node
    <3>6. \A n \in live' \ {lastp'} :
            /\ next'[n] \in live' /\ n < next'[n]
            /\ \A m \in live' : n < m => next'[n] <= m
      <4>0. \A n \in live \ {lastp} :
              /\ next[n] \in live /\ n < next[n]
              /\ \A m \in live : n < m => next[n] <= m
        BY DEF ListOK, Linked
      <4> HIDE DEF Connected, BindPSconnList, IInv
      <4>1. ASSUME NEW n \in live, n # lastp
            PROVE  /\ next'[n] \in live' /\ n < next'[n]
                   /\ \A m \in live' : n < m => next'[n] <= m
        <5>1. next'[n] = next[n] /\ next[n] \in live /\ n < next[n]
          BY <3>3, <4>0, <4>1
        <5>2. next[n] <= alloc
          BY <1>1, <5>1 DEF Node
        <5> QED BY <3>4, <4>0, <4>1, <5>1, <5>2
      <4>2. \A m \in live' : lastp < m => alloc <= m
        BY <1>1, <2>1, <3>1, <3>4 DEF Node
      <4>3. lastp \in live' /\ alloc \in live' /\ lastp < alloc
        BY <1>1, <3>1, <3>4
      <4> QED BY <3>2, <3>4, <4>1, <4>2, <4>3
    <3> QED BY <1>0, <1>3, <1>6, <3>1, <3>2, <3>4, <3>5, <3>6 DEF ListOK, Linked
  <2> QED BY <2>2, <2>3
<1>9. NoDangling' /\ DistinctNames'
  BY <1>0, <1>1, <1>4 DEF NoDangling, DistinctNames, WalkOK, TypeOK
<1>10. WalkOK' /\ OrderOK'
  BY <1>0, <1>1, <1>4 DEF WalkOK, OrderOK, TypeOK
<1>11. CurrentOK'
  BY <1>0, <1>1, ConstAssumption DEF CurrentOK, TypeOK, NoVersion
<1> QED BY <1>7, <1>8, <1>9, <1>10, <1>11

(* A node that becomes current is listed. *)
LEMMA SetCurrentOK == ASSUME IInv, SetCurrent PROVE IInv'
<1> USE DEF SetCurrent, extern, heap, shell, IInv
<1>0. Half = {} /\ Half' = {} /\ ~InPieces /\ ~InPieces'
  BY DEF Half, InPieces
<1>1. pDBL \in live /\ pDBL \in Node /\ pDBL # NULL /\ cname[pDBL] = arg
  BY DEF WalkOK, TypeOK, Matches, FreesAll
<1>2. TypeOK'
  BY <1>1 DEF TypeOK, Pointer, Node, NULL
<1>3. ListOK' /\ NoDangling' /\ DistinctNames'
  BY <1>0, <1>1 DEF ListOK, Linked, NoDangling, DistinctNames
<1>4. WalkOK' /\ OrderOK' /\ CurrentOK'
  BY <1>0, <1>1 DEF WalkOK, OrderOK, CurrentOK, IsCurrent
<1> QED BY <1>2, <1>3, <1>4

(* The shell variable is bound to the version of the current connection.   *)
LEMMA SetVersionOK == ASSUME IInv, SetVersion PROVE IInv'
<1> USE DEF SetVersion, Finish, extern, heap, info, IInv
<1>0. Half = {} /\ Half' = {} /\ ~InPieces /\ ~InPieces'
  BY DEF Half, InPieces
<1>1. currentp \in live /\ currentp \in Node
  BY DEF WalkOK, NoDangling, TypeOK
<1>2. TypeOK'
  BY <1>1 DEF TypeOK, Pointer, Node, NULL
<1>3. ListOK' /\ NoDangling' /\ DistinctNames'
  BY <1>0 DEF ListOK, Linked, NoDangling, DistinctNames
<1>4. WalkOK' /\ OrderOK' /\ CurrentOK'
  BY <1>0, <1>1 DEF WalkOK, OrderOK, CurrentOK
<1> QED BY <1>2, <1>3, <1>4

(* A name that is not found changes nothing. *)
LEMMA NameNotFoundOK == ASSUME IInv, NameNotFound PROVE IInv'
BY EndUntouched DEF NameNotFound, InPieces

-----------------------------------------------------------------------------
(* free_PSconnList takes node d out: what remains is again a list.  When d  *)
(* is not the first node, prev is the node before it.                       *)
LEMMA UnlinkOK ==
    ASSUME TypeOK, Linked, maxno = Cardinality(live), defaultp \in live \cup {NULL},
           NEW d \in live, Unlink(d), prev # NULL,
           d # firstp => prev \in live /\ next[prev] = d,
           d = firstp => prev = d \/ prev \notin live
    PROVE  /\ Linked'
           /\ live' = live \ {d}
           /\ defaultp' \in live' \cup {NULL}
           /\ next' \in [Node -> Pointer]
           /\ firstp' \in Pointer /\ lastp' \in Pointer
           /\ d # firstp /\ maxno # 1 => firstp' = firstp
           /\ d = firstp => firstp' = next[d]
<1>0. TypeOK /\ Linked /\ defaultp \in live \cup {NULL} /\ live' = live \ {d}
  BY DEF Unlink
<1>1. /\ maxno = 1 <=> live = {d}
      /\ maxno \in Nat \ {0}
  BY CountOne
<1>2. live \subseteq Node /\ MaxConn \in Nat /\ \A n \in live : n \in Int /\ n # NULL
  BY <1>0, ConstAssumption DEF TypeOK, Node, NULL
<1>3. next' \in [Node -> Pointer]
  BY <1>0 DEF TypeOK, Pointer, NULL, Unlink
<1>4. firstp \in live /\ lastp \in live /\ next[lastp] = NULL
  BY <1>0 DEF Linked
<1>A. \A n \in live : firstp <= n /\ n <= lastp
  BY <1>0 DEF Linked
<1>B. \A n \in live \ {lastp} :
        /\ next[n] \in live /\ n < next[n]
        /\ \A m \in live : n < m => next[n] <= m
  BY <1>0 DEF Linked
<1>5. CASE maxno = 1
  <2>1. /\ live' = {} /\ firstp' = NULL /\ lastp' = NULL /\ defaultp' = NULL
        /\ firstp = d /\ lastp = d
    BY <1>0, <1>1, <1>4, <1>5 DEF Unlink
  <2>2. next[d] = NULL
    BY <1>4, <2>1
  <2>3. Linked'
    BY <1>1, <2>1 DEF Linked
  <2> QED BY <1>0, <1>2, <1>3, <1>5, <2>1, <2>2, <2>3 DEF Pointer
<1>6. CASE maxno # 1
  <2>1. PICK e \in live : e # d
    BY <1>1, <1>6
  <2>2. firstp # lastp
    BY <1>2, <1>4, <1>A, <2>1
  <2>4. defaultp' \in live' \cup {NULL}
    BY <1>0, <1>6 DEF Unlink
  <2>5. CASE d = firstp
    <3>1. next[d] \in live /\ d < next[d] /\ \A m \in live : d < m => next[d] <= m
      BY <1>4, <1>B, <2>2, <2>5
    <3>2. firstp' = next[d] /\ lastp' = lastp /\ firstp' \in live' /\ lastp' \in live'
      BY <1>0, <1>2, <1>4, <1>6, <2>2, <2>5, <3>1 DEF Unlink
    <3>3. \A n \in live' : next'[n] = next[n]
      BY <1>0, <1>2, <2>5 DEF TypeOK, Unlink
    <3>4. \A n \in live' : firstp' <= n /\ n <= lastp'
      BY <1>0, <1>2, <1>A, <2>5, <3>1, <3>2
    <3>5. \A n \in live' \ {lastp'} :
            /\ next'[n] \in live' /\ n < next'[n]
            /\ \A m \in live' : n < m => next'[n] <= m
      <4>1. ASSUME NEW n \in live', n # lastp PROVE next[n] # d
        BY <4>1, <1>0, <1>2, <1>A, <1>B, <2>5
      <4> QED BY <1>0, <1>B, <3>2, <3>3, <4>1
    <3>6. next'[lastp'] = NULL
      BY <1>4, <3>2, <3>3
    <3>7. Linked'
      BY <1>1, <3>2, <3>4, <3>5, <3>6 DEF Linked
    <3> QED BY <1>0, <1>2, <1>3, <1>6, <2>4, <2>5, <3>2, <3>7 DEF Pointer
  <2>6. CASE d # firstp
    <3>1. prev \in live /\ next[prev] = d /\ prev # d /\ prev # lastp /\ prev < d
      BY <1>2, <1>4, <1>B, <2>6
    <3>2. \A m \in live : prev < m => d <= m
      BY <1>B, <3>1
    <3>3. /\ next'[prev] = next[d]
          /\ \A n \in live' \ {prev} : next'[n] = next[n]
      BY <1>0, <1>2, <1>6, <3>1 DEF TypeOK, Unlink
    <3>4. firstp' = firstp /\ firstp' \in live'
      BY <1>0, <1>4, <1>6, <2>6 DEF Unlink
    <3>5. CASE d = lastp
      <4>1. lastp' = prev /\ next'[prev] = NULL /\ lastp' \in live'
        BY <1>0, <1>4, <1>6, <3>1, <3>3, <3>5 DEF Unlink
      <4>2. \A n \in live' : firstp' <= n /\ n <= lastp'
        BY <1>0, <1>2, <1>A, <3>1, <3>2, <3>4, <3>5, <4>1
      <4>3. ASSUME NEW n \in live' \ {lastp'}
            PROVE  /\ next'[n] \in live' /\ n < next'[n]
                   /\ \A m \in live' : n < m => next'[n] <= m
        <5>1. n \in live \ {lastp} /\ n # prev /\ next'[n] = next[n]
          BY <1>0, <3>3, <3>5, <4>1, <4>3
        <5>2. next[n] # d
          BY <1>0, <1>2, <1>B, <3>1, <3>2, <4>1, <4>2, <4>3, <5>1
        <5> QED BY <1>0, <1>B, <5>1, <5>2
      <4>4. Linked'
        BY <1>1, <3>4, <4>1, <4>2, <4>3 DEF Linked
      <4> QED BY <1>0, <1>2, <1>3, <2>4, <2>6, <3>4, <4>1, <4>4 DEF Pointer
    <3>6. CASE d # lastp
      <4>1. lastp' = lastp /\ lastp' \in live' /\ next'[lastp] = NULL
        BY <1>0, <1>4, <1>6, <3>1, <3>3, <3>6 DEF Unlink
      <4>2. \A n \in live' : firstp' <= n /\ n <= lastp'
        BY <1>0, <1>A, <3>4, <4>1
      <4>3. next[d] \in live /\ d < next[d] /\ \A m \in live : d < m => next[d] <= m
        BY <1>B, <3>6
      <4>4. ASSUME NEW n \in live' \ {lastp'}
            PROVE  /\ next'[n] \in live' /\ n < next'[n]
                   /\ \A m \in live' : n < m => next'[n] <= m
        <5>1. CASE n = prev
          BY <1>0, <1>2, <3>1, <3>2, <3>3, <4>3, <5>1
        <5>2. CASE n # prev
          <6>1. n \in live \ {lastp} /\ n # d /\ next'[n] = next[n]
            BY <1>0, <3>3, <4>1, <4>4, <5>2
          <6>2. next[n] # d
            <7>1. n < prev \/ prev < n
              BY <1>2, <3>1, <5>2, <6>1
            <7>2. n < prev => next[n] <= prev
              BY <1>B, <3>1, <6>1
            <7>3. prev < n => d < next[n]
              BY <1>2, <1>B, <3>1, <3>2, <6>1
            <7> QED BY <1>2, <1>B, <3>1, <6>1, <7>1, <7>2, <7>3
          <6> QED BY <1>0, <1>B, <6>1, <6>2
        <5> QED BY <5>1, <5>2
      <4>5. Linked'
        BY <1>1, <3>4, <4>1, <4>2, <4>4 DEF Linked
      <4> QED BY <1>0, <1>2, <1>3, <2>4, <2>6, <3>4, <4>1, <4>5 DEF Pointer
    <3> QED BY <3>5, <3>6
  <2> QED BY <2>5, <2>6
<1> QED BY <1>5, <1>6

(* The names of the node are freed: no other node carries its name. *)
LEMMA FreeNamesOK == ASSUME IInv, FreeNames PROVE IInv'
<1> USE DEF FreeNames, extern, info, shell, IInv
<1>0. Half = {} /\ Half' = {pDBL} /\ ~InPieces /\ InPieces'
  BY DEF Half, InPieces
<1>1. pDBL \in live /\ pDBL \in Node
  BY DEF WalkOK, TypeOK
<1>2. TypeOK' /\ \A n \in live \ {pDBL} : cname'[n] = cname[n]
  BY <1>1 DEF TypeOK
<1>3. cname'[pDBL] = NoName
  BY <1>1 DEF TypeOK
<1>4. ListOK'
  <2>1. Linked'
    BY DEF ListOK, Linked
  <2>2. live' \cup Half' = live \cup Half
    BY <1>0, <1>1
  <2> QED BY <2>1, <2>2 DEF ListOK
<1>5. NoDangling' /\ DistinctNames'
  BY <1>0, <1>2, <1>3 DEF NoDangling, DistinctNames
<1>6. WalkOK'
  <2>1. cname[pDBL] = arg \/ FreesAll
    BY DEF Matches
  <2>2. cname[pDBL] = arg => \A n \in live \ {pDBL} : cname'[n] # arg
    BY <1>1, <1>2 DEF DistinctNames
  <2>3. ASSUME IsCurrent(stmt), currentp \in {pDBL, NULL}
        PROVE  \A n \in live \ {pDBL} : cname'[n] # arg
    <3>1. CASE currentp = NULL
      BY <1>0, <1>2, <2>3, <3>1 DEF WalkOK
    <3>2. CASE currentp = pDBL /\ currentp # NULL
      <4>1. cname[currentp] = arg
        BY <1>0, <2>3, <3>2 DEF WalkOK
      <4> QED BY <2>2, <3>2, <4>1
    <3> QED BY <2>3, <3>1, <3>2
  <2>4. ASSUME IsCurrent(stmt), currentp \notin {pDBL, NULL}
        PROVE  cname'[currentp] = arg
    <3>1. cname[currentp] = arg
      BY <1>0, <2>4 DEF WalkOK
    <3> QED BY <1>2, <2>4, <3>1 DEF NoDangling
  <2>5. /\ stmt' = stmt /\ arg' = arg /\ pc = "walk" /\ pc' = "finish" /\ live' = live
        /\ currentp' = currentp /\ firstp' = firstp /\ next' = next
        /\ pDBL' = pDBL /\ prev' = prev /\ stmt.op = "disconnect" /\ pDBL # NULL
    OBVIOUS
  <2>6. FreesAll' <=> FreesAll
    BY <2>5 DEF FreesAll
  <2>7. WalkOK
    OBVIOUS
  <2> HIDE DEF FreeNames, IInv
  <2> QED BY <1>0, <1>1, <1>3, <2>1, <2>2, <2>3, <2>4, <2>5, <2>6, <2>7 DEF WalkOK, IsCurrent
<1>7. OrderOK' /\ CurrentOK'
  BY <1>0, <1>1 DEF OrderOK, CurrentOK, FreesAll
<1> QED BY <1>2, <1>4, <1>5, <1>6, <1>7

(* PQfinish closes the session of that node and of no other. *)
LEMMA FinishConnOK == ASSUME IInv, FinishConn PROVE IInv'
<1> USE DEF FinishConn, info, shell, IInv
<1>0. Half = {pDBL} /\ Half' = {pDBL} /\ InPieces /\ InPieces'
  BY DEF Half, InPieces
<1>1. pDBL \in live /\ pDBL \in Node
  BY DEF WalkOK, TypeOK
<1>2. TypeOK' /\ \A n \in live \ {pDBL} : ver_no'[n] = ver_no[n]
  BY <1>1 DEF TypeOK
<1>3. ListOK' /\ NoDangling' /\ DistinctNames'
  BY <1>0 DEF ListOK, Linked, NoDangling, DistinctNames
<1>4. WalkOK'
  BY <1>0 DEF WalkOK, FreesAll, IsCurrent
<1>5. OrderOK' /\ CurrentOK'
  BY <1>0, <1>2 DEF OrderOK, CurrentOK, FreesAll
<1> QED BY <1>2, <1>3, <1>4, <1>5

(* The pointers are moved: the list has one node fewer, maxno not yet.      *)
LEMMA MovePointersOK == ASSUME IInv, MovePointers PROVE IInv'
<1>0. /\ pc = "unlink" /\ pc' = "count" /\ Unlink(pDBL)
      /\ UNCHANGED <<extern, cname, ver_no, maxno, shell, stmt, arg, pDBL, prev, sqlcode>>
  BY DEF MovePointers
<1>1. Half = {pDBL} /\ Half' = {pDBL} /\ InPieces /\ InPieces'
  BY <1>0 DEF Half, InPieces
<1>2. /\ pDBL \in live /\ pDBL \in Node /\ prev # NULL
      /\ pDBL # firstp => prev \in live /\ next[prev] = pDBL
      /\ pDBL = firstp => prev = pDBL \/ prev \notin live
      /\ pDBL # NULL
  <2>1. pDBL \in live /\ prev # NULL
    BY <1>0 DEF IInv, WalkOK
  <2>2. pDBL \in Node /\ pDBL # NULL
    BY <2>1 DEF IInv, TypeOK, Node, NULL
  <2>3. /\ pDBL \notin {NULL, firstp} => prev \in live /\ next[prev] = pDBL
        /\ pDBL = firstp => prev = firstp \/ prev \notin live
    BY <1>0 DEF IInv, WalkOK
  <2> QED BY <2>1, <2>2, <2>3
<1>3. TypeOK /\ Linked /\ maxno = Cardinality(live) /\ defaultp \in live \cup {NULL}
  BY <1>2, Counts DEF IInv, NoDangling
<1>4. /\ Linked' /\ live' = live \ {pDBL} /\ defaultp' \in live' \cup {NULL}
      /\ next' \in [Node -> Pointer] /\ firstp' \in Pointer /\ lastp' \in Pointer
      /\ pDBL = firstp => firstp' = next[pDBL]
  BY <1>0, <1>2, <1>3, UnlinkOK
<1>5. maxno = 1 <=> live = {pDBL}
  BY <1>2, <1>3, CountOne
<1>6. currentp' \in live' \cup {NULL} /\ currentp' \in {currentp, NULL}
      /\ (currentp' = NULL <=> currentp \in {pDBL, NULL})
  <2>1. currentp' = CurrentAfter(pDBL) /\ currentp \in live \cup {NULL}
    BY <1>0 DEF Unlink, IInv, NoDangling
  <2> QED BY <1>4, <1>5, <2>1 DEF CurrentAfter
<1>7. TypeOK'
  BY <1>0, <1>4, <1>6 DEF IInv, TypeOK, Pointer, extern, shell, NoDangling
<1>8. ListOK'
  <2>1. live' \cup Half' = live
    BY <1>1, <1>2, <1>4
  <2> QED BY <1>0, <1>3, <1>4, <2>1 DEF ListOK
<1>9. NoDangling' /\ DistinctNames' /\ OrderOK'
  BY <1>0, <1>1, <1>4, <1>6 DEF IInv, NoDangling, DistinctNames, OrderOK, extern
<1>10. WalkOK'
  <2>1. FreesAll => next'[pDBL] = firstp' /\ \A n \in live' : pDBL < n
    <3>1. ASSUME FreesAll PROVE pDBL = firstp /\ (prev = pDBL \/ prev \notin live)
      BY <1>0, <1>2, <3>1 DEF IInv, WalkOK
    <3>2. ASSUME FreesAll PROVE next'[pDBL] = next[pDBL]
      BY <1>0, <1>2, <3>1, <3>2 DEF Unlink, IInv, TypeOK
    <3>3. ASSUME FreesAll, NEW n \in live' PROVE pDBL < n
      BY <1>2, <1>3, <1>4, <3>1, <3>3 DEF Linked, TypeOK, Node
    <3> QED BY <1>4, <3>1, <3>2, <3>3
  <2>2. pDBL \notin live'
    BY <1>4
  <2>3. \A n \in live' \ Half' : n \in live \ Half /\ cname'[n] = cname[n]
    BY <1>0, <1>1, <1>4
  <2>4. IsCurrent(stmt) /\ currentp' # NULL => currentp' = currentp /\ currentp' \notin Half
    BY <1>1, <1>6
  <2>5. IsCurrent(stmt) /\ currentp' = NULL => currentp \in Half \cup {NULL}
    BY <1>1, <1>6
  <2>6. (FreesAll' <=> FreesAll) /\ (IsCurrent(stmt)' <=> IsCurrent(stmt))
    BY <1>0 DEF FreesAll, IsCurrent
  <2>7. stmt' = stmt /\ arg' = arg /\ pDBL' = pDBL /\ cname' = cname
        /\ stmt.op = "disconnect" /\ stmt \in Stmt /\ WalkOK
    BY <1>0, <1>1 DEF IInv, WalkOK
  <2>8. currentp' \notin Half'
    BY <1>1, <1>2, <1>4, <1>6
  <2> QED BY <1>0, <1>1, <1>2, <2>1, <2>2, <2>3, <2>4, <2>5, <2>6, <2>7, <2>8 DEF WalkOK
<1>11. CurrentOK'
  <2>1. \A n \in live' \ Half' : n \in live \ Half
    BY <1>1, <1>4
  <2>2. /\ sessions' = sessions /\ server' = server /\ ver_no' = ver_no
        /\ POSTGRESQL_VERSION' = POSTGRESQL_VERSION
    BY <1>0 DEF extern, shell
  <2>3. live' = live \ Half
    BY <1>1, <1>4
  <2> QED BY <1>0, <1>6, <2>1, <2>2, <2>3 DEF IInv, CurrentOK
<1> QED BY <1>7, <1>8, <1>9, <1>10, <1>11 DEF IInv

(* maxno counts the node that is gone, and it alone, too much. *)
LEMMA CountedOut ==
    ASSUME IInv, pc = "count"
    PROVE  /\ maxno - 1 = Cardinality(live) /\ maxno - 1 \in 0 .. MaxConn
           /\ maxno - 1 = 0 <=> live = {}
           /\ pDBL \notin live /\ pDBL \in Node /\ Half = {pDBL} /\ Linked
<1>1. Half = {pDBL} /\ pDBL \notin live /\ pDBL \in Node
  BY DEF Half, InPieces, IInv, WalkOK, TypeOK, Pointer
<1>2. IsFiniteSet(live) /\ maxno = Cardinality(live \cup {pDBL}) /\ Linked
  BY <1>1, LiveFinite DEF IInv, ListOK
<1>3. Cardinality(live \cup {pDBL}) = Cardinality(live) + 1
  BY <1>1, <1>2, FS_AddElement
<1>4. Cardinality(live) \in Nat
  BY <1>2, FS_CardinalityType
<1>5. Cardinality(live) = 0 <=> live = {}
  BY <1>2, FS_EmptySet
<1> QED BY <1>1, <1>2, <1>3, <1>4, <1>5, ConstAssumption DEF IInv, TypeOK

(* The node that is gone is not linked to, so its next is of no account. *)
LEMMA StillLinked ==
    ASSUME IInv, pc = "count", next' = [next EXCEPT ![pDBL] = NULL],
           UNCHANGED <<live, firstp, lastp>>
    PROVE  Linked' /\ next' \in [Node -> Pointer]
<1>1. pDBL \notin live /\ pDBL \in Node /\ Linked
  BY CountedOut
<1>2. \A n \in live : next'[n] = next[n]
  BY <1>1 DEF IInv, TypeOK
<1>3. Linked'
  BY <1>1, <1>2 DEF Linked
<1>4. next' \in [Node -> Pointer]
  BY DEF IInv, TypeOK, Pointer
<1> QED BY <1>3, <1>4

(* DISCONNECT of one connection: free_PSconnList returns. *)
LEMMA FreeAndReturnOK == ASSUME IInv, FreeAndReturn PROVE IInv'
<1>0. /\ pc = "count" /\ pc' = "return" /\ maxno' = maxno - 1
      /\ next' = [next EXCEPT ![pDBL] = NULL]
      /\ FreesAll => NameIsFreed
      /\ UNCHANGED <<extern, live, cname, ver_no, firstp, lastp, currentp, defaultp, shell,
                     stmt, arg, pDBL, prev, sqlcode>>
  BY DEF FreeAndReturn
<1>1. Half = {pDBL} /\ Half' = {} /\ ~InPieces'
  BY <1>0 DEF Half, InPieces
<1>2. /\ maxno - 1 = Cardinality(live) /\ maxno - 1 \in 0 .. MaxConn
      /\ pDBL \notin live
  BY <1>0, CountedOut
<1>3. Linked' /\ next' \in [Node -> Pointer]
  BY <1>0, StillLinked
<1>4. TypeOK'
  BY <1>0, <1>2, <1>3 DEF IInv, TypeOK, extern, shell
<1>5. ListOK'
  BY <1>0, <1>1, <1>2, <1>3 DEF ListOK
<1>6. NoDangling' /\ DistinctNames' /\ OrderOK'
  BY <1>0, <1>1, <1>2 DEF IInv, NoDangling, DistinctNames, OrderOK, extern
<1>7. WalkOK'
  <2>1. stmt.op = "disconnect" /\ stmt \in Stmt /\ WalkOK
    BY <1>0 DEF IInv, WalkOK, InPieces
  <2>2. live \ Half = live /\ live' \ Half' = live
    BY <1>0, <1>1, <1>2
  <2>3. IsCurrent(stmt) => \A n \in live : cname[n] # arg
    <3>1. CASE FreesAll
      BY <1>0, <1>1, <2>1, <2>2, <3>1 DEF NameIsFreed, WalkOK
    <3>2. CASE ~FreesAll
      BY <1>0, <2>1, <2>2, <3>2 DEF WalkOK
    <3> QED BY <3>1, <3>2
  <2>4. FreesAll => IsCurrent(stmt)
    BY <1>0 DEF NameIsFreed
  <2>5. (FreesAll' <=> FreesAll) /\ (IsCurrent(stmt)' <=> IsCurrent(stmt))
    BY <1>0 DEF FreesAll, IsCurrent
  <2> QED BY <1>0, <1>1, <2>1, <2>2, <2>3, <2>4, <2>5 DEF WalkOK
<1>8. CurrentOK'
  <2>1. /\ sessions' = sessions /\ server' = server /\ ver_no' = ver_no
        /\ POSTGRESQL_VERSION' = POSTGRESQL_VERSION
    BY <1>0 DEF extern, shell
  <2> QED BY <1>0, <1>1, <1>2, <2>1 DEF IInv, CurrentOK
<1> QED BY <1>4, <1>5, <1>6, <1>7, <1>8 DEF IInv

(* DISCONNECT ALL: the node behind the freed one is first, and next to go.  *)
LEMMA FreeAndGoOnOK == ASSUME IInv, FreeAndGoOn PROVE IInv'
<1>0. /\ pc = "count" /\ pc' = "walk" /\ maxno' = maxno - 1 /\ FreesAll
      /\ next' = [next EXCEPT ![pDBL] = NULL]
      /\ prev' = pDBL /\ pDBL' = next[pDBL]
      /\ UNCHANGED <<extern, live, cname, ver_no, firstp, lastp, currentp, defaultp, shell,
                     stmt, arg, sqlcode>>
  BY DEF FreeAndGoOn
<1>1. Half = {pDBL} /\ Half' = {} /\ ~InPieces'
  BY <1>0 DEF Half, InPieces
<1>2. /\ maxno - 1 = Cardinality(live) /\ maxno - 1 \in 0 .. MaxConn
      /\ pDBL \notin live /\ pDBL \in Node
  BY <1>0, CountedOut
<1>3. Linked' /\ next' \in [Node -> Pointer]
  BY <1>0, StillLinked
<1>4. pDBL' = firstp' /\ pDBL' \in live' \cup {NULL} /\ pDBL # NULL
  BY <1>0, <1>3 DEF IInv, WalkOK, Linked, InPieces
<1>5. TypeOK'
  BY <1>0, <1>2, <1>3, <1>4 DEF IInv, TypeOK, extern, shell, Pointer
<1>6. ListOK'
  BY <1>0, <1>1, <1>2, <1>3 DEF ListOK
<1>7. NoDangling' /\ DistinctNames' /\ OrderOK'
  BY <1>0, <1>1, <1>2 DEF IInv, NoDangling, DistinctNames, OrderOK, extern
<1>8. WalkOK'
  <2>1. stmt.op = "disconnect" /\ stmt \in Stmt /\ WalkOK
    BY <1>0 DEF IInv, WalkOK, InPieces
  <2>2. live \ Half = live /\ live' \ Half' = live /\ currentp # pDBL
    BY <1>0, <1>1, <1>2, <1>4 DEF IInv, NoDangling
  <2>3. FreesAll' /\ (IsCurrent(stmt)' <=> IsCurrent(stmt))
    BY <1>0 DEF FreesAll, IsCurrent
  <2> QED BY <1>0, <1>1, <1>2, <1>4, <2>1, <2>2, <2>3 DEF WalkOK
<1>9. CurrentOK'
  <2>1. /\ sessions' = sessions /\ server' = server /\ ver_no' = ver_no
        /\ POSTGRESQL_VERSION' = POSTGRESQL_VERSION /\ FreesAll'
    BY <1>0 DEF extern, shell, FreesAll
  <2> QED BY <1>0, <1>1, <1>2, <2>1 DEF IInv, CurrentOK
<1> QED BY <1>5, <1>6, <1>7, <1>8, <1>9 DEF IInv

(* The first of the remaining connections becomes current. *)
LEMMA FirstIsCurrentOK == ASSUME IInv, FirstIsCurrent PROVE IInv'
<1>0. Half = {} /\ ~InPieces /\ pc = "return" /\ Half' = {} /\ ~InPieces'
      /\ UNCHANGED <<extern, heap, maxno, firstp, lastp, defaultp, shell>>
  BY DEF FirstIsCurrent, Half, InPieces, Finish
<1>1. (maxno = 0 <=> live = {}) /\ maxno \in Nat /\ Linked /\ maxno = Cardinality(live)
  BY <1>0, Counts, ConstAssumption DEF IInv, TypeOK
<1>2. stmt.op = "disconnect" /\ stmt \in Stmt /\ (IsCurrent(stmt) => \A n \in live : cname[n] # arg)
      /\ (~FreesAll => \A n \in live : cname[n] # arg) /\ (FreesAll => IsCurrent(stmt))
  BY <1>0 DEF IInv, WalkOK
<1>3. \/ /\ maxno > 0 /\ currentp' = firstp /\ pc' = "setversion"
         /\ UNCHANGED <<stmt, arg, pDBL, prev, sqlcode>>
      \/ maxno = 0 /\ Finish(SQL_OK) /\ UNCHANGED currentp
  BY DEF FirstIsCurrent
<1>4. maxno > 0 => firstp \in live /\ firstp # NULL
  BY <1>1 DEF Linked, IInv, TypeOK, Node, NULL
<1>5. TypeOK'
  BY <1>0, <1>3, <1>4 DEF IInv, TypeOK, extern, heap, shell, Finish, Pointer, NULL
<1>6. ListOK'
  BY <1>0, <1>1 DEF ListOK, Linked, heap
<1>7. NoDangling' /\ DistinctNames' /\ OrderOK'
  BY <1>0, <1>3, <1>4 DEF IInv, NoDangling, DistinctNames, OrderOK, extern, heap, Finish
<1>8. WalkOK'
  <2>1. CASE pc' = "idle"
    BY <1>0, <2>1 DEF WalkOK
  <2>2. CASE pc' # "idle"
    <3>1. /\ currentp' = firstp /\ pc' = "setversion" /\ stmt' = stmt /\ arg' = arg
          /\ currentp' # NULL /\ live' = live /\ cname' = cname
      BY <1>0, <1>3, <1>4, <2>2 DEF Finish, heap
    <3>2. (FreesAll' <=> FreesAll) /\ (IsCurrent(stmt)' <=> IsCurrent(stmt))
      BY <3>1 DEF FreesAll, IsCurrent
    <3>3. WalkOK
      BY DEF IInv
    <3> QED BY <1>0, <1>2, <3>1, <3>2, <3>3 DEF WalkOK
  <2> QED BY <2>1, <2>2
<1>9. CurrentOK'
  <2>1. currentp' = NULL => live = {}
    BY <1>1, <1>3, <1>4 DEF IInv
  <2>2. /\ sessions' = sessions /\ server' = server /\ ver_no' = ver_no /\ live' = live
        /\ POSTGRESQL_VERSION' = POSTGRESQL_VERSION
    BY <1>0 DEF extern, heap, shell
  <2>3. pc' = "setversion" \/ (pc' = "idle" /\ currentp' = currentp)
    BY <1>3 DEF Finish
  <2> QED BY <1>0, <2>1, <2>2, <2>3 DEF IInv, CurrentOK
<1> QED BY <1>5, <1>6, <1>7, <1>8, <1>9 DEF IInv

(* DISCONNECT ALL ends with the empty list. *)
LEMMA AllFreedOK == ASSUME IInv, AllFreed PROVE IInv'
<1>1. live = {} /\ currentp = NULL
  BY DEF AllFreed, IInv, WalkOK, ListOK, Linked, NoDangling, TypeOK, Node, NULL
<1> USE DEF AllFreed, Finish, extern, heap, info, IInv
<1>0. Half = {} /\ Half' = {} /\ ~InPieces /\ ~InPieces'
  BY DEF Half, InPieces
<1>2. TypeOK'
  BY DEF TypeOK, Pointer, Node, NULL
<1>3. ListOK' /\ NoDangling' /\ DistinctNames'
  BY <1>0 DEF ListOK, Linked, NoDangling, DistinctNames
<1>4. WalkOK' /\ OrderOK' /\ CurrentOK'
  BY <1>0, <1>1 DEF WalkOK, OrderOK, CurrentOK
<1> QED BY <1>2, <1>3, <1>4

(* Control-C leaves the list as the last call left it. *)
LEMMA InterruptOK == ASSUME IInv, Interrupt PROVE IInv'
BY EndUntouched DEF Interrupt

(* Also with a node in pieces. *)
LEMMA TearOK == ASSUME IInv, Tear PROVE IInv'
<1> USE DEF Tear, extern, heap, info, shell, IInv
<1>0. InPieces /\ InPieces' /\ Half' = Half /\ pc' = "torn" /\ Interactive
  BY DEF Half, InPieces
<1>1. TypeOK' /\ ListOK' /\ NoDangling' /\ DistinctNames' /\ OrderOK'
  BY <1>0 DEF TypeOK, ListOK, Linked, NoDangling, DistinctNames, OrderOK
<1>2. WalkOK'
  BY <1>0 DEF WalkOK, IsCurrent, FreesAll, InPieces
<1>3. CurrentOK'
  BY <1>0 DEF CurrentOK
<1> QED BY <1>1, <1>2, <1>3

(* Every step preserves IInv. *)
LEMMA StepIInv == IInv /\ [Next]_vars => IInv'
<1> SUFFICES ASSUME IInv, [Next]_vars PROVE IInv'
  OBVIOUS
<1>1. CASE \E s \in Stmt : Refuse(s) \/ Start(s)
  BY <1>1, RefuseOK, StartOK
<1>2. CASE Step
  BY <1>2, WalkStepOK, NameUsedOK, NameFreeOK, ConnectFailsOK, ConnectReturnsOK,
     VersionReturnsOK, BindNewVersionOK, ConnectedOK, SetCurrentOK, NameNotFoundOK,
     FreeNamesOK, FinishConnOK, MovePointersOK, FreeAndReturnOK, FreeAndGoOnOK,
     FirstIsCurrentOK, SetVersionOK, AllFreedOK DEF Step
<1>3. CASE Interrupt \/ Tear
  BY <1>3, InterruptOK, TearOK
<1>4. CASE UNCHANGED vars
  <2> USE <1>4 DEF vars, extern, heap, info, walk, shell, IInv
  <2>0. Half' = Half /\ (InPieces' <=> InPieces)
    BY DEF Half, InPieces
  <2>1. TypeOK' /\ ListOK' /\ NoDangling' /\ DistinctNames' /\ OrderOK'
    BY <2>0 DEF TypeOK, ListOK, Linked, NoDangling, DistinctNames, OrderOK
  <2>2. WalkOK' /\ CurrentOK'
    BY <2>0 DEF WalkOK, CurrentOK, FreesAll, IsCurrent
  <2> QED BY <2>1, <2>2
<1> QED BY <1>1, <1>2, <1>3, <1>4 DEF Next

(* In every reachable state the list, the walk and the current connection   *)
(* are as IInv says, for any names, and with a SIGINT between any two calls *)
(* of the walk, also where it leaves a node in pieces.                      *)
THEOREM Invariance == Spec => []IInv
<1>1. Init => IInv
  BY InitIInv
<1>2. IInv /\ [Next]_vars => IInv'
  BY StepIInv
<1> QED BY <1>1, <1>2, PTL DEF Spec

(* Every variable of the list keeps its type: no pointer is ever one past   *)
(* the nodes, and maxno stays a count.                                      *)
THEOREM ListTypes == Spec => []TypeOK
<1>1. IInv => TypeOK
  BY DEF IInv
<1> QED BY <1>1, Invariance, PTL

(* The allocated nodes are exactly the list from firstp to lastp, in order  *)
(* of connection, and maxno counts them, between any two calls of a         *)
(* DISCONNECT ALL too.                                                      *)
THEOREM ListIsWellFormed == Spec => []ListOK
<1>1. IInv => ListOK
  BY DEF IInv
<1> QED BY <1>1, Invariance, PTL

(* Neither currentp nor defaultp points to a freed node, and only the node  *)
(* that a DISCONNECT has in pieces is listed without its names or PGconn.   *)
THEOREM NothingDangles == Spec => []NoDangling
<1>1. IInv => NoDangling
  BY DEF IInv
<1> QED BY <1>1, Invariance, PTL

(* No two open connections carry the same connect name. *)
THEOREM NamesAreDistinct == Spec => []DistinctNames
<1>1. IInv => DistinctNames
  BY DEF IInv
<1> QED BY <1>1, Invariance, PTL

(* In a shell script some connection is current between statements whenever *)
(* one is open, and every session at a server is in the list.               *)
THEOREM CurrentWhenever == ASSUME ~Interactive PROVE Spec => []CurrentExists
<1>1. IInv => CurrentExists
  BY DEF IInv, CurrentOK, CurrentExists, NoDangling
<1> QED BY <1>1, Invariance, PTL

(* In a shell script whose servers answer the version query,                *)
(* POSTGRESQL_VERSION is the version of the current connection's server     *)
(* after every statement.                                                   *)
THEOREM VersionFollows ==
    ASSUME ~Interactive, ~Fallible
    PROVE  Spec => []VersionOfCurrent
<1>1. IInv => VersionOfCurrent
  BY DEF IInv, CurrentOK, VersionOfCurrent
<1> QED BY <1>1, Invariance, PTL
=============================================================================
