-------------------------- MODULE ConnListRefines --------------------------
(* What the statements of ConnList achieve, in a shell script: a statement  *)
(* that ends with SQLCODE 0 has done what it says, and, when no connection  *)
(* is named _ALL_, the list implements the abstract set of ConnSpec.        *)
EXTENDS ConnListProofs

(* The CASE of Achieved, one statement at a time. *)
LEMMA AchievedCases ==
    ASSUME NEW s
    PROVE  /\ s.op = "connect" =>
                (Achieved(s) <=> currentp' \in live' /\ cname'[currentp'] = ConnectName(s))
           /\ s.op = "set" =>
                (Achieved(s) <=> currentp' \in live' /\ cname'[currentp'] = SetName(s))
           /\ s.op = "disconnect" =>
                (Achieved(s) <=> /\ \A n \in live' : cname'[n] # arg
                                 /\ DisconnectName(s) = ALL_VALUE => live' = {})
BY DEF Achieved

(* CONNECT that ends well made its name current. *)
LEMMA ConnectAchieves == ASSUME IInv, Connected PROVE Achieved(stmt)
<1>1. alloc \in Node /\ stmt.op = "connect" /\ arg = ConnectName(stmt)
  BY DEF Connected, IInv, WalkOK, OrderOK, TypeOK
<1>2. currentp' = alloc /\ alloc \in live' /\ cname'[alloc] = arg
  BY <1>1 DEF Connected, BindPSconnList, IInv, TypeOK
<1> QED BY <1>1, <1>2, AchievedCases

(* No name is DISCONNECT ALL's when the statement names one connection. *)
LEMMA NotAll ==
    ASSUME IInv, pc # "idle", stmt.op = "disconnect", FreesAll => IsCurrent(stmt)
    PROVE  DisconnectName(stmt) # ALL_VALUE
<1>1. CASE IsCurrent(stmt)
  BY <1>1 DEF IsCurrent, CURRENT_VALUE, ALL_VALUE
<1>2. CASE ~IsCurrent(stmt)
  BY <1>2 DEF IInv, WalkOK, FreesAll
<1> QED BY <1>1, <1>2

(* SET CONNECTION that ends well made its name current; DISCONNECT left no  *)
(* connection of that name.                                                 *)
LEMMA SetAchieves == ASSUME IInv, SetVersion PROVE Achieved(stmt)
<1>1. /\ pc = "setversion" /\ currentp' = currentp /\ live' = live /\ cname' = cname
      /\ currentp \in live /\ Half = {}
      /\ stmt.op \in {"set", "disconnect"}
  BY DEF SetVersion, info, heap, IInv, WalkOK, NoDangling, Half, InPieces
<1>2. CASE stmt.op = "set"
  BY <1>1, <1>2, AchievedCases DEF IInv, WalkOK
<1>3. CASE stmt.op = "disconnect"
  <2>1. (FreesAll => IsCurrent(stmt)) /\ \A n \in live : cname[n] # arg
    BY <1>1, <1>3 DEF IInv, WalkOK
  <2> QED BY <1>1, <1>3, <2>1, NotAll, AchievedCases
<1> QED BY <1>1, <1>2, <1>3

(* So did a DISCONNECT of the last one. *)
LEMMA DisconnectAchieves ==
    ASSUME IInv, FirstIsCurrent, pc' = "idle"
    PROVE  Achieved(stmt)
<1>1. /\ pc = "return" /\ live' = live /\ cname' = cname /\ Half = {}
      /\ stmt.op = "disconnect" /\ (FreesAll => IsCurrent(stmt))
  BY DEF FirstIsCurrent, heap, IInv, WalkOK, Half, InPieces
<1>2. \A n \in live : cname[n] # arg
  BY <1>1 DEF IInv, WalkOK
<1> QED BY <1>1, <1>2, NotAll, AchievedCases

(* DISCONNECT ALL that ends well left no connection. *)
LEMMA AllAchieves == ASSUME IInv, AllFreed PROVE Achieved(stmt)
<1>1. stmt.op = "disconnect" /\ live = {} /\ live' = {}
  BY DEF AllFreed, FreesAll, IInv, WalkOK, ListOK, Linked, TypeOK, Node, NULL, heap
<1> QED BY <1>1, AchievedCases

(* In a shell script a connection statement that ends with SQLCODE 0 has    *)
(* achieved what it says, for all names, _ALL_ and _CURRENT_ included.      *)
THEOREM SuccessIsAchieved == ASSUME ~Interactive PROVE Spec => SuccessMeansDone
<1>1. ASSUME IInv, [Next]_vars
      PROVE  [pc # "idle" /\ pc' = "idle" /\ sqlcode' = SQL_OK => Achieved(stmt)]_vars
  <2> SUFFICES ASSUME Next, pc # "idle", pc' = "idle", sqlcode' = SQL_OK
               PROVE  Achieved(stmt)
    BY <1>1
  <2>1. ~Interrupt /\ ~Tear /\ \A s \in Stmt : ~Refuse(s) /\ ~Start(s)
    BY DEF Interrupt, Tear, Refuse, Start
  <2>2. /\ ~Walk /\ ~NameFree /\ ~SetCurrent /\ ~BindNewVersion
        /\ \A v \in Versions : ~ConnectReturns(v)
        /\ \A answered : ~VersionReturns(answered)
    BY DEF Walk, NameFree, SetCurrent, BindNewVersion, ConnectReturns, VersionReturns
  <2>3. ~FreeNames /\ ~FinishConn /\ ~MovePointers /\ ~FreeAndReturn /\ ~FreeAndGoOn
    BY DEF FreeNames, FinishConn, MovePointers, FreeAndReturn, FreeAndGoOn
  <2>4. ~NameUsed /\ ~ConnectFails /\ ~NameNotFound
    BY DEF NameUsed, ConnectFails, NameNotFound, Finish, SQL_OK, SQL_NAME_ALREADY_USE,
           SQL_CONNECTION_BAD, SQL_NAME_NOT_FOUND
  <2> QED BY <1>1, <2>1, <2>2, <2>3, <2>4, ConnectAchieves, SetAchieves,
             DisconnectAchieves, AllAchieves DEF Next, Step
<1>2. IInv /\ [Next]_vars
        => [pc # "idle" /\ pc' = "idle" /\ sqlcode' = SQL_OK => Achieved(stmt)]_vars
  BY <1>1
<1> QED BY <1>2, Invariance, PTL DEF Spec, SuccessMeansDone

-----------------------------------------------------------------------------
(* Without a connection named _ALL_ the walk of free_PSconnList frees more  *)
(* than one node only for DISCONNECT ALL.                                   *)
LEMMA OnlyAllFreesAll ==
    ASSUME IInv, ALL_VALUE \notin Names, pc # "idle", FreesAll
    PROVE  ~IsCurrent(stmt)
<1>1. ALL_VALUE \notin ConnName
  BY DEF ConnName, Target, ALL_VALUE, DEFAULT_VALUE
<1> QED BY <1>1 DEF IInv, WalkOK, FreesAll

(* Outside an iteration that frees a node all nodes have names. *)
LEMMA NamedIsLive == ASSUME IInv, ~InPieces PROVE Named = live
BY DEF IInv, NoDangling, Half, Named

(* With a node in pieces all others have. *)
LEMMA NamedButOne ==
    ASSUME IInv, pc \in {"finish", "unlink"}
    PROVE  Named = live \ {pDBL} /\ pDBL \in live
BY DEF IInv, NoDangling, WalkOK, Half, InPieces, Named

LEMMA NamedAfterwards == ASSUME IInv, pc = "count" PROVE Named = live /\ pDBL \notin live
BY DEF IInv, NoDangling, WalkOK, Half, InPieces, Named

(* CONNECT adds a number and a name that no connection has. *)
LEMMA ConnectAdds ==
    ASSUME IInv, Connected
    PROVE  /\ alloc \in Node /\ arg \in ConnName
           /\ \A n \in live : n < alloc /\ cname[n] # arg
           /\ Named = live /\ Named' = live \cup {alloc} /\ currentp' = alloc
           /\ cname' = [cname EXCEPT ![alloc] = arg]
<1>1. arg = ConnectName(stmt) /\ stmt \in ConnectStmt
  BY StmtCases DEF IInv, WalkOK, Connected
<1>2. \A n \in live : n < alloc /\ cname[n] # arg
  BY DEF IInv, TypeOK, OrderOK, WalkOK, Connected, Node
<1>3. alloc \in Node
  BY DEF IInv, TypeOK, OrderOK, Connected
<1>4. arg \in ConnName /\ arg # NoName
  BY <1>1, ConnectNameType
<1>5. Named = live
  BY NamedIsLive DEF Connected, InPieces
<1>6. live' = live \cup {alloc} /\ cname' = [cname EXCEPT ![alloc] = arg] /\ currentp' = alloc
  BY DEF Connected, BindPSconnList
<1>7. Named' = live \cup {alloc}
  BY <1>2, <1>3, <1>4, <1>5, <1>6 DEF Named, IInv, TypeOK
<1> QED BY <1>2, <1>3, <1>4, <1>5, <1>6, <1>7

(* free_PSconnList takes one name away. *)
LEMMA NameGoes ==
    ASSUME IInv, FreeNames
    PROVE  /\ pDBL \in live /\ Named = live /\ Named' = live \ {pDBL}
           /\ \A n \in live \ {pDBL} : cname'[n] = cname[n]
<1>1. pDBL \in live /\ Named = live
  BY NamedIsLive DEF FreeNames, InPieces, IInv, WalkOK
<1>2. cname' = [cname EXCEPT ![pDBL] = NoName] /\ live' = live
  BY DEF FreeNames
<1>3. Named' = live \ {pDBL} /\ \A n \in live \ {pDBL} : cname'[n] = cname[n]
  BY <1>1, <1>2 DEF Named, IInv, TypeOK
<1> QED BY <1>1, <1>3

(* Moving the pointers changes no name; firstp becomes what it was to be.   *)
LEMMA PointersMove ==
    ASSUME IInv, MovePointers
    PROVE  /\ Named' = Named /\ cname' = cname
           /\ currentp \in Named => currentp' = currentp
           /\ currentp \notin Named => currentp' = NULL
           /\ pDBL = firstp => firstp' = next[pDBL]
           /\ pDBL # firstp => firstp' = firstp
<1>1. /\ pc = "unlink" /\ Unlink(pDBL) /\ cname' = cname /\ live' = live \ {pDBL}
      /\ currentp' = CurrentAfter(pDBL)
  BY DEF MovePointers, Unlink
<1>2. /\ Named = live \ {pDBL} /\ pDBL \in live
  BY <1>1, NamedButOne
<1>3. Named' = Named
  BY <1>1, <1>2 DEF Named
<1>4. TypeOK /\ Linked /\ maxno = Cardinality(live)
  BY <1>2, Counts DEF IInv
<1>5. maxno = 1 <=> live = {pDBL}
  BY <1>2, <1>4, CountOne
<1>6. currentp \in live \cup {NULL} /\ NULL \notin live
  BY DEF IInv, NoDangling, TypeOK, Node, NULL
<1>7. /\ currentp \in Named => currentp' = currentp
      /\ currentp \notin Named => currentp' = NULL
  BY <1>1, <1>2, <1>5, <1>6 DEF CurrentAfter
<1>8. /\ pDBL = firstp => firstp' = next[pDBL]
      /\ pDBL # firstp => firstp' = firstp
  <2>1. firstp \in live /\ lastp \in live
    BY <1>2, <1>4 DEF Linked
  <2>2. CASE maxno = 1
    <3>1. firstp = pDBL /\ lastp = pDBL /\ firstp' = NULL /\ next[pDBL] = NULL
      BY <1>1, <1>4, <1>5, <2>1, <2>2 DEF Unlink, Linked
    <3> QED BY <3>1
  <2>3. CASE maxno # 1
    BY <1>1, <2>3 DEF Unlink
  <2> QED BY <2>2, <2>3
<1> QED BY <1>1, <1>3, <1>7, <1>8

(* The oldest of a set of connections is the smallest number. *)
LEMMA OldestIs ==
    ASSUME NEW S, S \subseteq Int, NEW c \in S, \A d \in S : c <= d
    PROVE  CS!Oldest(S) = c
<1>1. \A d \in S : (\A e \in S : d <= e) => d = c
  OBVIOUS
<1> QED BY <1>1 DEF CS!Oldest

(* The first of the list is the oldest of its connections. *)
LEMMA FirstIsOldest == ASSUME IInv PROVE CS!Oldest(live) = firstp
<1>1. live \subseteq Int /\ Linked
  BY DEF IInv, ListOK, TypeOK, Node
<1>2. CASE live = {}
  BY <1>1, <1>2 DEF CS!Oldest, Linked, NULL
<1>3. CASE live # {}
  BY <1>1, <1>3, OldestIs DEF Linked
<1> QED BY <1>2, <1>3

(* A step that keeps what the abstract state is made of is a stutter, and   *)
(* so is one that keeps the names while no connection is being freed.       *)
LEMMA Stutters ==
    ASSUME AbsOpen' = AbsOpen, AbsName' = AbsName, AbsCurrent' = AbsCurrent
    PROVE  UNCHANGED CS!specVars
BY DEF CS!specVars

LEMMA StuttersOutside ==
    ASSUME Named' = Named, cname' = cname, currentp' = currentp,
           ~FreeingOne, ~FreeingOne', FreeingAll' <=> FreeingAll
    PROVE  UNCHANGED CS!specVars
<1>1. AbsOpen' = AbsOpen /\ AbsCurrent' = AbsCurrent
  BY DEF AbsOpen, AbsCurrent
<1>2. AbsName' = AbsName
  BY <1>1 DEF AbsName
<1> QED BY <1>1, <1>2, Stutters

(* DISCONNECT ALL has closed all connections once its walk has begun. *)
LEMMA StuttersFreeing ==
    ASSUME AbsOpen = {}, AbsOpen' = {}, AbsCurrent' = AbsCurrent
    PROVE  UNCHANGED CS!specVars
<1>1. AbsName' = AbsName
  BY DEF AbsName
<1> QED BY <1>1, Stutters

(* While one connection is being freed nothing else happens. *)
LEMMA StuttersClosing ==
    ASSUME Named' = Named, cname' = cname, pDBL' = pDBL, arg' = arg,
           FreeingOne, FreeingOne', ~FreeingAll, ~FreeingAll', AbsCurrent' = AbsCurrent
    PROVE  UNCHANGED CS!specVars
<1>1. AbsOpen' = AbsOpen
  BY DEF AbsOpen
<1>2. AbsName' = AbsName
  BY <1>1 DEF AbsName
<1> QED BY <1>1, <1>2, Stutters

(* The empty list is the empty set of connections. *)
LEMMA InitRefines == Init => CS!SpecInit
<1> SUFFICES ASSUME Init PROVE CS!SpecInit
  OBVIOUS
<1>1. AbsOpen = {} /\ AbsCurrent = 0
  BY DEF Init, AbsOpen, AbsCurrent, Named, FreeingAll, FreeingOne, NULL
<1>2. AbsName = [c \in {} |-> 0]
  BY <1>1 DEF AbsName
<1> QED BY <1>1, <1>2 DEF CS!SpecInit

(* Each step of the list is a step of the abstract connections or a stutter.*)
LEMMA StepRefines ==
    ASSUME IInv, IInv', [Next]_vars, ~Interactive, ALL_VALUE \notin Names
    PROVE  [CS!SpecNext]_(CS!specVars)
<1> SUFFICES ASSUME Next PROVE [CS!SpecNext]_(CS!specVars)
  <2>1. CASE UNCHANGED vars
    <3>1. AbsOpen' = AbsOpen /\ AbsName' = AbsName /\ AbsCurrent' = AbsCurrent
      BY <2>1 DEF vars, walk, info, heap, AbsOpen, AbsName, AbsCurrent, FreeingAll,
         FreeingOne, FreesAll, Named
    <3> QED BY <3>1, Stutters
  <2> QED BY <2>1
<1>1. CASE \E s \in Stmt : Refuse(s)
  BY <1>1, StuttersOutside DEF Refuse, Finish, heap, info, Named, FreeingOne, FreeingAll
<1>2. ASSUME NEW s \in Stmt, Start(s) PROVE [CS!SpecNext]_(CS!specVars)
  <2>1. /\ ~FreeingOne /\ ~FreeingAll /\ ~FreeingOne' /\ (FreeingAll' <=> FreesAll')
        /\ Named' = Named /\ cname' = cname /\ currentp' = currentp
    BY <1>2 DEF Start, heap, info, Named, FreeingOne, FreeingAll
  <2>2. CASE FreesAll'
    <3>1. AbsOpen' = {} /\ AbsCurrent' = NULL
      BY <2>1, <2>2 DEF AbsOpen, AbsCurrent
    <3>2. AbsName' = [c \in {} |-> 0]
      BY <3>1 DEF AbsName
    <3> QED BY <3>1, <3>2 DEF CS!SpecNext, CS!DisconnectAll, NULL
  <2>3. CASE ~FreesAll'
    BY <2>1, <2>3, StuttersOutside
  <2> QED BY <2>2, <2>3
<1>3. CASE Walk \/ NameFree \/ \E v \in Versions : ConnectReturns(v)
  <2>1. /\ ~FreeingOne /\ ~FreeingOne' /\ (FreeingAll' <=> FreeingAll)
        /\ Named' = Named /\ cname' = cname /\ currentp' = currentp
    BY <1>3 DEF Walk, NameFree, ConnectReturns, FreesAll, FreeingOne, FreeingAll, heap, info,
       Named
  <2> QED BY <2>1, StuttersOutside
<1>4. CASE NameUsed \/ ConnectFails \/ NameNotFound
  <2>1. /\ ~FreeingOne /\ ~FreeingOne' /\ ~FreeingAll /\ ~FreeingAll'
        /\ Named' = Named /\ cname' = cname /\ currentp' = currentp
    BY <1>4 DEF NameUsed, ConnectFails, NameNotFound, Finish, FreesAll, FreeingOne, FreeingAll,
       heap, info, Named
  <2> QED BY <2>1, StuttersOutside
<1>5. CASE BindNewVersion \/ SetVersion \/ \E answered \in {TRUE, ~Fallible} : VersionReturns(answered)
  <2>1. /\ ~FreeingOne /\ ~FreeingOne' /\ ~FreeingAll /\ ~FreeingAll'
        /\ Named' = Named /\ cname' = cname /\ currentp' = currentp
    BY <1>5 DEF BindNewVersion, SetVersion, VersionReturns, Finish, FreeingOne, FreeingAll,
       heap, info, Named
  <2> QED BY <2>1, StuttersOutside
<1>6. CASE Connected
  <2>1. /\ alloc \in Node /\ arg \in ConnName
        /\ \A n \in live : n < alloc /\ cname[n] # arg
        /\ Named = live /\ Named' = live \cup {alloc} /\ currentp' = alloc
        /\ cname' = [cname EXCEPT ![alloc] = arg]
    BY <1>6, ConnectAdds
  <2>2. ~FreeingOne /\ ~FreeingOne' /\ ~FreeingAll /\ ~FreeingAll'
    BY <1>6 DEF Connected, Finish, FreeingOne, FreeingAll
  <2>3. AbsOpen = live /\ AbsOpen' = live \cup {alloc} /\ AbsCurrent' = alloc
    BY <2>1, <2>2 DEF AbsOpen, AbsCurrent
  <2>4. AbsName = [d \in live |-> cname[d]] /\ AbsName' = [d \in live \cup {alloc} |-> cname'[d]]
    BY <2>2, <2>3 DEF AbsName
  <2>5. AbsName' = [d \in live \cup {alloc} |-> IF d = alloc THEN arg ELSE AbsName[d]]
    BY <2>1, <2>4 DEF IInv, TypeOK
  <2>6. \A d \in AbsOpen : d < alloc /\ AbsName[d] # arg
    BY <2>1, <2>3, <2>4
  <2>7. \E c \in Node, nm \in ConnName : CS!Connect(c, nm)
    BY <2>1, <2>3, <2>5, <2>6 DEF CS!Connect
  <2> QED BY <2>7 DEF CS!SpecNext
<1>7. CASE SetCurrent
  <2>1. pDBL \in live /\ Named = live /\ Named' = live /\ cname' = cname /\ currentp' = pDBL
    BY <1>7, NamedIsLive DEF SetCurrent, heap, IInv, WalkOK, InPieces, Named
  <2>2. ~FreeingOne /\ ~FreeingOne' /\ ~FreeingAll /\ ~FreeingAll'
    BY <1>7, StmtCases DEF SetCurrent, FreesAll, FreeingOne, FreeingAll
  <2>3. AbsOpen = live /\ AbsOpen' = live /\ AbsCurrent' = pDBL
    BY <2>1, <2>2 DEF AbsOpen, AbsCurrent
  <2>4. AbsName' = AbsName
    BY <2>1, <2>2, <2>3 DEF AbsName
  <2>5. CS!SetConnection(pDBL)
    BY <2>1, <2>3, <2>4 DEF CS!SetConnection
  <2> QED BY <2>1, <2>3, <2>5 DEF CS!SpecNext
<1>8. CASE FreeNames
  <2>1. /\ pDBL \in live /\ Named = live /\ Named' = live \ {pDBL}
        /\ \A n \in live \ {pDBL} : cname'[n] = cname[n]
    BY <1>8, NameGoes
  <2>2. /\ pc = "walk" /\ pc' = "finish" /\ (FreesAll' <=> FreesAll) /\ Matches
        /\ pDBL' = pDBL /\ arg' = arg /\ currentp' = currentp
    BY <1>8 DEF FreeNames, FreesAll, info
  <2>3. CASE FreesAll
    <3>1. AbsOpen = {} /\ AbsOpen' = {} /\ AbsCurrent' = AbsCurrent
      BY <2>2, <2>3 DEF AbsOpen, AbsCurrent, FreeingAll
    <3> QED BY <3>1, StuttersFreeing
  <2>4. CASE ~FreesAll
    <3>1. ~FreeingAll /\ ~FreeingAll' /\ ~FreeingOne /\ FreeingOne'
      BY <2>2, <2>4 DEF FreeingAll, FreeingOne
    <3>2. AbsOpen = live /\ AbsOpen' = live
      BY <2>1, <2>2, <3>1 DEF AbsOpen
    <3>3. currentp # NULL
      BY <2>1, <2>2, <2>4 DEF IInv, CurrentOK
    <3>4. AbsCurrent' = AbsCurrent
      BY <2>2, <3>1, <3>3 DEF AbsCurrent
    <3>5. cname[pDBL] = arg
      BY <2>2, <2>4 DEF Matches
    <3>6. AbsName' = AbsName
      BY <2>1, <2>2, <3>1, <3>2, <3>5 DEF AbsName
    <3> QED BY <3>2, <3>4, <3>6, Stutters
  <2> QED BY <2>3, <2>4
<1>9. CASE FinishConn
  <2>1. /\ pc = "finish" /\ pc' = "unlink" /\ (FreesAll' <=> FreesAll)
        /\ Named' = Named /\ cname' = cname /\ currentp' = currentp /\ pDBL' = pDBL /\ arg' = arg
    BY <1>9 DEF FinishConn, FreesAll, Named, info
  <2>2. CASE FreesAll
    <3>1. AbsOpen = {} /\ AbsOpen' = {} /\ AbsCurrent' = AbsCurrent
      BY <2>1, <2>2 DEF AbsOpen, AbsCurrent, FreeingAll
    <3> QED BY <3>1, StuttersFreeing
  <2>3. CASE ~FreesAll
    <3>1. ~FreeingAll /\ ~FreeingAll' /\ FreeingOne /\ FreeingOne'
      BY <2>1, <2>3 DEF FreeingAll, FreeingOne
    <3>2. AbsCurrent' = AbsCurrent
      BY <2>1, <3>1 DEF AbsCurrent
    <3> QED BY <2>1, <3>1, <3>2, StuttersClosing
  <2> QED BY <2>2, <2>3
<1>10. CASE MovePointers
  <2>1. /\ pc = "unlink" /\ pc' = "count" /\ (FreesAll' <=> FreesAll) /\ pDBL' = pDBL
        /\ arg' = arg /\ cname' = cname
    BY <1>10 DEF MovePointers, FreesAll
  <2>2. /\ Named' = Named
        /\ currentp \in Named => currentp' = currentp
        /\ currentp \notin Named => currentp' = NULL
    BY <1>10, PointersMove
  <2>3. CASE FreesAll
    <3>1. AbsOpen = {} /\ AbsOpen' = {} /\ AbsCurrent' = AbsCurrent
      BY <2>1, <2>3 DEF AbsOpen, AbsCurrent, FreeingAll
    <3> QED BY <3>1, StuttersFreeing
  <2>4. CASE ~FreesAll
    <3>1. ~FreeingAll /\ ~FreeingAll' /\ FreeingOne /\ FreeingOne'
      BY <2>1, <2>4 DEF FreeingAll, FreeingOne
    <3>2. Named = live \ {pDBL} /\ currentp \in live \cup {NULL} /\ NULL \notin live
      <4>1. Named = live \ {pDBL}
        BY <2>1, NamedButOne
      <4>2. currentp \in live \cup {NULL} /\ NULL \notin live
        BY DEF IInv, NoDangling, TypeOK, Node, NULL
      <4> QED BY <4>1, <4>2
    <3>3. AbsCurrent' = AbsCurrent
      BY <2>1, <2>2, <3>1, <3>2 DEF AbsCurrent
    <3> QED BY <2>1, <2>2, <3>1, <3>3, StuttersClosing
  <2> QED BY <2>3, <2>4
<1>11. CASE FreeAndReturn
  <2>1. /\ pc = "count" /\ pc' = "return" /\ (FreesAll' <=> FreesAll)
        /\ Named' = Named /\ cname' = cname /\ currentp' = currentp /\ pDBL' = pDBL /\ arg' = arg
    BY <1>11 DEF FreeAndReturn, FreesAll, Named
  <2>2. ~FreesAll
    BY <1>11, <2>1, OnlyAllFreesAll DEF FreeAndReturn, NameIsFreed
  <2>3. ~FreeingAll /\ ~FreeingAll' /\ FreeingOne /\ FreeingOne'
    BY <2>1, <2>2 DEF FreeingAll, FreeingOne
  <2>4. AbsCurrent' = AbsCurrent
    BY <2>1, <2>3 DEF AbsCurrent
  <2> QED BY <2>1, <2>3, <2>4, StuttersClosing
<1>12. CASE FreeAndGoOn
  <2>1. AbsOpen = {} /\ AbsOpen' = {} /\ AbsCurrent = NULL /\ AbsCurrent' = NULL
    BY <1>12 DEF FreeAndGoOn, FreesAll, AbsOpen, AbsCurrent, FreeingAll
  <2> QED BY <2>1, StuttersFreeing
<1>13. CASE FirstIsCurrent
  <2>1. /\ pc = "return" /\ Named = live /\ Named' = live /\ cname' = cname /\ live' = live
        /\ pDBL \notin live
    BY <1>13, NamedIsLive DEF FirstIsCurrent, heap, Named, InPieces, IInv, WalkOK
  <2>2. ~FreesAll
    BY <2>1, OnlyAllFreesAll DEF IInv, WalkOK
  <2>3. pc' \in {"setversion", "idle"} /\ currentp' = firstp
    <3>1. CASE maxno > 0 /\ currentp' = firstp /\ pc' = "setversion"
      BY <3>1
    <3>2. CASE maxno = 0 /\ Finish(SQL_OK) /\ UNCHANGED currentp
      <4>1. live = {}
        BY <2>1, <3>2, Counts DEF IInv, InPieces
      <4> QED BY <3>2, <4>1 DEF IInv, ListOK, Linked, NoDangling, Finish
    <3> QED BY <1>13, <3>1, <3>2 DEF FirstIsCurrent
  <2>4. ~FreeingAll /\ ~FreeingAll' /\ FreeingOne /\ ~FreeingOne'
    BY <2>1, <2>2, <2>3 DEF FreeingAll, FreeingOne
  <2>5. AbsOpen = live \cup {pDBL} /\ AbsOpen' = live /\ AbsCurrent' = CS!Oldest(live)
    BY <2>1, <2>3, <2>4, FirstIsOldest DEF AbsOpen, AbsCurrent
  <2>6. AbsName' = [n \in live |-> AbsName[n]]
    BY <2>1, <2>4, <2>5 DEF AbsName
  <2>7. AbsOpen \ {pDBL} = live
    BY <2>1, <2>5
  <2>8. CS!Disconnect(pDBL)
    BY <2>5, <2>6, <2>7 DEF CS!Disconnect
  <2> QED BY <2>5, <2>8 DEF CS!SpecNext
<1>14. CASE AllFreed
  <2>1. live = {} /\ currentp = NULL
    <3>1. pDBL = NULL /\ pDBL = firstp
      BY <1>14 DEF AllFreed, IInv, WalkOK
    <3>2. live = {}
      BY <3>1 DEF IInv, ListOK, Linked, TypeOK, Node, NULL
    <3> QED BY <3>2 DEF IInv, NoDangling
  <2>2. live' = live /\ currentp' = currentp /\ pc' = "idle" /\ pc = "walk" /\ FreesAll
    BY <1>14 DEF AllFreed, Finish, heap, info
  <2>3. AbsOpen = {} /\ AbsOpen' = {} /\ AbsCurrent = NULL /\ AbsCurrent' = NULL
    BY <2>1, <2>2 DEF Named, AbsOpen, AbsCurrent, FreeingAll, FreeingOne
  <2> QED BY <2>3, StuttersFreeing
<1>15. ~Interrupt /\ ~Tear
  BY DEF Interrupt, Tear
<1> QED BY <1>1, <1>2, <1>3, <1>4, <1>5, <1>6, <1>7, <1>8, <1>9, <1>10, <1>11, <1>12, <1>13,
           <1>14, <1>15 DEF Next, Step

(* The linked list of sql_connect.c implements the set of connections of    *)
(* ConnSpec: statement by statement it opens, closes and selects what the   *)
(* abstract CONNECT, DISCONNECT and SET CONNECTION do.                      *)
THEOREM Implementation ==
    ASSUME ~Interactive, ALL_VALUE \notin Names
    PROVE  Spec => ImplementsConnSpec
<1>1. IInv /\ IInv' /\ [Next]_vars => [CS!SpecNext]_(CS!specVars)
  BY StepRefines
<1> QED BY <1>1, InitRefines, Invariance, PTL DEF Spec, ImplementsConnSpec, CS!SpecSpec

-----------------------------------------------------------------------------
StepName == [n \in Named |-> cname[n]]
StepCurrent == IF currentp \in Named THEN currentp ELSE NULL

(* A step that keeps the names and the current one is a stutter. *)
LEMMA StepStutters ==
    ASSUME Named' = Named, cname' = cname, StepCurrent' = StepCurrent
    PROVE  UNCHANGED ST!specVars
<1>1. StepName' = StepName
  BY DEF StepName
<1> QED BY <1>1 DEF ST!specVars, StepName, StepCurrent

(* Each call of the code is one step of the abstract connections. *)
LEMMA StepByStep ==
    ASSUME IInv, IInv', [Next]_vars
    PROVE  [ST!StepNext]_(ST!specVars)
<1>1. CASE \/ UNCHANGED vars \/ (\E s \in Stmt : Refuse(s) \/ Start(s))
           \/ Walk \/ NameUsed \/ NameFree \/ ConnectFails
           \/ (\E v \in Versions : ConnectReturns(v))
           \/ (\E answered \in {TRUE, ~Fallible} : VersionReturns(answered))
           \/ BindNewVersion \/ SetVersion \/ NameNotFound \/ AllFreed
           \/ FinishConn \/ FreeAndReturn \/ FreeAndGoOn \/ Interrupt \/ Tear
  <2>1. live' = live /\ cname' = cname /\ currentp' = currentp
    BY <1>1 DEF vars, heap, info, Refuse, Start, Walk, NameUsed, NameFree, ConnectFails,
       ConnectReturns, VersionReturns, BindNewVersion, SetVersion, NameNotFound, AllFreed,
       FinishConn, FreeAndReturn, FreeAndGoOn, Interrupt, Tear
  <2> QED BY <2>1, StepStutters DEF Named, StepCurrent
<1>2. CASE Connected
  <2>1. /\ alloc \in Node /\ arg \in ConnName
        /\ \A n \in live : n < alloc /\ cname[n] # arg
        /\ Named = live /\ Named' = live \cup {alloc} /\ currentp' = alloc
        /\ cname' = [cname EXCEPT ![alloc] = arg]
    BY <1>2, ConnectAdds
  <2>2. StepName' = [d \in live \cup {alloc} |-> IF d = alloc THEN arg ELSE StepName[d]]
    BY <2>1 DEF StepName, IInv, TypeOK
  <2>3. \A d \in live : StepName[d] # arg
    BY <2>1 DEF StepName
  <2>4. StepCurrent' = alloc
    BY <2>1 DEF StepCurrent
  <2>5. \E c \in Node, nm \in ConnName : ST!Connect(c, nm)
    BY <2>1, <2>2, <2>3, <2>4 DEF ST!Connect, StepName, StepCurrent
  <2> QED BY <2>5 DEF ST!StepNext
<1>3. CASE SetCurrent \/ (FirstIsCurrent /\ maxno > 0)
  <2>1. ~InPieces /\ live' = live /\ cname' = cname
    BY <1>3 DEF SetCurrent, FirstIsCurrent, InPieces, heap
  <2>2. Named = live /\ Named' = live
    BY <2>1, NamedIsLive DEF Named
  <2>3. currentp' \in live
    <3>1. CASE SetCurrent
      BY <3>1 DEF SetCurrent, IInv, WalkOK
    <3>2. CASE FirstIsCurrent /\ maxno > 0
      <4>1. currentp' = firstp
        BY <3>2 DEF FirstIsCurrent
      <4>2. live # {}
        BY <2>1, <3>2, Counts DEF IInv
      <4> QED BY <4>1, <4>2 DEF IInv, ListOK, Linked
    <3> QED BY <1>3, <3>1, <3>2
  <2>4. StepName' = StepName /\ StepCurrent' = currentp'
    BY <2>1, <2>2, <2>3 DEF StepName, StepCurrent
  <2>5. ST!SetConnection(currentp')
    BY <2>2, <2>3, <2>4 DEF ST!SetConnection, StepName, StepCurrent
  <2> QED BY <2>2, <2>3, <2>5 DEF ST!StepNext
<1>4. CASE FirstIsCurrent /\ ~(maxno > 0)
  BY <1>4, StepStutters DEF FirstIsCurrent, heap, Named, StepCurrent
<1>5. CASE FreeNames
  <2>1. /\ pDBL \in live /\ Named = live /\ Named' = live \ {pDBL}
        /\ \A n \in live \ {pDBL} : cname'[n] = cname[n]
        /\ currentp' = currentp /\ currentp \in live \cup {NULL} /\ NULL \notin live
    BY <1>5, NameGoes DEF FreeNames, info, IInv, NoDangling, TypeOK, Node, NULL
  <2>2. StepName' = [n \in live \ {pDBL} |-> StepName[n]]
    BY <2>1 DEF StepName
  <2>3. StepCurrent' = IF pDBL = StepCurrent THEN 0 ELSE StepCurrent
    BY <2>1 DEF StepCurrent, NULL
  <2>4. \E c \in Named : ST!Close(c)
    BY <2>1, <2>2, <2>3 DEF ST!Close, StepName, StepCurrent
  <2> QED BY <2>4 DEF ST!StepNext
<1>6. CASE MovePointers
  <2>1. StepCurrent' = StepCurrent /\ Named' = Named /\ cname' = cname
    BY <1>6, PointersMove DEF StepCurrent
  <2> QED BY <2>1, StepStutters
<1> QED BY <1>1, <1>2, <1>3, <1>4, <1>5, <1>6 DEF Next, Step

(* For every name, _ALL_ included, with Control-C between any two calls and *)
(* version queries that fail, the list of sql_connect.c goes through the    *)
(* steps of the abstract connections: they are those Session runs over.     *)
THEOREM StepImplementation == Spec => ImplementsConnSteps
<1>1. Init => ST!SpecInit
  <2> SUFFICES ASSUME Init PROVE ST!SpecInit
    OBVIOUS
  <2>1. Named = {} /\ StepCurrent = 0
    BY DEF Init, Named, StepCurrent, NULL
  <2>2. StepName = [c \in {} |-> 0]
    BY <2>1 DEF StepName
  <2> QED BY <2>1, <2>2 DEF ST!SpecInit, StepName, StepCurrent
<1>2. IInv /\ IInv' /\ [Next]_vars => [ST!StepNext]_(ST!specVars)
  BY StepByStep
<1> QED BY <1>1, <1>2, Invariance, PTL DEF Spec, ImplementsConnSteps, ST!StepSpec
-----------------------------------------------------------------------------
(* Remaining, place by place. *)
LEMMA RemainingIs ==
    /\ pc = "walk" => Remaining = 5 * Ahead + 5
    /\ pc = "finish" => Remaining = 5 * Ahead + 4
    /\ pc = "unlink" => Remaining = 5 * Ahead + 3
    /\ pc = "count" => Remaining = 5 * Ahead + 2
    /\ pc = "connect" => Remaining = 4
    /\ pc = "version" => Remaining = 3
    /\ pc \in {"newversion", "return"} => Remaining = 2
    /\ pc \in {"bind", "setversion"} => Remaining = 1
    /\ pc \in {"idle", "torn"} => Remaining = 0
BY DEF Remaining

(* The node behind the one the walk is at, or has freed, has a larger       *)
(* number, if there is one.                                                 *)
LEMMA NextIsLater ==
    ASSUME IInv, pDBL # NULL, pc = "walk" \/ (pc = "count" /\ FreesAll)
    PROVE  /\ pDBL \in Node
           /\ next[pDBL] = NULL \/ (next[pDBL] \in Node /\ next[pDBL] > pDBL)
<1>1. live \subseteq Node /\ pDBL \in Node
  BY DEF IInv, TypeOK, Pointer
<1>2. CASE pc = "walk"
  <2>1. pDBL \in live
    BY <1>2 DEF IInv, WalkOK
  <2>2. CASE pDBL = lastp
    BY <1>1, <2>1, <2>2 DEF IInv, ListOK, Linked
  <2>3. CASE pDBL # lastp
    BY <1>1, <2>1, <2>3 DEF IInv, ListOK, Linked, Node
  <2> QED BY <2>2, <2>3
<1>3. CASE pc = "count" /\ FreesAll
  <2>1. next[pDBL] = firstp /\ \A n \in live : pDBL < n
    BY <1>3 DEF IInv, WalkOK
  <2>2. firstp = NULL \/ firstp \in live
    BY DEF IInv, ListOK, Linked
  <2> QED BY <1>1, <2>1, <2>2 DEF Node
<1> QED BY <1>2, <1>3

(* Ahead is a number, and shrinks with a step to the next node. *)
LEMMA AheadIs ==
    ASSUME IInv
    PROVE  /\ Ahead \in Nat
           /\ pDBL' = pDBL => Ahead' = Ahead
           /\ pDBL # NULL /\ pDBL' = NULL => Ahead' \in Nat /\ Ahead' < Ahead
           /\ pDBL # NULL /\ pDBL' \in Node /\ pDBL' > pDBL => Ahead' \in Nat /\ Ahead' < Ahead
BY ConstAssumption DEF IInv, TypeOK, Pointer, Node, NULL, Ahead

(* A node fewer ahead makes up for the steps at the next one. *)
LEMMA Nearer ==
    ASSUME NEW a \in Nat, NEW b \in Nat, b < a,
           NEW r \in Nat, r >= 5 * a + 2, NEW s, s = 5 * b + 5
    PROVE  s \in Nat /\ s < r
OBVIOUS

(* Every step of a statement leaves it fewer steps to take: for any number  *)
(* of connections and whatever the walk unlinks, it ends by itself as long  *)
(* as exec_sql_main keeps running.                                          *)
THEOREM WalksEnd == Spec => WalkShrinks
<1> DEFINE Shrinks == Remaining' \in Nat /\ Remaining' < Remaining
<1>1. IInv /\ [Next]_vars => [pc \notin {"idle", "torn"} => Shrinks]_vars
  <2> SUFFICES ASSUME IInv, Next, pc \notin {"idle", "torn"} PROVE Shrinks
    OBVIOUS
  <2>0. /\ Ahead \in Nat
        /\ pDBL' = pDBL => Ahead' = Ahead
        /\ pDBL # NULL /\ pDBL' = NULL => Ahead' \in Nat /\ Ahead' < Ahead
        /\ pDBL # NULL /\ pDBL' \in Node /\ pDBL' > pDBL => Ahead' \in Nat /\ Ahead' < Ahead
    BY AheadIs
  <2>1. Remaining \in Nat /\ Remaining > 0
    BY <2>0, RemainingIs DEF IInv, TypeOK
  <2>2. /\ pc' = "walk" => Remaining' = 5 * Ahead' + 5
        /\ pc' = "finish" => Remaining' = 5 * Ahead' + 4
        /\ pc' = "unlink" => Remaining' = 5 * Ahead' + 3
        /\ pc' = "count" => Remaining' = 5 * Ahead' + 2
        /\ pc' = "connect" => Remaining' = 4
        /\ pc' = "version" => Remaining' = 3
        /\ pc' \in {"newversion", "return"} => Remaining' = 2
        /\ pc' \in {"bind", "setversion"} => Remaining' = 1
        /\ pc' \in {"idle", "torn"} => Remaining' = 0
    BY DEF Remaining
  <2>3. CASE pc' \in {"idle", "torn"}
    BY <2>1, <2>2, <2>3
  <2>4. CASE Walk \/ FreeAndGoOn
    <3>1. /\ pc = "walk" \/ (pc = "count" /\ FreesAll)
          /\ pc' = "walk" /\ pDBL # NULL /\ pDBL' = next[pDBL]
      BY <2>4 DEF Walk, FreeAndGoOn, IInv, WalkOK, InPieces
    <3>2. Ahead' \in Nat /\ Ahead' < Ahead
      BY <2>0, <3>1, NextIsLater
    <3>3. Remaining >= 5 * Ahead + 2 /\ Remaining' = 5 * Ahead' + 5
      BY <2>0, <2>2, <3>1, RemainingIs
    <3> QED BY <2>0, <2>1, <3>2, <3>3, Nearer
  <2>5. CASE NameFree \/ SetCurrent
    <3>1. pc = "walk" /\ pc' \in {"connect", "setversion"}
      BY <2>5 DEF NameFree, SetCurrent
    <3>2. Remaining >= 5
      BY <2>0, <3>1, RemainingIs
    <3>3. Remaining' = 4 \/ Remaining' = 1
      BY <2>2, <3>1
    <3> QED BY <2>1, <3>2, <3>3
  <2>6. CASE \/ \E v \in Versions : ConnectReturns(v)
             \/ \E answered \in {TRUE, ~Fallible} : VersionReturns(answered)
             \/ BindNewVersion \/ FreeAndReturn
             \/ (FirstIsCurrent /\ pc' = "setversion")
    <3>1. \/ pc = "connect" /\ pc' = "version"
          \/ pc = "version" /\ pc' = "newversion"
          \/ pc = "newversion" /\ pc' = "bind"
          \/ pc = "count" /\ pc' = "return"
          \/ pc = "return" /\ pc' = "setversion"
      BY <2>6 DEF ConnectReturns, VersionReturns, BindNewVersion, FreeAndReturn, FirstIsCurrent
    <3>2. pc = "count" => Ahead > 0
      <4>1. pc = "count" => pDBL \in Node
        BY DEF IInv, WalkOK, TypeOK, Pointer, InPieces
      <4> QED BY <4>1, ConstAssumption DEF Ahead, Node, NULL
    <3> QED BY <2>0, <2>2, <3>1, <3>2, RemainingIs
  <2>7. CASE FreeNames \/ FinishConn \/ MovePointers
    <3>1. /\ pDBL' = pDBL
          /\ \/ pc = "walk" /\ pc' = "finish"
             \/ pc = "finish" /\ pc' = "unlink"
             \/ pc = "unlink" /\ pc' = "count"
      BY <2>7 DEF FreeNames, FinishConn, MovePointers
    <3> QED BY <2>0, <2>2, <3>1, RemainingIs
  <2>8. CASE FirstIsCurrent /\ pc' # "setversion"
    BY <2>3, <2>8 DEF FirstIsCurrent, Finish
  <2>9. CASE NameUsed \/ ConnectFails \/ NameNotFound \/ AllFreed \/ Connected \/ SetVersion
             \/ Interrupt \/ Tear
    BY <2>3, <2>9 DEF NameUsed, ConnectFails, NameNotFound, AllFreed, Connected, SetVersion,
       Interrupt, Tear, Finish
  <2>10. \A s \in Stmt : ~Refuse(s) /\ ~Start(s)
    BY DEF Refuse, Start
  <2> HIDE DEF Shrinks
  <2> QED BY <2>4, <2>5, <2>6, <2>7, <2>8, <2>9, <2>10 DEF Next, Step
<1> QED BY <1>1, Invariance, PTL DEF Spec, WalkShrinks
=============================================================================
