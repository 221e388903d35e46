---------------------------- MODULE UncgiProofs ----------------------------
(***************************************************************************)
(* uncgi, for every request, every size of the name table and every way in *)
(* which one name extends another: what a variable keeps of the texts that *)
(* came for it.                                                            *)
(*                                                                         *)
(* First the words of a sequence of pieces, then what binding does with    *)
(* them, then the steps of uncgi, which preserve UInv.                     *)
(***************************************************************************)
EXTENDS Uncgi, SequenceTheorems, FiniteSetTheorems, WellFoundedInduction, TLAPS

USE UncgiAssumption

(* The pieces up to the i-th that are words. *)
WordsAt(ps, i) == {j \in 1 .. i : ps[j].w # NoWord}

LEMMA RankOK ==
    ASSUME NEW ps, NEW i \in Nat
    PROVE  IsFiniteSet(WordsAt(ps, i)) /\ Rank(ps, i) = Cardinality(WordsAt(ps, i)) /\ Rank(ps, i) \in Nat
<1>1. IsFiniteSet(1 .. i)
  BY FS_Interval
<1>2. WordsAt(ps, i) \in SUBSET (1 .. i)
  BY DEF WordsAt
<1>3. IsFiniteSet(WordsAt(ps, i))
  BY <1>1, <1>2, FS_Subset
<1> QED BY <1>3, FS_CardinalityType DEF Rank, WordsAt

(* Pieces with the same words have the same ranks. *)
LEMMA RankSame ==
    ASSUME NEW ps, NEW qs, NEW i \in Nat, \A j \in 1 .. i : ps[j].w = qs[j].w
    PROVE  Rank(ps, i) = Rank(qs, i)
<1>1. {j \in 1 .. i : ps[j].w # NoWord} = {j \in 1 .. i : qs[j].w # NoWord}
  OBVIOUS
<1> QED BY <1>1 DEF Rank

(* A word is counted at its place, and with all that are before the end. *)
LEMMA RankOfWord ==
    ASSUME NEW ps, NEW n \in Nat, NEW i \in 1 .. n, ps[i].w # NoWord
    PROVE  Rank(ps, i) \in 1 .. Rank(ps, n)
<1>1. i \in Nat /\ i \in WordsAt(ps, i)
  BY DEF WordsAt
<1>2. IsFiniteSet(WordsAt(ps, n)) /\ WordsAt(ps, i) \in SUBSET WordsAt(ps, n)
  <2>1. IsFiniteSet(WordsAt(ps, n))
    BY RankOK
  <2>2. WordsAt(ps, i) \in SUBSET WordsAt(ps, n)
    BY DEF WordsAt
  <2> QED BY <2>1, <2>2
<1>3. Cardinality(WordsAt(ps, i)) <= Cardinality(WordsAt(ps, n))
  BY <1>2, FS_Subset
<1>4. Cardinality(WordsAt(ps, i)) # 0
  BY <1>1, RankOK, FS_EmptySet
<1>5. Rank(ps, i) = Cardinality(WordsAt(ps, i)) /\ Rank(ps, i) \in Nat
  BY <1>1, RankOK
<1>6. Rank(ps, n) = Cardinality(WordsAt(ps, n)) /\ Rank(ps, n) \in Nat
  BY RankOK
<1> QED BY <1>3, <1>4, <1>5, <1>6

(* Behind the pieces ps, those of qs are counted on from where ps ends. *)
LEMMA RankConcat ==
    ASSUME NEW ps \in Seq(Piece), NEW qs \in Seq(Piece), NEW i \in 0 .. Len(qs)
    PROVE  Rank(ps \o qs, Len(ps) + i) = Rank(ps, Len(ps)) + Rank(qs, i)
<1> DEFINE m == Len(ps)
           A == WordsAt(ps, m)
           B == WordsAt(qs, i)
           C == {m + j : j \in B}
<1>1. m \in Nat /\ Len(qs) \in Nat /\ i \in Nat
  BY LenProperties
<1>2. /\ \A j \in 1 .. m : (ps \o qs)[j] = ps[j]
      /\ \A j \in 1 .. i : (ps \o qs)[m + j] = qs[j]
  <2>1. \A j \in 1 .. m + Len(qs) : (ps \o qs)[j] = IF j <= m THEN ps[j] ELSE qs[j - m]
    BY ConcatProperties
  <2>2. \A j \in 1 .. i : m + j \in 1 .. m + Len(qs) /\ ~(m + j <= m) /\ (m + j) - m = j
    BY <1>1
  <2>3. \A j \in 1 .. m : j \in 1 .. m + Len(qs) /\ j <= m
    BY <1>1
  <2> QED BY <2>1, <2>2, <2>3
<1>3. WordsAt(ps \o qs, m + i) = A \cup C
  <2>1. ASSUME NEW j \in 1 .. m + i PROVE (ps \o qs)[j].w # NoWord <=> j \in A \cup C
    <3>1. CASE j <= m
      <4>1. j \in 1 .. m /\ j \notin C
        BY <1>1, <2>1, <3>1 DEF WordsAt
      <4> QED BY <1>2, <4>1 DEF WordsAt
    <3>2. CASE ~(j <= m)
      <4>1. j - m \in 1 .. i /\ j = m + (j - m) /\ j \notin 1 .. m
        BY <1>1, <2>1, <3>2
      <4>2. (ps \o qs)[j] = qs[j - m] /\ j \notin A
        BY <1>2, <4>1 DEF WordsAt
      <4>3. j \in C <=> j - m \in B
        BY <1>1, <4>1 DEF WordsAt
      <4> QED BY <4>1, <4>2, <4>3 DEF WordsAt
    <3> QED BY <3>1, <3>2
  <2>2. A \cup C \subseteq 1 .. m + i
    BY <1>1 DEF WordsAt
  <2> QED BY <2>1, <2>2 DEF WordsAt
<1>4. IsFiniteSet(A) /\ IsFiniteSet(B) /\ Cardinality(A) \in Nat /\ Cardinality(B) \in Nat
  BY <1>1, RankOK
<1>5. IsFiniteSet(C) /\ Cardinality(C) = Cardinality(B)
  <2> DEFINE f == [j \in B |-> m + j]
  <2>1. B \subseteq Int
    BY <1>1 DEF WordsAt
  <2>2. f \in Bijection(B, C)
    BY <1>1, <2>1 DEF Bijection, Injection, Surjection, IsInjective
  <2>3. ExistsBijection(B, C)
    BY <2>2 DEF ExistsBijection
  <2> QED BY <1>4, <2>3, FS_Bijection
<1>6. A \cap C = {}
  BY <1>1 DEF WordsAt
<1>7. Cardinality(A \cup C) = Cardinality(A) + Cardinality(B)
  <2>1. Cardinality(A \cup C) = Cardinality(A) + Cardinality(C) - Cardinality(A \cap C)
    <3> HIDE DEF A, C
    <3> QED BY <1>4, <1>5, FS_Union
  <2>2. Cardinality(A \cap C) = 0
    BY <1>6, FS_EmptySet
  <2> QED BY <1>4, <1>5, <2>1, <2>2
<1>8. Rank(ps \o qs, m + i) = Cardinality(WordsAt(ps \o qs, m + i))
  BY <1>1, RankOK
<1>9. Rank(ps, m) = Cardinality(A) /\ Rank(qs, i) = Cardinality(B)
  BY <1>1, RankOK
<1> QED BY <1>3, <1>7, <1>8, <1>9

(* One text behind the other: its words are behind those of the other. *)
LEMMA SpellsConcat ==
    ASSUME NEW ps \in Seq(Piece), NEW qs \in Seq(Piece), NEW s \in Texts, NEW t \in Texts,
           Spells(ps, s), Spells(qs, t)
    PROVE  Spells(ps \o qs, s \o t)
<1> DEFINE m == Len(ps)
           n == Len(qs)
<1>1. m \in Nat /\ n \in Nat /\ Len(s) \in Nat /\ Len(t) \in Nat
  BY LenProperties DEF Texts
<1>2. /\ ps \o qs \in Seq(Piece) /\ Len(ps \o qs) = m + n /\ DOMAIN (ps \o qs) = 1 .. m + n
      /\ \A i \in 1 .. m + n : (ps \o qs)[i] = IF i <= m THEN ps[i] ELSE qs[i - m]
  BY ConcatProperties, LenProperties
<1>3. /\ Len(s \o t) = Len(s) + Len(t)
      /\ \A i \in 1 .. Len(s) + Len(t) : (s \o t)[i] = IF i <= Len(s) THEN s[i] ELSE t[i - Len(s)]
  BY ConcatProperties DEF Texts
<1>4. Len(s) = Rank(ps, m) /\ Len(t) = Rank(qs, n)
  BY DEF Spells
<1>5. Len(s \o t) = Rank(ps \o qs, Len(ps \o qs))
  <2>1. Rank(ps \o qs, m + n) = Rank(ps, m) + Rank(qs, n)
    BY <1>1, RankConcat
  <2> QED BY <1>2, <1>3, <1>4, <2>1
<1>6. ASSUME NEW i \in 1 .. m + n, (ps \o qs)[i].w # NoWord
      PROVE  (ps \o qs)[i].w = (s \o t)[Rank(ps \o qs, i)]
  <2>1. CASE i <= m
    <3>1. i \in 1 .. m /\ i \in Nat /\ (ps \o qs)[i] = ps[i]
      BY <1>1, <1>2, <2>1
    <3>2. Rank(ps \o qs, i) = Rank(ps, i)
      <4>1. \A j \in 1 .. i : (ps \o qs)[j].w = ps[j].w
        <5>1. \A j \in 1 .. i : j \in 1 .. m + n /\ j <= m
          BY <1>1, <3>1
        <5> QED BY <1>2, <5>1
      <4> QED BY <3>1, <4>1, RankSame
    <3>3. Rank(ps, i) \in 1 .. Len(s)
      BY <1>1, <1>4, <1>6, <3>1, RankOfWord
    <3>4. ps[i].w = s[Rank(ps, i)]
      <4>1. DOMAIN ps = 1 .. m
        BY LenProperties
      <4> QED BY <1>6, <3>1, <4>1 DEF Spells
    <3>5. (s \o t)[Rank(ps, i)] = s[Rank(ps, i)]
      BY <1>1, <1>3, <3>3
    <3> QED BY <3>1, <3>2, <3>4, <3>5
  <2>2. CASE ~(i <= m)
    <3> DEFINE j == i - m
    <3>1. j \in 1 .. n /\ j \in 0 .. n /\ i = m + j /\ (ps \o qs)[i] = qs[j]
      BY <1>1, <1>2, <2>2
    <3>2. Rank(ps \o qs, i) = Len(s) + Rank(qs, j)
      <4>1. Rank(ps \o qs, m + j) = Rank(ps, m) + Rank(qs, j)
        BY <3>1, RankConcat
      <4> QED BY <1>4, <3>1, <4>1
    <3>3. Rank(qs, j) \in 1 .. Len(t)
      BY <1>1, <1>4, <1>6, <3>1, RankOfWord
    <3>4. qs[j].w = t[Rank(qs, j)]
      <4>1. DOMAIN qs = 1 .. n
        BY LenProperties
      <4> QED BY <1>6, <3>1, <4>1 DEF Spells
    <3>5. (s \o t)[Len(s) + Rank(qs, j)] = t[Rank(qs, j)]
      <4> HIDE DEF j
      <4>1. Len(s) + Rank(qs, j) \in 1 .. Len(s) + Len(t) /\ ~(Len(s) + Rank(qs, j) <= Len(s))
            /\ (Len(s) + Rank(qs, j)) - Len(s) = Rank(qs, j)
        BY <1>1, <3>3
      <4> QED BY <1>3, <4>1
    <3> QED BY <3>1, <3>2, <3>4, <3>5
  <2> QED BY <2>1, <2>2
<1> QED BY <1>2, <1>5, <1>6 DEF Spells

(* The pieces of a text are its words. *)
LEMMA PiecesOK ==
    ASSUME NEW text \in Texts
    PROVE  Pieces(text) \in Seq(Piece) \ {<<>>} /\ Spells(Pieces(text), text)
<1>1. CASE text = <<>>
  <2> DEFINE p == [w |-> NoWord, marked |-> FALSE]
  <2>1. Pieces(text) = <<p>> /\ p \in Piece
    BY <1>1 DEF Pieces, Piece
  <2>2. <<p>> \in Seq(Piece) /\ <<p>> # <<>> /\ Len(<<p>>) = 1 /\ <<p>>[1] = p /\ DOMAIN <<p>> = {1}
    BY <2>1
  <2>3. {j \in 1 .. 1 : <<p>>[j].w # NoWord} = {}
    BY <2>2
  <2>4. Rank(<<p>>, 1) = 0
    BY <2>3, FS_EmptySet DEF Rank
  <2>5. Len(text) = 0
    BY <1>1
  <2> QED BY <2>1, <2>2, <2>4, <2>5 DEF Spells
<1>2. CASE text # <<>>
  <2> DEFINE ps == Pieces(text)
  <2>1. Len(text) \in Nat \ {0} /\ DOMAIN text = 1 .. Len(text) /\ \A i \in 1 .. Len(text) : text[i] \in Word
    BY <1>2, EmptySeq, LenProperties, ElementOfSeq DEF Texts
  <2>2. ps = [i \in 1 .. Len(text) |-> [w |-> text[i], marked |-> FALSE]]
    BY <1>2, <2>1 DEF Pieces
  <2>3. ps \in Seq(Piece) /\ Len(ps) = Len(text) /\ DOMAIN ps = 1 .. Len(text)
    <3>1. \A i \in 1 .. Len(text) : [w |-> text[i], marked |-> FALSE] \in Piece
      BY <2>1 DEF Piece
    <3> QED BY <2>1, <2>2, <3>1
  <2>4. \A i \in 1 .. Len(text) : ps[i].w = text[i] /\ ps[i].w # NoWord
    BY <2>1, <2>2
  <2>5. ASSUME NEW i \in 1 .. Len(text) PROVE Rank(ps, i) = i
    <3>1. {j \in 1 .. i : ps[j].w # NoWord} = 1 .. i
      BY <2>1, <2>4, <2>5
    <3>2. Cardinality(1 .. i) = i
      BY <2>1, FS_Interval
    <3> QED BY <3>1, <3>2 DEF Rank
  <2>6. ps # <<>>
    BY <2>1, <2>3
  <2> HIDE DEF ps
  <2>7. Spells(ps, text)
    BY <2>1, <2>3, <2>4, <2>5 DEF Spells
  <2> QED BY <2>3, <2>6, <2>7 DEF ps
<1> QED BY <1>1, <1>2

(* Quotation marks change no word. *)
LEMMA QuotedOK ==
    ASSUME NEW ps \in Seq(Piece) \ {<<>>}
    PROVE  /\ Quoted(ps) \in Seq(Piece) \ {<<>>}
           /\ \A text : Spells(ps, text) => Spells(Quoted(ps), text)
<1> DEFINE qs == Quoted(ps)
<1>1. Len(ps) \in Nat \ {0} /\ DOMAIN ps = 1 .. Len(ps) /\ \A i \in 1 .. Len(ps) : ps[i] \in Piece
  BY EmptySeq, LenProperties, ElementOfSeq
<1>2. \A i \in 1 .. Len(ps) : [ps[i] EXCEPT !.marked = TRUE] \in Piece
                              /\ [ps[i] EXCEPT !.marked = TRUE].w = ps[i].w
  BY <1>1 DEF Piece
<1>3. qs = [i \in 1 .. Len(ps) |-> IF i \in {1, Len(ps)} THEN [ps[i] EXCEPT !.marked = TRUE] ELSE ps[i]]
  BY <1>1 DEF Quoted
<1>4. \A i \in 1 .. Len(ps) : qs[i] \in Piece /\ qs[i].w = ps[i].w
  BY <1>1, <1>2, <1>3
<1>5. qs \in Seq(Piece) /\ Len(qs) = Len(ps) /\ DOMAIN qs = 1 .. Len(ps)
  <2>1. qs \in [1 .. Len(ps) -> Piece]
    BY <1>3, <1>4
  <2> QED BY <1>1, <1>3, <2>1
<1>6. qs # <<>>
  BY <1>1, <1>5
<1> HIDE DEF qs
<1>7. \A i \in 1 .. Len(ps) : Rank(qs, i) = Rank(ps, i)
  BY <1>1, <1>4, RankSame
<1>8. ASSUME NEW text, Spells(ps, text) PROVE Spells(qs, text)
  BY <1>1, <1>4, <1>5, <1>7, <1>8 DEF Spells
<1> QED BY <1>5, <1>6, <1>8 DEF qs

(* A text that is bound behind what a variable holds: nothing is lost. *)
LEMMA BindArrayOK ==
    ASSUME NEW v \in Variable, NEW text \in Texts
    PROVE  /\ BindArray(v, text) \in Variable /\ BindArray(v, text).arr
           /\ \A s \in Texts : Spells(Text(v), s) => Spells(Text(BindArray(v, text)), s \o text)
<1> DEFINE q1 == Quoted(Text(v))
           q2 == Quoted(Pieces(text))
           ws == q1 \o q2
<1>1. Text(v) \in Seq(Piece) \ {<<>>}
  <2>1. v.first \in Seq(Piece) /\ v.first # <<>> /\ v.rest \in Seq(Piece)
    BY DEF Variable
  <2> QED BY <2>1, ConcatProperties, ConcatEqualIffEmpty DEF Text
<1>2. q1 \in Seq(Piece) /\ q1 # <<>> /\ q2 \in Seq(Piece) /\ q2 # <<>>
  BY <1>1, PiecesOK, QuotedOK
<1>3. ws \in Seq(Piece) /\ ws # <<>>
  BY <1>2, ConcatProperties, ConcatEqualIffEmpty
<1>4. BindArray(v, text) = Elements(ws)
  BY DEF BindArray
<1> HIDE DEF ws, q1, q2
<1>5. Head(ws) \in Piece /\ Tail(ws) \in Seq(Piece)
  BY <1>3, HeadTailProperties
<1>6. << Head(ws) >> \in Seq(Piece) \ {<<>>}
  BY <1>5
<1>7. Elements(ws) \in Variable /\ Elements(ws).arr
  <2>1. TRUE \in BOOLEAN
    OBVIOUS
  <2> QED BY <1>5, <1>6, <2>1, Zenon DEF Elements, Variable
<1>8. Text(Elements(ws)) = ws
  <2>1. Text(Elements(ws)) = << Head(ws) >> \o Tail(ws)
    BY DEF Text, Elements
  <2> QED BY <1>3, <2>1
<1>9. ASSUME NEW s \in Texts, Spells(Text(v), s) PROVE Spells(ws, s \o text)
  <2>1. Spells(q1, s) /\ Spells(q2, text)
    BY <1>1, <1>9, PiecesOK, QuotedOK DEF q1, q2
  <2> QED BY <1>2, <2>1, SpellsConcat DEF ws
<1> QED BY <1>4, <1>7, <1>8, <1>9

(* The first text that comes for a variable. *)
LEMMA BindScalarOK ==
    ASSUME NEW v \in Variable, NEW text \in Texts
    PROVE  BindScalar(v, text) \in Variable
<1>1. Pieces(text) \in Seq(Piece) \ {<<>>}
  BY PiecesOK
<1> QED BY <1>1 DEF BindScalar, Variable

LEMMA UnsetOK ==
    /\ Unset \in Variable /\ Spells(Text(Unset), <<>>)
    /\ \A text \in Texts : /\ BindScalar(Unset, text) = [arr |-> FALSE, first |-> Pieces(text), rest |-> <<>>]
                           /\ Spells(Text(BindScalar(Unset, text)), text)
<1>1. <<>> \in Texts /\ <<>> \in Seq(Piece)
  BY EmptySeq DEF Texts
<1>2. FALSE \in BOOLEAN
  OBVIOUS
<1>3. Unset \in Variable
  <2>1. Pieces(<<>>) \in Seq(Piece) \ {<<>>}
    BY <1>1, PiecesOK
  <2> QED BY <1>1, <1>2, <2>1, Zenon DEF Unset, Variable
<1>4. ASSUME NEW text \in Texts
      PROVE  /\ BindScalar(Unset, text) = [arr |-> FALSE, first |-> Pieces(text), rest |-> <<>>]
             /\ Spells(Text(BindScalar(Unset, text)), text)
  <2>1. BindScalar(Unset, text) = [arr |-> FALSE, first |-> Pieces(text), rest |-> <<>>]
    <3>1. PICK a : a = FALSE /\ Unset = [arr |-> a, first |-> Pieces(<<>>), rest |-> <<>>]
      BY Zenon DEF Unset
    <3>2. BindScalar(Unset, text) = [arr |-> a, first |-> Pieces(text), rest |-> <<>>]
      <4>1. Unset = [arr |-> a, first |-> Pieces(<<>>), rest |-> <<>>]
        BY <3>1
      <4> QED BY <4>1 DEF BindScalar
    <3> QED BY <3>1, <3>2, Zenon
  <2>2. Text(BindScalar(Unset, text)) = Pieces(text) \o <<>>
    BY <2>1 DEF Text
  <2>3. Pieces(text) \o <<>> = Pieces(text)
    BY PiecesOK, ConcatEmptySeq
  <2> QED BY <2>1, <2>2, <2>3, PiecesOK
<1>5. Spells(Text(Unset), <<>>)
  <2>1. Text(Unset) = Pieces(<<>>) \o <<>>
    BY DEF Text, Unset
  <2>2. Pieces(<<>>) \o <<>> = Pieces(<<>>)
    BY <1>1, PiecesOK, ConcatEmptySeq
  <2> QED BY <1>1, <2>1, <2>2, PiecesOK
<1> QED BY <1>3, <1>4, <1>5

(* A variable that keeps what came for it keeps a further text. *)
LEMMA KeepsOn ==
    ASSUME NEW v \in Var, NEW text \in Texts,
           shell[v] \in Variable, sent[v] \in Texts, times[v] \in Nat,
           shell'[v] = IF times[v] > 0 THEN BindArray(shell[v], text) ELSE BindScalar(shell[v], text),
           sent'[v] = sent[v] \o text, times'[v] = times[v] + 1,
           times[v] = 0 => shell[v] = Unset /\ sent[v] = <<>>,
           Keeps(v)
    PROVE  Keeps(v)'
<1>1. CASE times[v] = 0
  <2>1. shell'[v] = BindScalar(Unset, text) /\ sent'[v] = <<>> \o text /\ times'[v] = 1
    <3>1. ~(times[v] > 0) /\ times'[v] = 1
      BY <1>1
    <3>2. shell[v] = Unset /\ sent[v] = <<>>
      BY <1>1
    <3> QED BY <3>1, <3>2, Zenon
  <2>2. sent'[v] = text
    BY <2>1, ConcatEmptySeq DEF Texts
  <2>3. /\ shell'[v] = [arr |-> FALSE, first |-> Pieces(text), rest |-> <<>>]
        /\ Spells(Text(shell'[v]), text)
    BY <2>1, UnsetOK
  <2> QED BY <2>1, <2>2, <2>3 DEF Keeps
<1>2. CASE times[v] > 0
  <2>1. shell'[v] = BindArray(shell[v], text) /\ times'[v] # 1
    BY <1>2
  <2>2. shell'[v].arr /\ Spells(Text(shell'[v]), sent[v] \o text)
    BY <2>1, BindArrayOK DEF Keeps
  <2> QED BY <2>1, <2>2 DEF Keeps
<1> QED BY <1>1, <1>2
-----------------------------------------------------------------------------
(* A nonempty set of numbers has a least element. *)
LEMMA LeastExists ==
    ASSUME NEW S \in SUBSET Nat, S # {}
    PROVE  \E c \in S : \A d \in S : c <= d
<1>1. \E c \in S : \A d \in S : <<d, c>> \notin OpToRel(<, Nat)
  BY NatLessThanWellFounded, WFMin, Zenon
<1>2. PICK c \in S : \A d \in S : <<d, c>> \notin OpToRel(<, Nat)
  BY <1>1
<1>3. ASSUME NEW d \in S PROVE c <= d
  <2>1. ~(d < c)
    BY <1>2 DEF OpToRel
  <2> QED BY <2>1
<1> QED BY <1>2, <1>3

(* A name that is an identifier extends no other: it is found at its own   *)
(* entry, and the number that comes with it is 0 only the first time.      *)
LEMMA FoundOK ==
    ASSUME UncgiTypeOK, NEW n \in Name
    PROVE  /\ Found(n) # {} => First(n) \in Found(n)
           /\ n \in Identifier => (Found(n) # {} <=> Entered(n))
           /\ ~TableFull /\ n \in Identifier =>
                 \A mcnt \in Mcnt(n) : mcnt > 0 <=> Entered(n)
<1>1. table \in Seq([name : Name, m : Nat]) /\ DOMAIN table = 1 .. Len(table) /\ Len(table) \in Nat
  BY LenProperties DEF UncgiTypeOK
<1>2. Found(n) # {} => First(n) \in Found(n)
  <2>1. Found(n) \in SUBSET Nat
    BY <1>1 DEF Found
  <2> QED BY <2>1, LeastExists DEF First
<1>3. ASSUME n \in Identifier PROVE Found(n) # {} <=> Entered(n)
  <2>1. \A m : IsName(n, m) <=> n = m
    BY <1>3 DEF Identifier, IsName
  <2> QED BY <2>1 DEF Found, Entered
<1>4. ASSUME ~TableFull, n \in Identifier, NEW mcnt \in Mcnt(n) PROVE mcnt > 0 <=> Entered(n)
  <2>1. CASE Found(n) = {}
    BY <1>3, <1>4, <2>1 DEF Mcnt
  <2>2. CASE Found(n) # {}
    <3>1. First(n) \in 1 .. Len(table)
      BY <1>1, <1>2, <2>2 DEF Found
    <3>2. table[First(n)] \in [name : Name, m : Nat]
      BY <1>1, <3>1, ElementOfSeq
    <3>3. mcnt = table[First(n)].m + 1 /\ table[First(n)].m \in Nat
      BY <1>4, <2>2, <3>2 DEF Mcnt
    <3> QED BY <1>3, <1>4, <2>2, <3>3
  <2> QED BY <2>1, <2>2
<1> QED BY <1>2, <1>3, <1>4

(* The names of the table, after a name that is an identifier or another.  *)
LEMMA StockedEnters ==
    ASSUME UncgiTypeOK, ~TableFull, NEW n \in Name, NEW x \in Identifier, table' = Stocked(n)
    PROVE  Entered(x)' <=> Entered(x) \/ x = n
<1>1. table \in Seq([name : Name, m : Nat]) /\ DOMAIN table = 1 .. Len(table) /\ Len(table) \in Nat
  BY LenProperties DEF UncgiTypeOK
<1>2. CASE Found(n) = {}
  <2> DEFINE e == [name |-> n, m |-> 0]
  <2>1. table' = Append(table, e) /\ e \in [name : Name, m : Nat]
    BY <1>2 DEF Stocked
  <2>2. /\ Len(table') = Len(table) + 1 /\ DOMAIN table' = 1 .. Len(table) + 1
        /\ \A i \in 1 .. Len(table) : table'[i] = table[i]
        /\ table'[Len(table) + 1] = e
    BY <1>1, <2>1, AppendProperties, LenProperties
  <2>3. \A i \in 1 .. Len(table) + 1 : i \in 1 .. Len(table) \/ i = Len(table) + 1
    BY <1>1
  <2>4. Len(table) + 1 \in 1 .. Len(table) + 1 /\ 1 .. Len(table) \subseteq 1 .. Len(table) + 1
    BY <1>1
  <2> QED BY <1>1, <2>2, <2>3, <2>4 DEF Entered
<1>3. CASE Found(n) # {}
  <2>1. First(n) \in DOMAIN table
    BY <1>3, FoundOK DEF Found
  <2>2. table' = [table EXCEPT ![First(n)].m = @ + 1]
    BY <1>3 DEF Stocked
  <2>3. \A i \in 1 .. Len(table) : table[i] \in [name : Name, m : Nat]
    BY <1>1, ElementOfSeq
  <2>4. DOMAIN table' = DOMAIN table /\ \A i \in DOMAIN table : table'[i].name = table[i].name
    BY <1>1, <2>1, <2>2, <2>3
  <2>5. Entered(x)' <=> Entered(x)
    BY <2>4 DEF Entered
  <2>6. x = n => Entered(x)
    BY <1>3, FoundOK
  <2> QED BY <2>5, <2>6
<1> QED BY <1>2, <1>3
-----------------------------------------------------------------------------
LEMMA UncgiInitOK == UncgiInit => UInv /\ source = "none"
<1> SUFFICES ASSUME UncgiInit PROVE UInv /\ source = "none"
  OBVIOUS
<1>1. request \in Request
  BY DEF UncgiInit
<1>2. table = <<>> /\ source = "none" /\ count = 0 /\ ncookie = 0 /\ clean = TRUE /\ full = FALSE /\ torn = FALSE
  BY DEF UncgiInit
<1>3. table \in Seq([name : Name, m : Nat]) /\ Len(table) <= MAX_CNAME - 1
  BY <1>2, EmptySeq
<1>4. clean \in BOOLEAN /\ full \in BOOLEAN /\ torn \in BOOLEAN
  BY <1>2, Zenon
<1>5. \A v \in Var : shell[v] = Unset /\ sent[v] = <<>> /\ times[v] = 0
  BY DEF UncgiInit
<1>6. shell \in [Var -> Variable] /\ sent \in [Var -> Texts] /\ times \in [Var -> Nat]
  BY UnsetOK, EmptySeq DEF UncgiInit, Texts
<1>7. UncgiTypeOK /\ TableIsEmptied
  BY <1>1, <1>2, <1>3, <1>4, <1>6 DEF UncgiTypeOK, TableIsEmptied
<1>8. FirstCallOK
  BY <1>2, <1>5 DEF FirstCallOK
<1>9. FieldsAreKept /\ CookiesAreKept
  BY <1>2 DEF FieldsAreKept, CookiesAreKept, CookiesAreCounted
<1> QED BY <1>2, <1>7, <1>8, <1>9 DEF UInv

(* A field takes at most one place of the table, and none of a full one. *)
LEMMA StockedOK ==
    ASSUME UncgiTypeOK, Len(table) <= MAX_CNAME - 1, NEW n \in Name
    PROVE  /\ Stocked(n) \in Seq([name : Name, m : Nat])
           /\ Len(Stocked(n)) <= MAX_CNAME - 1
<1>1. table \in Seq([name : Name, m : Nat]) /\ Len(table) \in Nat
  BY DEF UncgiTypeOK
<1>2. CASE TableFull
  BY <1>1, <1>2 DEF Stocked
<1>3. CASE ~TableFull /\ Found(n) = {}
  <2>1. [name |-> n, m |-> 0] \in [name : Name, m : Nat]
    OBVIOUS
  <2>2. Stocked(n) = Append(table, [name |-> n, m |-> 0])
    BY <1>3 DEF Stocked
  <2>3. Len(table) + 1 <= MAX_CNAME - 1
    BY <1>1, <1>3 DEF TableFull
  <2> QED BY <1>1, <2>1, <2>2, <2>3, AppendProperties
<1>4. CASE ~TableFull /\ Found(n) # {}
  <2>1. Stocked(n) = [table EXCEPT ![First(n)].m = @ + 1]
    BY <1>4 DEF Stocked
  <2>2. CASE First(n) \notin DOMAIN table
    <3>1. table \in [1 .. Len(table) -> [name : Name, m : Nat]]
      BY <1>1, LenProperties
    <3>2. [table EXCEPT ![First(n)].m = @ + 1] = table
      BY <2>2, <3>1
    <3> QED BY <1>1, <2>1, <3>2
  <2>3. CASE First(n) \in DOMAIN table
    <3>1. table[First(n)] \in [name : Name, m : Nat]
      <4>1. First(n) \in 1 .. Len(table)
        BY <1>1, <2>3
      <4> QED BY <1>1, <4>1, ElementOfSeq
    <3>2. [table[First(n)] EXCEPT !.m = @ + 1] \in [name : Name, m : Nat]
      BY <3>1
    <3>3. Stocked(n) \in Seq([name : Name, m : Nat]) /\ Len(Stocked(n)) = Len(table)
      BY <1>1, <2>1, <2>3, <3>2
    <3> QED BY <1>1, <3>3
  <2> QED BY <2>2, <2>3
<1> QED BY <1>2, <1>3, <1>4

(* What a field or a cookie does to the variable it is for. *)
LEMMA HeardOK ==
    ASSUME UncgiTypeOK, NEW v \in Var, NEW text \in Texts, Heard(v, text)
    PROVE  /\ sent' \in [Var -> Texts] /\ times' \in [Var -> Nat]
           /\ sent'[v] = sent[v] \o text /\ times'[v] = times[v] + 1
           /\ \A n \in Var \ {v} : sent'[n] = sent[n] /\ times'[n] = times[n]
<1>1. sent \in [Var -> Texts] /\ times \in [Var -> Nat]
  BY DEF UncgiTypeOK
<1>2. sent[v] \o text \in Texts
  BY <1>1, ConcatProperties DEF Texts
<1> QED BY <1>1, <1>2 DEF Heard

LEMMA FieldTypeOK ==
    ASSUME UncgiTypeOK, TableIsEmptied, Field
    PROVE  UncgiTypeOK' /\ TableIsEmptied' /\ Head(left).name \in Name /\ Head(left).value \in Texts
<1>1. left \in Seq([name : Name, value : Texts]) /\ left # <<>> /\ source \in {"GET", "POST"}
  BY DEF Field, UncgiTypeOK
<1>2. /\ Head(left) \in [name : Name, value : Texts]
      /\ Tail(left) \in Seq([name : Name, value : Texts])
  BY <1>1, HeadTailProperties
<1>3. Head(left).name \in Name /\ Head(left).value \in Texts
  BY <1>2
<1>4. table' \in Seq([name : Name, m : Nat]) /\ Len(table') <= MAX_CNAME - 1
  BY <1>3, StockedOK DEF Field, TableIsEmptied
<1>5. left' = Tail(left) /\ count' = count + 1 /\ UNCHANGED <<request, ncookie, source, clean, torn>>
  BY DEF Field
<1>6. full' \in BOOLEAN
  BY DEF Field
<1>7. shell' \in [Var -> Variable] /\ sent' \in [Var -> Texts] /\ times' \in [Var -> Nat]
  <2>1. CASE Head(left).name \notin Identifier
    BY <2>1 DEF Field, UncgiTypeOK
  <2>2. CASE Head(left).name \in Identifier
    <3>1. Head(left).name \in Var /\ Heard(Head(left).name, Head(left).value)
      BY <2>2 DEF Field, Var
    <3>2. shell[Head(left).name] \in Variable /\ shell \in [Var -> Variable]
      BY <3>1 DEF UncgiTypeOK
    <3>3. PICK mcnt \in Mcnt(Head(left).name) :
            shell' = [shell EXCEPT ![Head(left).name] =
                        IF mcnt > 0 THEN BindArray(@, Head(left).value) ELSE BindScalar(@, Head(left).value)]
      BY <2>2 DEF Field
    <3>4. shell' \in [Var -> Variable]
      BY <1>3, <3>1, <3>2, <3>3, BindArrayOK, BindScalarOK
    <3> QED BY <1>3, <3>1, <3>4, HeardOK
  <2> QED BY <2>1, <2>2
<1>8. count' \in Nat
  BY <1>5 DEF UncgiTypeOK
<1>9. UncgiTypeOK'
  BY <1>1, <1>2, <1>4, <1>5, <1>6, <1>7, <1>8 DEF UncgiTypeOK
<1> QED BY <1>1, <1>3, <1>4, <1>5, <1>9 DEF TableIsEmptied

(* The first call, as long as the table has room. *)
LEMMA FieldKept ==
    ASSUME UInv, Field, clean
    PROVE  FirstCallOK' /\ FieldsAreKept'
<1>0. PICK n \in Name, text \in Texts : n = Head(left).name /\ text = Head(left).value
  BY FieldTypeOK DEF UInv
<1>1. /\ source \in {"GET", "POST"} /\ table' = Stocked(n)
      /\ full' = (full \/ TableFull) /\ UNCHANGED <<source, clean>>
  BY <1>0 DEF Field
<1>2. UncgiTypeOK /\ n \in Name /\ text \in Texts
  BY DEF UInv
<1>3. shell \in [Var -> Variable] /\ sent \in [Var -> Texts] /\ times \in [Var -> Nat]
  BY <1>2 DEF UncgiTypeOK
<1>4. /\ \A v \in Var : times[v] = 0 => shell[v] = Unset /\ sent[v] = <<>>
      /\ ~full => \A x \in Identifier \ {KEY, VAL} : times[x] > 0 <=> Entered(x)
      /\ ~full => \A x \in Identifier \ {KEY, VAL} : Keeps(x)
  BY <1>1 DEF UInv, FirstCallOK, FieldsAreKept
<1>5. CASE n \notin Identifier
  <2>1. UNCHANGED <<shell, sent, times>>
    BY <1>0, <1>5 DEF Field
  <2>2. ASSUME ~full', NEW x \in Identifier \ {KEY, VAL}
        PROVE  (times'[x] > 0 <=> Entered(x)') /\ Keeps(x)'
    <3>1. ~full /\ ~TableFull
      BY <1>1, <2>2
    <3>2. Entered(x)' <=> Entered(x)
      BY <1>1, <1>2, <1>5, <3>1, StockedEnters
    <3>3. Keeps(x)'
      BY <1>4, <2>1, <3>1 DEF Keeps
    <3>4. times'[x] > 0 <=> Entered(x)'
      BY <1>4, <2>1, <3>1, <3>2
    <3> QED BY <3>3, <3>4
  <2> QED BY <1>1, <1>4, <2>1, <2>2 DEF FirstCallOK, FieldsAreKept
<1>6. CASE n \in Identifier
  <2>1. PICK mcnt \in Mcnt(n) :
          shell' = [shell EXCEPT ![n] = IF mcnt > 0 THEN BindArray(@, text) ELSE BindScalar(@, text)]
    BY <1>0, <1>6 DEF Field
  <2>2. n \in Var /\ Identifier \subseteq Var
    BY <1>6 DEF Var
  <2>3. /\ sent'[n] = sent[n] \o text /\ times'[n] = times[n] + 1
        /\ \A x \in Var \ {n} : sent'[x] = sent[x] /\ times'[x] = times[x]
    <3>1. Heard(n, text)
      BY <1>0, <1>6 DEF Field
    <3> QED BY <1>2, <2>2, <3>1, HeardOK
  <2>4. /\ shell'[n] = IF mcnt > 0 THEN BindArray(shell[n], text) ELSE BindScalar(shell[n], text)
        /\ \A x \in Var \ {n} : shell'[x] = shell[x]
    BY <1>3, <2>1, <2>2
  <2>5. \A v \in Var : times'[v] = 0 => shell'[v] = Unset /\ sent'[v] = <<>>
    BY <1>3, <1>4, <2>2, <2>3, <2>4
  <2>6. ASSUME ~full', NEW x \in Identifier \ {KEY, VAL}
        PROVE  (times'[x] > 0 <=> Entered(x)') /\ Keeps(x)'
    <3>1. ~full /\ ~TableFull
      BY <1>1, <2>6
    <3>2. Entered(x)' <=> Entered(x) \/ x = n
      BY <1>1, <1>2, <3>1, StockedEnters
    <3>3. CASE x = n
      <4>1. mcnt > 0 <=> times[n] > 0
        BY <1>2, <1>4, <1>6, <2>6, <3>1, <3>3, FoundOK
      <4>2. shell'[n] = IF times[n] > 0 THEN BindArray(shell[n], text) ELSE BindScalar(shell[n], text)
        BY <2>4, <4>1
      <4>3. Keeps(n)
        BY <1>4, <2>6, <3>1, <3>3
      <4>4. Keeps(n)'
        BY <1>2, <1>3, <1>4, <2>2, <2>3, <4>2, <4>3, KeepsOn
      <4>5. times'[n] > 0
        BY <1>3, <2>2, <2>3
      <4> QED BY <3>2, <3>3, <4>4, <4>5
    <3>4. CASE x # n
      <4>1. x \in Var \ {n}
        BY <2>2, <3>4
      <4>2. Keeps(x)'
        BY <1>4, <2>3, <2>4, <3>1, <4>1 DEF Keeps
      <4>3. times'[x] > 0 <=> Entered(x)'
        BY <1>4, <2>3, <3>1, <3>2, <3>4, <4>1
      <4> QED BY <4>2, <4>3
    <3> QED BY <3>3, <3>4
  <2> QED BY <1>1, <2>5, <2>6 DEF FirstCallOK, FieldsAreKept
<1> QED BY <1>5, <1>6

LEMMA FieldOK == UInv /\ Field => UInv'
<1> SUFFICES ASSUME UInv, Field PROVE UInv'
  OBVIOUS
<1>1. UncgiTypeOK' /\ TableIsEmptied'
  BY FieldTypeOK DEF UInv
<1>2. source' # "COOKIE" /\ UNCHANGED <<request, ncookie, clean>>
  BY DEF Field
<1>3. FirstCallOK' /\ FieldsAreKept'
  BY <1>2, FieldKept DEF FirstCallOK, FieldsAreKept
<1>4. CookiesAreKept'
  BY <1>2 DEF UInv, CookiesAreKept, CookiesAreCounted
<1> QED BY <1>1, <1>2, <1>3, <1>4 DEF UInv

LEMMA CookieTypeOK ==
    ASSUME UncgiTypeOK, Cookie
    PROVE  /\ UncgiTypeOK' /\ Head(left).name \in Texts /\ Head(left).value \in Texts
           /\ Len(left') = Len(left) - 1 /\ Len(left) \in Nat
           /\ sent'[KEY] = sent[KEY] \o Head(left).name /\ times'[KEY] = times[KEY] + 1
           /\ sent'[VAL] = sent[VAL] \o Head(left).value /\ times'[VAL] = times[VAL] + 1
           /\ shell'[KEY] = BindCookie(shell[KEY], Head(left).name)
           /\ shell'[VAL] = BindCookie(shell[VAL], Head(left).value)
           /\ \A v \in Var \ {KEY, VAL} :
                 sent'[v] = sent[v] /\ times'[v] = times[v] /\ shell'[v] = shell[v]
<1> DEFINE s == Head(left).name
           t == Head(left).value
<1>1. left \in Seq([name : Texts, value : Texts]) /\ left # <<>> /\ source = "COOKIE"
  BY DEF Cookie, UncgiTypeOK
<1>2. Tail(left) \in Seq([name : Texts, value : Texts]) /\ Len(Tail(left)) = Len(left) - 1 /\ Len(left) \in Nat
      /\ Head(left) \in [name : Texts, value : Texts]
  BY <1>1, HeadTailProperties, LenProperties
<1>3. s \in Texts /\ t \in Texts
  BY <1>2
<1>4. left' = Tail(left) /\ count' = count + 1
      /\ UNCHANGED <<request, table, ncookie, source, clean, full, torn>>
  BY DEF Cookie
<1>5. KEY \in Var /\ VAL \in Var /\ KEY # VAL
  BY DEF Var, KEY, VAL
<1>6. shell \in [Var -> Variable] /\ sent \in [Var -> Texts] /\ times \in [Var -> Nat]
  BY DEF UncgiTypeOK
<1>7. /\ shell' = [shell EXCEPT ![KEY] = BindCookie(@, s), ![VAL] = BindCookie(@, t)]
      /\ sent' = [sent EXCEPT ![KEY] = @ \o s, ![VAL] = @ \o t]
      /\ times' = [times EXCEPT ![KEY] = @ + 1, ![VAL] = @ + 1]
  BY DEF Cookie
<1> HIDE DEF s, t
<1>8. /\ BindCookie(shell[KEY], s) \in Variable /\ BindCookie(shell[VAL], t) \in Variable
      /\ sent[KEY] \o s \in Texts /\ sent[VAL] \o t \in Texts
  <2>1. \A v \in Variable, text \in Texts : BindCookie(v, text) \in Variable
    BY BindArrayOK, BindScalarOK DEF BindCookie
  <2>2. sent[KEY] \o s \in Texts /\ sent[VAL] \o t \in Texts
    BY <1>3, <1>5, <1>6, ConcatProperties DEF Texts
  <2> QED BY <1>3, <1>5, <1>6, <2>1, <2>2
<1>9. /\ shell' \in [Var -> Variable]
      /\ shell'[KEY] = BindCookie(shell[KEY], s) /\ shell'[VAL] = BindCookie(shell[VAL], t)
      /\ \A v \in Var \ {KEY, VAL} : shell'[v] = shell[v]
  BY <1>5, <1>6, <1>7, <1>8
<1>10. /\ sent' \in [Var -> Texts]
       /\ sent'[KEY] = sent[KEY] \o s /\ sent'[VAL] = sent[VAL] \o t
       /\ \A v \in Var \ {KEY, VAL} : sent'[v] = sent[v]
  BY <1>5, <1>6, <1>7, <1>8
<1>11. /\ times' \in [Var -> Nat]
       /\ times'[KEY] = times[KEY] + 1 /\ times'[VAL] = times[VAL] + 1
       /\ \A v \in Var \ {KEY, VAL} : times'[v] = times[v]
  BY <1>5, <1>6, <1>7
<1>12. count' \in Nat
  BY <1>4 DEF UncgiTypeOK
<1>13. UncgiTypeOK'
  BY <1>1, <1>2, <1>4, <1>9, <1>10, <1>11, <1>12 DEF UncgiTypeOK
<1> QED BY <1>2, <1>3, <1>4, <1>9, <1>10, <1>11, <1>13 DEF s, t

(* A cookie comes for both variables, and for no other. *)
LEMMA CookieKept ==
    ASSUME UInv, Cookie, clean
    PROVE  /\ FirstCallOK' /\ FieldsAreKept'
           /\ \A v \in {KEY, VAL} : times'[v] = count' => Keeps(v)'
<1>1. source = "COOKIE" /\ count' = count + 1 /\ count \in Nat /\ UNCHANGED <<table, source, clean, full>>
  BY DEF Cookie, UInv, UncgiTypeOK
<1>2. UncgiTypeOK /\ KEY \in Var /\ VAL \in Var /\ Identifier \subseteq Var
  BY DEF UInv, Var
<1>3. shell \in [Var -> Variable] /\ sent \in [Var -> Texts] /\ times \in [Var -> Nat]
  BY <1>2 DEF UncgiTypeOK
<1>4. /\ \A v \in Var : times[v] = 0 => shell[v] = Unset /\ sent[v] = <<>>
      /\ ~full => \A x \in Identifier \ {KEY, VAL} : (times[x] > 0 <=> Entered(x)) /\ Keeps(x)
      /\ \A v \in {KEY, VAL} : times[v] = count => Keeps(v)
  BY <1>1 DEF UInv, FirstCallOK, FieldsAreKept, CookiesAreKept
<1>5. \A v \in Var : times'[v] = 0 => shell'[v] = Unset /\ sent'[v] = <<>>
  <2>1. times'[KEY] # 0 /\ times'[VAL] # 0
    <3>1. times'[KEY] = times[KEY] + 1 /\ times'[VAL] = times[VAL] + 1
      BY <1>2, CookieTypeOK
    <3> QED BY <1>2, <1>3, <3>1
  <2>2. \A v \in Var \ {KEY, VAL} :
          sent'[v] = sent[v] /\ times'[v] = times[v] /\ shell'[v] = shell[v]
    BY <1>2, CookieTypeOK
  <2> QED BY <1>4, <2>1, <2>2
<1>6. ASSUME ~full', NEW x \in Identifier \ {KEY, VAL}
      PROVE  (times'[x] > 0 <=> Entered(x)') /\ Keeps(x)'
  <2>1. sent'[x] = sent[x] /\ times'[x] = times[x] /\ shell'[x] = shell[x]
    BY <1>2, CookieTypeOK
  <2>2. (times[x] > 0 <=> Entered(x)) /\ Keeps(x)
    BY <1>1, <1>4, <1>6
  <2> QED BY <1>1, <2>1, <2>2 DEF Keeps, Entered
<1>7. FirstCallOK' /\ FieldsAreKept'
  BY <1>1, <1>5, <1>6 DEF FirstCallOK, FieldsAreKept
<1>8. ASSUME NEW v \in Var, NEW text \in Texts, v \in {KEY, VAL}, times'[v] = count',
             shell'[v] = BindCookie(shell[v], text), sent'[v] = sent[v] \o text, times'[v] = times[v] + 1
      PROVE  Keeps(v)'
  <2>1. times[v] = count /\ times[v] \in Nat
    BY <1>1, <1>3, <1>8
  <2>2. shell'[v] = IF times[v] > 0 THEN BindArray(shell[v], text) ELSE BindScalar(shell[v], text)
    BY <1>8, <2>1 DEF BindCookie
  <2>3. Keeps(v) /\ shell[v] \in Variable /\ sent[v] \in Texts
    BY <1>3, <1>4, <1>8, <2>1
  <2> QED BY <1>4, <1>8, <2>1, <2>2, <2>3, KeepsOn
<1>9. times'[KEY] = count' => Keeps(KEY)'
  BY <1>2, <1>8, CookieTypeOK
<1>10. times'[VAL] = count' => Keeps(VAL)'
  BY <1>2, <1>8, CookieTypeOK
<1> QED BY <1>7, <1>9, <1>10

LEMMA CookieOK == UInv /\ Cookie => UInv'
<1> SUFFICES ASSUME UInv, Cookie PROVE UInv'
  OBVIOUS
<1>1. UncgiTypeOK' /\ Len(left') = Len(left) - 1 /\ Len(left) \in Nat
  BY CookieTypeOK DEF UInv
<1>2. source = "COOKIE" /\ count' = count + 1
      /\ UNCHANGED <<request, table, ncookie, source, clean, full, torn>>
  BY DEF Cookie
<1>3. count' + Len(left') = Len(request'.cookie)
  <2>1. count \in Nat /\ count + Len(left) = Len(request.cookie)
    BY <1>2 DEF UInv, UncgiTypeOK
  <2>2. count' + Len(left') = count + Len(left)
    BY <1>1, <1>2, <2>1
  <2> QED BY <1>2, <2>1, <2>2
<1>4. FirstCallOK' /\ FieldsAreKept' /\ CookiesAreKept'
  BY <1>2, CookieKept DEF UInv, FirstCallOK, FieldsAreKept, CookiesAreKept, CookiesAreCounted
<1> QED BY <1>1, <1>2, <1>3, <1>4 DEF UInv, TableIsEmptied

LEMMA ForgetOK ==
    ASSUME Forget
    PROVE  /\ sent' \in [Var -> Texts] /\ times' \in [Var -> Nat]
           /\ \A v \in Var : sent'[v] = <<>> /\ times'[v] = 0
BY EmptySeq DEF Forget, Texts

(* It is called. *)
LEMMA UncgiOK == UInv /\ source = "none" /\ Uncgi => UInv' /\ source' # "none"
<1> SUFFICES ASSUME UInv, source = "none", Uncgi PROVE UInv' /\ source' # "none"
  OBVIOUS
<1>1. /\ source' = "GET" /\ left' = request.get /\ count' = 0 /\ Forget
      /\ UNCHANGED <<request, table, shell, ncookie, clean, full, torn>>
  BY DEF Uncgi, Scan
<1>2. request.get \in Seq([name : Name, value : Texts])
  BY DEF UInv, UncgiTypeOK, Request
<1>3. sent' \in [Var -> Texts] /\ times' \in [Var -> Nat] /\ \A v \in Var : sent'[v] = <<>> /\ times'[v] = 0
  BY <1>1, ForgetOK
<1>4. UncgiTypeOK'
  BY <1>1, <1>2, <1>3 DEF UInv, UncgiTypeOK
<1>5. TableIsEmptied' /\ CookiesAreKept'
  BY <1>1 DEF UInv, TableIsEmptied, CookiesAreKept, CookiesAreCounted
<1>6. FirstCallOK' /\ FieldsAreKept'
  <2>1. ASSUME clean
        PROVE  table = <<>> /\ \A v \in Var : shell'[v] = Unset /\ sent'[v] = <<>> /\ times'[v] = 0
    BY <1>1, <1>3, <2>1 DEF UInv, FirstCallOK
  <2>2. ASSUME clean, NEW n \in Identifier
        PROVE  (times'[n] > 0 <=> Entered(n)') /\ Keeps(n)'
    <3>1. n \in Var /\ table' = <<>>
      BY <1>1, <2>1, <2>2 DEF Var
    <3>2. ~Entered(n)'
      BY <3>1 DEF Entered
    <3>3. shell'[n] = Unset /\ sent'[n] = <<>> /\ times'[n] = 0
      BY <2>1, <2>2, <3>1
    <3>4. Keeps(n)'
      BY <3>3, UnsetOK DEF Keeps
    <3> QED BY <3>2, <3>3, <3>4
  <2> QED BY <1>1, <2>1, <2>2 DEF FirstCallOK, FieldsAreKept
<1> QED BY <1>1, <1>4, <1>5, <1>6 DEF UInv

(* It goes from one source to the next. *)
LEMMA ScanOK == UInv /\ (ScanPost \/ ScanCookie) => UInv'
<1> SUFFICES ASSUME UInv, ScanPost \/ ScanCookie PROVE UInv'
  OBVIOUS
<1>1. /\ request.post \in Seq([name : Name, value : Texts])
      /\ request.cookie \in Seq([name : Texts, value : Texts])
      /\ [request EXCEPT !.post = <<>>] \in Request
      /\ [request EXCEPT !.post = <<>>].cookie = request.cookie
  <2>1. request \in Request /\ <<>> \in Seq([name : Name, value : Texts])
    BY EmptySeq DEF UInv, UncgiTypeOK
  <2> QED BY <2>1 DEF Request
<1>2. /\ count' = 0 /\ source # "none" /\ source # "COOKIE" /\ source' \in {"POST", "COOKIE"}
      /\ UNCHANGED <<table, shell, ncookie, sent, times, clean, full, torn>> /\ request'.cookie = request.cookie
  BY <1>1 DEF ScanPost, ScanCookie, Scan
<1>3. UncgiTypeOK'
  BY <1>1, <1>2 DEF ScanPost, ScanCookie, Scan, UInv, UncgiTypeOK
<1>4. source' = "COOKIE" => count' + Len(left') = Len(request'.cookie)
  BY <1>1, <1>2 DEF ScanPost, ScanCookie, Scan
<1>5. TableIsEmptied'
  BY <1>2 DEF UInv, TableIsEmptied
<1>6. FirstCallOK' /\ FieldsAreKept'
  BY <1>2 DEF UInv, FirstCallOK, FieldsAreKept, Entered, Keeps
<1>7. CookiesAreKept'
  <2>1. CookiesAreCounted'
    BY <1>2 DEF UInv, CookiesAreKept, CookiesAreCounted
  <2>2. ASSUME clean, NEW v \in {KEY, VAL}, times'[v] = count' PROVE Keeps(v)'
    <3>1. v \in Var /\ times[v] = 0
      BY <1>2, <2>2 DEF Var
    <3>2. shell'[v] = Unset /\ sent'[v] = <<>> /\ times'[v] = 0
      BY <1>2, <2>2, <3>1 DEF UInv, FirstCallOK
    <3> QED BY <3>2, UnsetOK DEF Keeps
  <2> QED BY <1>2, <2>1, <2>2 DEF CookiesAreKept
<1> QED BY <1>3, <1>4, <1>5, <1>6, <1>7 DEF UInv

LEMMA UncgiEndOK == UInv /\ (UncgiReturns \/ UncgiBroken) => UInv'
<1> SUFFICES ASSUME UInv, UncgiReturns \/ UncgiBroken PROVE UInv'
  OBVIOUS
<1>1. /\ source' = "none" /\ count' = 0 /\ clean' = FALSE /\ full' = FALSE
      /\ UNCHANGED request /\ torn' \in BOOLEAN
  BY DEF UncgiReturns, UncgiBroken, UInv, UncgiTypeOK
<1>2. /\ table' \in Seq([name : Name, m : Nat]) /\ Len(table') <= MAX_CNAME - 1
      /\ ~torn' => table' = <<>>
  BY EmptySeq DEF UncgiReturns, UncgiBroken, FreeHostName, UInv, UncgiTypeOK, TableIsEmptied
<1>3. ncookie' \in Nat /\ (ncookie' > 0 => ncookie' = Len(request.cookie))
  <2>1. CASE UncgiReturns
    <3>1. count = Len(request.cookie) /\ count \in Nat
      <4>1. source = "COOKIE" /\ left = <<>> /\ count \in Nat
        BY <2>1 DEF UncgiReturns, UInv, UncgiTypeOK
      <4>2. count + Len(left) = Len(request.cookie) /\ Len(left) = 0
        BY <4>1, EmptySeq DEF UInv
      <4> QED BY <4>1, <4>2
    <3> QED BY <2>1, <3>1 DEF UncgiReturns, UInv, UncgiTypeOK, CookiesAreKept, CookiesAreCounted
  <2>2. CASE UncgiBroken
    BY <2>2 DEF UncgiBroken, UInv, UncgiTypeOK, CookiesAreKept, CookiesAreCounted
  <2> QED BY <2>1, <2>2
<1>4. clean' \in BOOLEAN /\ full' \in BOOLEAN
  BY <1>1, Zenon
<1>5. sent' \in [Var -> Texts] /\ times' \in [Var -> Nat] /\ UNCHANGED shell
  BY ForgetOK DEF UncgiReturns, UncgiBroken
<1>6. UncgiTypeOK'
  BY <1>1, <1>2, <1>3, <1>4, <1>5 DEF UInv, UncgiTypeOK
<1>7. CookiesAreCounted'
  BY <1>1, <1>3 DEF CookiesAreCounted
<1>8. ~clean' /\ source' # "COOKIE"
  BY <1>1
<1>9. FirstCallOK' /\ FieldsAreKept' /\ CookiesAreKept'
  BY <1>7, <1>8 DEF FirstCallOK, FieldsAreKept, CookiesAreKept
<1>10. TableIsEmptied'
  BY <1>1, <1>2 DEF TableIsEmptied
<1> QED BY <1>6, <1>8, <1>9, <1>10 DEF UInv

LEMMA UncgiUnchanged == UInv /\ UNCHANGED uvars => UInv'
<1> SUFFICES ASSUME UInv, UNCHANGED uvars PROVE UInv'
  OBVIOUS
<1>1. UncgiTypeOK' /\ TableIsEmptied'
  BY DEF UInv, uvars, UncgiTypeOK, TableIsEmptied
<1>2. FirstCallOK' /\ FieldsAreKept' /\ CookiesAreKept'
  BY DEF UInv, uvars, FirstCallOK, FieldsAreKept, CookiesAreKept, CookiesAreCounted, Entered, Keeps
<1> QED BY <1>1, <1>2 DEF UInv, uvars
=============================================================================
