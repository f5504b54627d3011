------------------------ MODULE AgentRuntime_proofs ------------------------
(***************************************************************************)
(* Proofs about the agent runtime and its filesystem tool: the inductive   *)
(* invariant IInv of a request, and with it that the budget of model calls *)
(* is kept, that every round is accounted for, and that the tool keeps the *)
(* tree sound and loses no file, for every set of paths and every reply a  *)
(* model may make.                                                         *)
(***************************************************************************)
EXTENDS AgentRuntime, FiniteSetTheorems, SequenceTheorems, WellFoundedInduction, TLAPS

-----------------------------------------------------------------------------
(* Induction, from the well-foundedness of < on Nat                        *)

LEMMA Least ==
  ASSUME NEW S, S \subseteq Nat, S # {}
  PROVE  \E m \in S : \A k \in S : m =< k
<1> DEFINE R == {ss \in Nat \X Nat : ss[1] < ss[2]}
<1>1. IsWellFoundedOn(R, Nat)
  BY NatLessThanWellFounded DEF OpToRel
<1>2. \A x, y \in Nat : y < x => <<y, x>> \in R
  OBVIOUS
<1> HIDE DEF R
<1>3. PICK x \in S : \A y \in S : ~(<<y, x>> \in R)
  BY <1>1, WFMin
<1>4. ASSUME NEW y \in S
      PROVE  x =< y
  <2>1. ~(y < x) /\ x \in Nat /\ y \in Nat
    BY <1>2, <1>3, <1>4
  <2> QED BY <2>1
<1> QED BY <1>3, <1>4

\* What 0 has and n + 1 has if n has it, every natural number has.
LEMMA Induction ==
  ASSUME NEW S, 0 \in S, \A n \in Nat : n \in S => n + 1 \in S
  PROVE  \A n \in Nat : n \in S
<1> DEFINE C == {n \in Nat : n \notin S}
<1> SUFFICES ASSUME C # {}
             PROVE  FALSE
  OBVIOUS
<1>1. PICK m \in C : \A k \in C : m =< k
  <2>1. C \subseteq Nat
    OBVIOUS
  <2> QED BY <2>1, Least
<1>2. m # 0 /\ m \in Nat
  OBVIOUS
<1>3. m - 1 \in Nat /\ m - 1 \in S
  BY <1>1, <1>2
<1>4. m - 1 + 1 = m
  BY <1>2
<1> QED BY <1>3, <1>4

-----------------------------------------------------------------------------
(* Paths                                                                   *)

Path == Seq(STRING)

LEMMA PathsArePaths ==
  /\ \A p \in Paths : p \in Path /\ p # Root
  /\ \A p \in Paths \cup {Root} : p \in Path /\ (p # Root => p \in Paths)
<1>1. Root \in Path /\ Len(Root) = 0
  BY DEF Root, Path
<1>2. \A p \in Paths : p \in Path /\ Len(p) > 0
  BY PathsAssumption DEF Path
<1> QED BY <1>1, <1>2

LEMMA PrefixIs ==
  ASSUME NEW s \in Path, NEW t \in Path
  PROVE  IsPrefix(s, t) <=> Len(s) =< Len(t) /\ \A i \in 1..Len(s) : s[i] = t[i]
<1>1. Len(s) \in Nat /\ Len(t) \in Nat
  BY DEF Path
<1>2. CASE Len(s) =< Len(t)
  <2>1. /\ SubSeq(s, 1, Len(s)) \in Seq(STRING) /\ Len(SubSeq(s, 1, Len(s))) = Len(s)
        /\ \A i \in 1..Len(s) : SubSeq(s, 1, Len(s))[i] = s[i]
    BY <1>1 DEF Path
  <2>2. /\ SubSeq(t, 1, Len(s)) \in Seq(STRING) /\ Len(SubSeq(t, 1, Len(s))) = Len(s)
        /\ \A i \in 1..Len(s) : SubSeq(t, 1, Len(s))[i] = t[i]
    BY <1>1, <1>2 DEF Path
  <2>3. SubSeq(s, 1, Len(s)) = SubSeq(t, 1, Len(s)) <=> \A i \in 1..Len(s) : s[i] = t[i]
    <3>1. ASSUME \A i \in 1..Len(s) : s[i] = t[i]
          PROVE  SubSeq(s, 1, Len(s)) = SubSeq(t, 1, Len(s))
      BY <2>1, <2>2, <3>1, SeqEqual
    <3>2. ASSUME SubSeq(s, 1, Len(s)) = SubSeq(t, 1, Len(s))
          PROVE  \A i \in 1..Len(s) : s[i] = t[i]
      BY <2>1, <2>2, <3>2
    <3> QED BY <3>1, <3>2
  <2> QED BY <1>2, <2>3 DEF IsPrefix
<1>3. CASE ~(Len(s) =< Len(t))
  BY <1>3 DEF IsPrefix
<1> QED BY <1>2, <1>3

LEMMA FrontIs ==
  ASSUME NEW s \in Path, s # Root
  PROVE  /\ Front(s) \in Path /\ Len(s) \in Nat \ {0} /\ Len(Front(s)) = Len(s) - 1
         /\ \A i \in 1..(Len(s) - 1) : Front(s)[i] = s[i]
<1>1. Len(s) \in Nat /\ Len(s) # 0
  BY EmptySeq DEF Path, Root
<1> DEFINE n == Len(s) - 1
<1>2. n \in Nat /\ \A i \in 1..n : s[i] \in STRING
  BY <1>1 DEF Path
<1>3. /\ SubSeq(s, 1, n) \in Seq(STRING) /\ Len(SubSeq(s, 1, n)) = IF 1 =< n THEN n - 1 + 1 ELSE 0
      /\ \A i \in 1..(n - 1 + 1) : SubSeq(s, 1, n)[i] = s[1 + i - 1]
  <2> HIDE DEF n
  <2> QED BY <1>2, SubSeqProperties
<1>4. Len(SubSeq(s, 1, n)) = n /\ \A i \in 1..n : SubSeq(s, 1, n)[i] = s[i]
  <2> HIDE DEF n
  <2> QED BY <1>2, <1>3
<1> QED BY <1>1, <1>3, <1>4 DEF Path, Front

\* The order of paths.
LEMMA PrefixOrder ==
  /\ \A s \in Path : IsPrefix(s, s) /\ IsPrefix(Root, s)
  /\ \A s, t, u \in Path : IsPrefix(s, t) /\ IsPrefix(t, u) => IsPrefix(s, u)
  /\ \A s, t \in Path : IsPrefix(s, t) /\ IsPrefix(t, s) => s = t
  /\ \A s, t \in Path : IsPrefix(s, t) => Len(s) =< Len(t) /\ (Len(s) = Len(t) => s = t)
  /\ \A s, t, u \in Path : IsPrefix(s, u) /\ IsPrefix(t, u) => IsPrefix(s, t) \/ IsPrefix(t, s)
<1>1. \A s \in Path : Len(s) \in Nat
  BY DEF Path
<1>2. Root \in Path /\ Len(Root) = 0
  BY DEF Root, Path
<1>3. \A s \in Path : IsPrefix(s, s) /\ IsPrefix(Root, s)
  BY <1>1, <1>2, PrefixIs
<1>4. \A s, t, u \in Path : IsPrefix(s, t) /\ IsPrefix(t, u) => IsPrefix(s, u)
  BY <1>1, PrefixIs
<1>5. ASSUME NEW s \in Path, NEW t \in Path, IsPrefix(s, t)
      PROVE  Len(s) =< Len(t) /\ (Len(s) = Len(t) => s = t)
  <2>1. Len(s) =< Len(t) /\ \A i \in 1..Len(s) : s[i] = t[i]
    BY <1>5, PrefixIs
  <2> QED BY <2>1, SeqEqual DEF Path
<1>6. \A s, t \in Path : IsPrefix(s, t) /\ IsPrefix(t, s) => s = t
  BY <1>1, <1>5
<1>7. ASSUME NEW s \in Path, NEW t \in Path, NEW u \in Path, IsPrefix(s, u), IsPrefix(t, u)
      PROVE  IsPrefix(s, t) \/ IsPrefix(t, s)
  BY <1>1, <1>7, PrefixIs
<1> QED BY <1>3, <1>4, <1>5, <1>6, <1>7

\* A directory's path is the longest one before its entry's.
LEMMA PrefixOfFront ==
  ASSUME NEW s \in Path, NEW t \in Path, t # Root
  PROVE  /\ IsPrefix(s, Front(t)) <=> IsPrefix(s, t) /\ s # t
         /\ IsPrefix(Front(t), t) /\ Front(t) # t
<1>1. /\ Front(t) \in Path /\ Len(t) \in Nat \ {0} /\ Len(Front(t)) = Len(t) - 1
      /\ \A i \in 1..(Len(t) - 1) : Front(t)[i] = t[i]
  BY FrontIs
<1>2. Len(s) \in Nat
  BY DEF Path
<1>3. IsPrefix(Front(t), t) /\ Front(t) # t
  BY <1>1, PrefixIs
<1>4. ASSUME IsPrefix(s, Front(t))
      PROVE  IsPrefix(s, t) /\ s # t
  <2>1. Len(s) < Len(t)
    BY <1>1, <1>2, <1>4, PrefixIs
  <2> QED BY <1>1, <1>3, <1>4, <2>1, PrefixOrder
<1>5. ASSUME IsPrefix(s, t), s # t
      PROVE  IsPrefix(s, Front(t))
  <2>1. Len(s) =< Len(t) /\ Len(s) # Len(t)
    BY <1>5, PrefixOrder
  <2>2. Len(s) =< Len(Front(t))
    BY <1>1, <1>2, <2>1
  <2>3. \A i \in 1..Len(s) : s[i] = t[i] /\ i \in 1..(Len(t) - 1)
    BY <1>1, <1>2, <1>5, <2>2, PrefixIs
  <2>4. \A i \in 1..Len(s) : s[i] = Front(t)[i]
    BY <1>1, <2>3
  <2> QED BY <1>1, <2>2, <2>4, PrefixIs
<1> QED BY <1>3, <1>4, <1>5


\* A path below dst, taken to the same place below src.
Rebase(src, dst, p) == src \o SubSeq(p, Len(dst) + 1, Len(p))

LEMMA Rebasing ==
  ASSUME NEW src \in Path, NEW dst \in Path, NEW p \in Path, IsPrefix(dst, p)
  PROVE  LET q == Rebase(src, dst, p) IN
         /\ q \in Path /\ Len(q) = Len(src) + (Len(p) - Len(dst))
         /\ \A i \in 1..Len(src) : q[i] = src[i]
         /\ \A i \in 1..(Len(p) - Len(dst)) : q[Len(src) + i] = p[Len(dst) + i]
<1> DEFINE k == Len(dst)
           n == Len(p)
           rest == SubSeq(p, k + 1, n)
<1>1. k \in Nat /\ n \in Nat /\ k =< n /\ Len(src) \in Nat /\ \A i \in 1..n : p[i] \in STRING
  BY PrefixIs DEF Path
<1>2. /\ rest \in Seq(STRING) /\ Len(rest) = n - k
      /\ \A i \in 1..(n - k) : rest[i] = p[k + i]
  <2> HIDE DEF k, n
  <2>1. /\ rest \in Seq(STRING) /\ Len(rest) = IF k + 1 =< n THEN n - (k + 1) + 1 ELSE 0
        /\ \A i \in 1..(n - (k + 1) + 1) : rest[i] = p[(k + 1) + i - 1]
    BY <1>1, SubSeqProperties
  <2>2. n - (k + 1) + 1 = n - k /\ \A i \in 1..(n - k) : (k + 1) + i - 1 = k + i
    BY <1>1
  <2> QED BY <1>1, <2>1, <2>2
<1> DEFINE q == src \o rest
<1> HIDE DEF rest, k, n
<1>3. /\ q \in Seq(STRING) /\ Len(q) = Len(src) + Len(rest)
      /\ \A i \in 1..(Len(src) + Len(rest)) : q[i] = IF i =< Len(src) THEN src[i] ELSE rest[i - Len(src)]
  BY <1>2, ConcatProperties DEF Path
<1>4. \A i \in 1..Len(src) : q[i] = src[i]
  BY <1>1, <1>2, <1>3
<1>5. ASSUME NEW i \in 1..(n - k)
      PROVE  q[Len(src) + i] = p[k + i]
  <2>1. Len(src) + i \in 1..(Len(src) + Len(rest)) /\ ~(Len(src) + i =< Len(src))
    BY <1>1, <1>2
  <2>2. Len(src) + i - Len(src) = i
    BY <1>1
  <2> QED BY <1>2, <1>3, <2>1, <2>2
<1> HIDE DEF q
<1>6. q = Rebase(src, dst, p)
  BY DEF q, rest, k, n, Rebase
<1>7. Len(q) = Len(src) + (n - k)
  BY <1>2, <1>3
<1> QED BY <1>3, <1>4, <1>5, <1>6, <1>7 DEF k, n, Path

\* The place below src that a path below dst comes from, and back.
LEMMA RebasedPath ==
  ASSUME NEW src \in Path, NEW dst \in Path, NEW p \in Path, IsPrefix(dst, p)
  PROVE  LET q == Rebase(src, dst, p) IN
         /\ q \in Path /\ IsPrefix(src, q) /\ Rebase(dst, src, q) = p
         /\ p = dst => q = src
         /\ p # dst => /\ p # Root /\ q # Root /\ q # src /\ IsPrefix(dst, Front(p))
                       /\ Front(q) = Rebase(src, dst, Front(p))
<1> DEFINE q == Rebase(src, dst, p)
<1>1. /\ Len(src) \in Nat /\ Len(dst) \in Nat /\ Len(p) \in Nat /\ Len(dst) =< Len(p)
      /\ \A i \in 1..Len(dst) : p[i] = dst[i]
  BY PrefixIs DEF Path
<1>2. /\ q \in Path /\ Len(q) = Len(src) + (Len(p) - Len(dst))
      /\ \A i \in 1..Len(src) : q[i] = src[i]
      /\ \A i \in 1..(Len(p) - Len(dst)) : q[Len(src) + i] = p[Len(dst) + i]
  BY Rebasing
<1> HIDE DEF q
<1>3. IsPrefix(src, q)
  BY <1>1, <1>2, PrefixIs
<1>4. Rebase(dst, src, q) = p
  <2> DEFINE r == Rebase(dst, src, q)
  <2>1. /\ r \in Path /\ Len(r) = Len(dst) + (Len(q) - Len(src))
        /\ \A i \in 1..Len(dst) : r[i] = dst[i]
        /\ \A i \in 1..(Len(q) - Len(src)) : r[Len(dst) + i] = q[Len(src) + i]
    BY <1>2, <1>3, Rebasing
  <2> HIDE DEF r
  <2>2. Len(r) = Len(p) /\ Len(q) - Len(src) = Len(p) - Len(dst)
    BY <1>1, <1>2, <2>1
  <2>3. ASSUME NEW i \in 1..Len(r)
        PROVE  r[i] = p[i]
    <3>1. CASE i =< Len(dst)
      BY <1>1, <2>1, <3>1
    <3>2. CASE ~(i =< Len(dst))
      <4> DEFINE j == i - Len(dst)
      <4>1. j \in 1..(Len(p) - Len(dst)) /\ i = Len(dst) + j
        BY <1>1, <2>2, <3>2
      <4> HIDE DEF j
      <4> QED BY <1>2, <2>1, <2>2, <4>1
    <3> QED BY <3>1, <3>2
  <2>4. r = p
    BY <2>1, <2>2, <2>3, SeqEqual DEF Path
  <2> QED BY <2>4 DEF r
<1>5. ASSUME p = dst
      PROVE  q = src
  <2>1. Len(q) = Len(src)
    BY <1>1, <1>2, <1>5
  <2> QED BY <1>2, <2>1, SeqEqual DEF Path
<1>6. ASSUME p # dst
      PROVE  /\ p # Root /\ q # Root /\ q # src /\ IsPrefix(dst, Front(p))
             /\ Front(q) = Rebase(src, dst, Front(p))
  <2>1. Len(dst) # Len(p)
    BY <1>6, PrefixOrder
  <2>2. Len(q) > Len(src) /\ Len(q) > 0 /\ Len(p) > 0
    BY <1>1, <1>2, <2>1
  <2>3. p # Root /\ q # Root /\ q # src
    BY <1>1, <2>2 DEF Root
  <2>4. IsPrefix(dst, Front(p))
    BY <1>6, <2>3, PrefixOfFront
  <2>5. /\ Front(p) \in Path /\ Len(Front(p)) = Len(p) - 1
        /\ \A i \in 1..(Len(p) - 1) : Front(p)[i] = p[i]
    BY <2>3, FrontIs
  <2>6. /\ Front(q) \in Path /\ Len(Front(q)) = Len(q) - 1
        /\ \A i \in 1..(Len(q) - 1) : Front(q)[i] = q[i]
    BY <1>2, <2>3, FrontIs
  <2> DEFINE r == Rebase(src, dst, Front(p))
  <2>7. /\ r \in Path /\ Len(r) = Len(src) + (Len(Front(p)) - Len(dst))
        /\ \A i \in 1..Len(src) : r[i] = src[i]
        /\ \A i \in 1..(Len(Front(p)) - Len(dst)) : r[Len(src) + i] = Front(p)[Len(dst) + i]
    BY <2>4, <2>5, Rebasing
  <2> HIDE DEF r
  <2>8. Len(r) = Len(Front(q)) /\ Len(r) = Len(src) + (Len(p) - 1 - Len(dst))
    BY <1>1, <1>2, <2>5, <2>6, <2>7
  <2>9. ASSUME NEW i \in 1..Len(r)
        PROVE  r[i] = Front(q)[i]
    <3>1. i \in 1..(Len(q) - 1)
      BY <2>6, <2>8
    <3>2. CASE i =< Len(src)
      BY <1>1, <1>2, <2>6, <2>7, <3>1, <3>2
    <3>3. CASE ~(i =< Len(src))
      <4> DEFINE j == i - Len(src)
      <4>1. /\ j \in 1..(Len(p) - 1 - Len(dst)) /\ j \in 1..(Len(p) - Len(dst)) /\ i = Len(src) + j
            /\ Len(dst) + j \in 1..(Len(p) - 1)
        BY <1>1, <2>8, <3>3
      <4> HIDE DEF j
      <4> QED BY <1>2, <2>5, <2>6, <2>7, <3>1, <4>1
    <3> QED BY <3>2, <3>3
  <2>10. Front(q) = r
    BY <2>6, <2>7, <2>8, <2>9, SeqEqual DEF Path
  <2> QED BY <2>3, <2>4, <2>10 DEF r
<1> QED BY <1>2, <1>3, <1>4, <1>5, <1>6 DEF q


-----------------------------------------------------------------------------
(* Trees                                                                   *)

LEMMA Dirnames ==
  /\ \A p \in Paths \cup {Root} : Dirname(p) \in Paths \cup {Root} /\ Dirname(p) \in Path
  /\ \A p \in Paths : ~IsPrefix(p, Dirname(p)) /\ IsPrefix(Dirname(p), p) /\ Dirname(p) # p
<1>1. ASSUME NEW p \in Paths
      PROVE  Dirname(p) \in Paths \cup {Root} /\ Dirname(p) \in Path
  <2>1. p \in Path /\ p # Root
    BY PathsArePaths
  <2>2. Front(p) \in Path /\ Len(p) \in Nat \ {0} /\ Len(Front(p)) = Len(p) - 1
    BY <2>1, FrontIs
  <2>3. CASE Len(p) > 1
    BY <2>2, <2>3, PathsAssumption DEF Dirname
  <2>4. CASE ~(Len(p) > 1)
    <3>1. Len(Front(p)) = 0
      BY <2>2, <2>4
    <3> QED BY <2>2, <3>1, EmptySeq DEF Dirname, Root, Path
  <2> QED BY <2>3, <2>4
<1>2. Dirname(Root) = Root
  <2>1. Root \in Seq(STRING) /\ Len(Root) = 0
    BY DEF Root
  <2>2. SubSeq(Root, 1, Len(Root) - 1) \in Seq(STRING) /\ Len(SubSeq(Root, 1, Len(Root) - 1)) = 0
    <3>1. Len(Root) - 1 \in Int /\ ~(1 =< Len(Root) - 1)
      BY <2>1
    <3>2. \A i \in 1..(Len(Root) - 1) : Root[i] \in STRING
      BY <3>1
    <3> QED BY <2>1, <3>1, <3>2, SubSeqProperties
  <2> QED BY <2>2, EmptySeq DEF Dirname, Front, Root
<1>3. Root \in Path
  BY DEF Root, Path
<1>4. ASSUME NEW p \in Paths
      PROVE  ~IsPrefix(p, Dirname(p)) /\ IsPrefix(Dirname(p), p) /\ Dirname(p) # p
  <2>1. p \in Path /\ p # Root
    BY PathsArePaths
  <2> QED BY <2>1, PrefixOfFront DEF Dirname
<1> QED BY <1>1, <1>2, <1>3, <1>4

Pieces == Chunks \cup {Part}
Data == BoundedSeq(Pieces, MaxChunks)

LEMMA NodesAre == Node = {Absent, Directory} \cup {File(d) : d \in Data}
BY DEF Node, Data, Pieces

LEMMA NodeIs ==
  ASSUME NEW n \in Node
  PROVE  /\ n.kind = "dir" <=> n = Directory
         /\ n.kind # "absent" <=> n # Absent
         /\ n.kind = "file" <=> \E d \in Data : n = File(d)
         /\ n.kind \in {"absent", "dir", "file"}
BY NodesAre DEF Absent, Directory, File

LEMMA TreeIs ==
  ASSUME NEW t \in Tree, NEW p \in Paths \cup {Root}
  PROVE  /\ At(t, p) \in Node /\ (p \in Paths => At(t, p) = t[p] /\ t[p] \in Node)
         /\ Exists(t, p) <=> IsDir(t, p) \/ IsPlain(t, p)
         /\ ~(IsDir(t, p) /\ IsPlain(t, p))
         /\ p \in Paths => (IsDir(t, p) <=> t[p] = Directory) /\ (Exists(t, p) <=> t[p] # Absent)
         /\ p = Root => IsDir(t, p)
<1>1. p \in Paths => At(t, p) = t[p] /\ t[p] \in Node
  BY PathsArePaths DEF At, Tree
<1>2. p = Root => At(t, p) = Directory /\ Directory.kind = "dir"
  BY DEF At, Directory
<1>3. At(t, p) \in Node
  BY <1>1, <1>2 DEF Node
<1> QED BY <1>1, <1>2, <1>3, NodeIs DEF Exists, IsDir, IsPlain

Sound(t) == t \in Tree /\ WellFormed(t)
\* Nothing but directories was made.
Keeps(t, u) == \A p \in Paths : u[p] # t[p] => t[p] = Absent /\ u[p] = Directory

\* Every missing directory on the way to p is made, and nothing else changes.
LEMMA DirsMade ==
  ASSUME NEW t, Sound(t), NEW p \in Paths \cup {Root}, ~Blocked(t, p)
  PROVE  LET u == WithDirs(t, p) IN
         /\ Sound(u) /\ Keeps(t, u) /\ IsDir(u, p)
         /\ \A q \in Paths : ~IsPrefix(q, p) => u[q] = t[q]
         /\ \A q \in Paths : IsPlain(u, q) <=> IsPlain(t, q)
<1> DEFINE u == WithDirs(t, p)
<1>1. t \in Tree /\ WellFormed(t) /\ p \in Path
  BY PathsArePaths DEF Sound
<1>2. \A q \in Paths : u[q] = IF IsPrefix(q, p) /\ t[q] = Absent THEN Directory ELSE t[q]
  BY DEF WithDirs
<1>3. u \in Tree
  <2>1. \A q \in Paths : t[q] \in Node
    BY <1>1 DEF Tree
  <2>2. Directory \in Node
    BY DEF Node
  <2> QED BY <2>1, <2>2 DEF Tree, WithDirs
<1> HIDE DEF u
<1>4. ASSUME NEW q \in Paths, IsPrefix(q, p)
      PROVE  IsDir(u, q)
  <2>1. ~IsPlain(t, q)
    BY <1>4 DEF Blocked
  <2>2. t[q] = Absent \/ t[q] = Directory
    BY <1>1, <2>1, TreeIs
  <2> QED BY <1>2, <1>3, <1>4, <2>2, TreeIs
<1>5. Keeps(t, u)
  BY <1>2 DEF Keeps
<1>6. \A q \in Paths : ~IsPrefix(q, p) => u[q] = t[q]
  BY <1>2
<1>7. ASSUME NEW q \in Paths
      PROVE  IsPlain(u, q) <=> IsPlain(t, q)
  <2>1. CASE IsPrefix(q, p)
    <3>1. ~IsPlain(u, q)
      BY <1>3, <1>4, <2>1, TreeIs
    <3>2. ~IsPlain(t, q)
      BY <2>1 DEF Blocked
    <3> QED BY <3>1, <3>2
  <2>2. CASE ~IsPrefix(q, p)
    <3>1. u[q] = t[q] /\ At(u, q) = u[q] /\ At(t, q) = t[q]
      BY <1>1, <1>3, <1>6, <2>2, TreeIs
    <3> QED BY <3>1 DEF IsPlain
  <2> QED BY <2>1, <2>2
<1>8. ASSUME NEW q \in Paths, Exists(u, q)
      PROVE  IsDir(u, Dirname(q))
  <2>1. q \in Path /\ Dirname(q) \in Path /\ Dirname(q) \in Paths \cup {Root}
    BY Dirnames, PathsArePaths
  <2>2. CASE Dirname(q) = Root
    BY <1>3, <2>1, <2>2, TreeIs
  <2>3. CASE Dirname(q) \in Paths /\ IsPrefix(q, p)
    <3>1. IsPrefix(Dirname(q), p)
      BY <1>1, <2>1, <2>3, Dirnames, PrefixOrder
    <3> QED BY <1>4, <2>3, <3>1
  <2>4. CASE Dirname(q) \in Paths /\ ~IsPrefix(q, p)
    <3>1. Exists(t, q)
      BY <1>1, <1>3, <1>6, <1>8, <2>4, TreeIs
    <3>2. t[Dirname(q)] = Directory
      BY <1>1, <2>4, <3>1, TreeIs DEF WellFormed
    <3>3. Directory # Absent
      BY DEF Directory, Absent
    <3> QED BY <1>2, <1>3, <2>4, <3>2, <3>3, TreeIs
  <2> QED BY <2>1, <2>2, <2>3, <2>4
<1>9. IsDir(u, p)
  <2>1. CASE p = Root
    BY <1>3, <2>1, TreeIs
  <2>2. CASE p \in Paths
    BY <1>1, <1>4, <2>2, PrefixOrder
  <2> QED BY <2>1, <2>2
<1>10. Sound(u)
  BY <1>3, <1>8 DEF Sound, WellFormed
<1> QED BY <1>5, <1>6, <1>7, <1>9, <1>10 DEF u

\* A file put where no directory stands, below one.
LEMMA FilePut ==
  ASSUME NEW t, Sound(t), NEW p \in Paths, ~IsDir(t, p), IsDir(t, Dirname(p)), NEW d \in Data
  PROVE  LET u == [t EXCEPT ![p] = File(d)] IN
         Sound(u) /\ \A q \in Paths : IsPlain(t, q) => IsPlain(u, q)
<1> DEFINE u == [t EXCEPT ![p] = File(d)]
<1>1. t \in Tree /\ WellFormed(t) /\ File(d) \in Node
  BY NodesAre DEF Sound
<1>2. u \in Tree /\ u[p] = File(d) /\ \A q \in Paths : q # p => u[q] = t[q]
  BY <1>1 DEF Tree
<1> HIDE DEF u
<1>3. IsPlain(u, p)
  BY <1>2, TreeIs DEF IsPlain, File
<1>4. \A q \in Paths : q # p => (IsPlain(t, q) <=> IsPlain(u, q))
  BY <1>1, <1>2, TreeIs DEF IsPlain
<1>5. ASSUME NEW q \in Paths, Exists(u, q)
      PROVE  IsDir(u, Dirname(q))
  <2>1. Dirname(q) \in Paths \cup {Root}
    BY Dirnames
  <2>2. IsDir(t, Dirname(q))
    <3>1. CASE q = p
      BY <3>1
    <3>2. CASE q # p
      BY <1>1, <1>2, <1>5, <3>2, TreeIs DEF WellFormed
    <3> QED BY <3>1, <3>2
  <2>3. CASE Dirname(q) = Root
    BY <1>2, <2>1, <2>3, TreeIs
  <2>4. CASE Dirname(q) \in Paths
    <3>1. Dirname(q) # p
      BY <2>2
    <3> QED BY <1>1, <1>2, <2>2, <2>4, <3>1, TreeIs
  <2> QED BY <2>1, <2>3, <2>4
<1>6. Sound(u)
  BY <1>2, <1>5 DEF Sound, WellFormed
<1> QED BY <1>3, <1>4, <1>6 DEF u

\* A file taken away.
LEMMA FileGone ==
  ASSUME NEW t, Sound(t), NEW p \in Paths, IsPlain(t, p)
  PROVE  LET u == [t EXCEPT ![p] = Absent] IN
         Sound(u) /\ \A q \in Paths : IsPlain(t, q) /\ q # p => IsPlain(u, q)
<1> DEFINE u == [t EXCEPT ![p] = Absent]
<1>1. t \in Tree /\ WellFormed(t) /\ Absent \in Node
  BY DEF Sound, Node
<1>2. u \in Tree /\ u[p] = Absent /\ \A q \in Paths : q # p => u[q] = t[q]
  BY <1>1 DEF Tree
<1> HIDE DEF u
<1>3. \A q \in Paths : q # p => (IsPlain(t, q) <=> IsPlain(u, q))
  BY <1>1, <1>2, TreeIs DEF IsPlain
<1>4. ASSUME NEW q \in Paths, Exists(u, q)
      PROVE  IsDir(u, Dirname(q))
  <2>1. Dirname(q) \in Paths \cup {Root} /\ q # p
    BY <1>2, <1>4, Dirnames, TreeIs
  <2>2. IsDir(t, Dirname(q))
    BY <1>1, <1>2, <1>4, <2>1, TreeIs DEF WellFormed
  <2>3. CASE Dirname(q) = Root
    BY <1>2, <2>1, <2>3, TreeIs
  <2>4. CASE Dirname(q) \in Paths
    <3>1. Dirname(q) # p
      BY <1>1, <2>2, TreeIs
    <3> QED BY <1>1, <1>2, <2>2, <2>4, <3>1, TreeIs
  <2> QED BY <2>1, <2>3, <2>4
<1>5. Sound(u)
  BY <1>2, <1>4 DEF Sound, WellFormed
<1> QED BY <1>3, <1>5 DEF u

\* What stands below d makes d a directory with something in it.
LEMMA Chain ==
  ASSUME NEW t, Sound(t), NEW d \in Paths \cup {Root}, NEW p \in Paths, Exists(t, p),
         IsPrefix(d, p), d # p
  PROVE  IsDir(t, d) /\ Children(t, d) # {}
<1> DEFINE Holds(n) == \A q \in Paths : Exists(t, q) /\ IsPrefix(d, q) /\ Len(q) = Len(d) + 1 + n
                                          => IsDir(t, d) /\ Children(t, d) # {}
           S == {n \in Nat : Holds(n)}
<1>1. t \in Tree /\ WellFormed(t) /\ d \in Path /\ Len(d) \in Nat
  BY PathsArePaths DEF Sound, Path
<1>2. ASSUME NEW n \in Nat, NEW q \in Paths, Exists(t, q), IsPrefix(d, q), Len(q) = Len(d) + 1 + n
      PROVE  /\ Dirname(q) \in Paths \cup {Root} /\ Dirname(q) \in Path /\ IsDir(t, Dirname(q))
             /\ IsPrefix(d, Dirname(q)) /\ Len(Dirname(q)) = Len(d) + n
  <2>1. q \in Path /\ q # Root
    BY PathsArePaths
  <2>2. Dirname(q) \in Paths \cup {Root} /\ Dirname(q) \in Path
    BY Dirnames
  <2>3. IsDir(t, Dirname(q))
    BY <1>1, <1>2 DEF WellFormed
  <2>4. Len(Dirname(q)) = Len(q) - 1 /\ Len(q) \in Nat
    BY <2>1, FrontIs DEF Dirname
  <2>5. d # q
    BY <1>1, <1>2
  <2>6. IsPrefix(d, Dirname(q))
    BY <1>1, <1>2, <2>1, <2>5, PrefixOfFront DEF Dirname
  <2>7. Len(Dirname(q)) = Len(d) + n
    BY <1>1, <1>2, <2>4
  <2> QED BY <2>2, <2>3, <2>6, <2>7
<1>3. 0 \in S
  <2>1. ASSUME NEW q \in Paths, Exists(t, q), IsPrefix(d, q), Len(q) = Len(d) + 1 + 0
        PROVE  IsDir(t, d) /\ Children(t, d) # {}
    <3>1. /\ Dirname(q) \in Path /\ IsDir(t, Dirname(q)) /\ IsPrefix(d, Dirname(q))
          /\ Len(Dirname(q)) = Len(d) + 0
      BY <1>2, <2>1
    <3>2. Dirname(q) = d
      BY <1>1, <3>1, PrefixOrder
    <3>3. q \in Children(t, d)
      BY <2>1, <3>2 DEF Children
    <3> QED BY <3>1, <3>2, <3>3
  <2> QED BY <2>1
<1>4. ASSUME NEW n \in Nat, n \in S
      PROVE  n + 1 \in S
  <2>1. ASSUME NEW q \in Paths, Exists(t, q), IsPrefix(d, q), Len(q) = Len(d) + 1 + (n + 1)
        PROVE  IsDir(t, d) /\ Children(t, d) # {}
    <3>1. /\ Dirname(q) \in Paths \cup {Root} /\ Dirname(q) \in Path /\ IsDir(t, Dirname(q))
          /\ IsPrefix(d, Dirname(q)) /\ Len(Dirname(q)) = Len(d) + (n + 1)
      <4>1. n + 1 \in Nat
        OBVIOUS
      <4> QED BY <1>2, <2>1, <4>1
    <3>2. Dirname(q) # Root
      <4>1. Len(Root) = 0 /\ Len(d) + (n + 1) # 0
        BY <1>1 DEF Root
      <4> QED BY <3>1, <4>1
    <3>3. Len(Dirname(q)) = Len(d) + 1 + n
      BY <1>1, <3>1
    <3>4. Exists(t, Dirname(q))
      BY <1>1, <3>1, TreeIs
    <3>5. Holds(n)
      BY <1>4
    <3> QED BY <3>1, <3>2, <3>3, <3>4, <3>5
  <2>2. Holds(n + 1)
    BY <2>1
  <2>3. n + 1 \in Nat
    OBVIOUS
  <2> HIDE DEF Holds
  <2> QED BY <2>2, <2>3
<1>5. \A n \in Nat : n \in S
  <2> HIDE DEF S
  <2> QED BY <1>3, <1>4, Induction
<1>6. p \in Path /\ Len(p) \in Nat
  BY PathsArePaths DEF Path
<1>7. Len(d) =< Len(p) /\ Len(d) # Len(p)
  BY <1>1, <1>6, PrefixOrder
<1> DEFINE n == Len(p) - Len(d) - 1
<1>8. n \in Nat /\ Len(p) = Len(d) + 1 + n
  BY <1>1, <1>6, <1>7
<1> HIDE DEF n
<1>9. Holds(n)
  BY <1>5, <1>8
<1> QED BY <1>8, <1>9

\* A move takes what it finds to its new place, and what was there before is no file
\* of anyone else.
LEMMA MoveSound ==
  ASSUME NEW t, Sound(t), NEW src \in Paths \cup {Root}, NEW dst \in Paths \cup {Root},
         IsDir(t, Dirname(dst)), MoveWorks(t, src, dst)
  PROVE  LET u == Moved(t, src, dst) IN
         /\ Sound(u)
         /\ \A p \in Paths : IsPlain(t, p) /\ ~IsPlain(u, p) => IsPrefix(src, p)
<1> DEFINE u == Moved(t, src, dst)
<1>1. /\ t \in Tree /\ WellFormed(t) /\ src \in Path /\ dst \in Path
      /\ \A p \in Paths : p \in Path /\ t[p] \in Node
  BY PathsArePaths DEF Sound, Tree
<1>2. CASE src = dst
  <2>1. u = [p \in Paths |-> t[p]]
    BY <1>2 DEF Moved
  <2>2. u = t
    BY <1>1, <2>1 DEF Tree
  <2> QED BY <2>2
<1>3. CASE src # dst
  <2>1. \A p \in Paths : IsPrefix(dst, p) =>
          u[p] = IF Rebase(src, dst, p) \in Paths THEN t[Rebase(src, dst, p)] ELSE Absent
    BY <1>3 DEF Moved, Rebase
  <2>2. \A p \in Paths : ~IsPrefix(dst, p) /\ IsPrefix(src, p) => u[p] = Absent
    BY <1>3 DEF Moved
  <2>3. \A p \in Paths : ~IsPrefix(dst, p) /\ ~IsPrefix(src, p) => u[p] = t[p]
    BY <1>3 DEF Moved
  <2>4. u \in Tree
    <3>1. Absent \in Node
      BY DEF Node
    <3>2. \A p \in Paths : u[p] \in Node
      BY <1>1, <2>1, <2>2, <2>3, <3>1
    <3>3. u = [p \in Paths |-> u[p]]
      BY DEF Moved
    <3> QED BY <3>2, <3>3 DEF Tree
  <2> HIDE DEF u
  <2>5. \/ IsPlain(t, src) /\ ~IsDir(t, dst)
        \/ /\ IsDir(t, src) /\ ~IsPrefix(src, dst)
           /\ ~Exists(t, dst) \/ (IsDir(t, dst) /\ Children(t, dst) = {})
    BY <1>3 DEF MoveWorks, Below
  <2>6. src \in Paths
    <3>1. src # Root
      BY <1>1, <2>5, PrefixOrder, TreeIs
    <3> QED BY <3>1
  <2>7. Exists(t, src)
    BY <1>1, <2>5, TreeIs
  <2>8. dst \in Paths
    <3>1. ASSUME dst = Root
          PROVE  FALSE
      <4>1. IsDir(t, dst) /\ Exists(t, dst)
        BY <1>1, <3>1, TreeIs
      <4>2. IsPrefix(dst, src)
        BY <1>1, <3>1, PrefixOrder
      <4>3. Children(t, dst) # {}
        BY <1>3, <2>6, <2>7, <4>2, Chain
      <4> QED BY <2>5, <4>1, <4>3
    <3> QED BY <3>1
  <2>9. /\ Dirname(dst) \in Path /\ Dirname(dst) \in Paths \cup {Root}
        /\ ~IsPrefix(dst, Dirname(dst)) /\ IsPrefix(Dirname(dst), dst)
    BY <2>8, Dirnames
  <2>10. ~IsPrefix(src, Dirname(dst))
    <3>1. ASSUME IsPrefix(src, Dirname(dst))
          PROVE  FALSE
      <4>1. IsPrefix(src, dst)
        BY <1>1, <2>9, <3>1, PrefixOrder
      <4>2. IsPlain(t, src)
        BY <2>5, <4>1
      <4>3. Dirname(dst) # Root
        <5>1. ASSUME Dirname(dst) = Root
              PROVE  src = Root
          <6>1. IsPrefix(src, Root) /\ IsPrefix(Root, src) /\ Root \in Path
            BY <1>1, <2>9, <3>1, <5>1, PrefixOrder
          <6> QED BY <1>1, <6>1, PrefixOrder
        <5> QED BY <2>6, <5>1, PathsArePaths
      <4>4. src = Dirname(dst) \/ IsDir(t, src)
        <5>1. ASSUME src # Dirname(dst)
              PROVE  IsDir(t, src)
          <6>1. Dirname(dst) \in Paths /\ Exists(t, Dirname(dst))
            BY <1>1, <2>9, <4>3, TreeIs
          <6> QED BY <2>6, <3>1, <5>1, <6>1, Chain
        <5> QED BY <5>1
      <4> QED BY <1>1, <2>6, <4>2, <4>4, TreeIs
    <3> QED BY <3>1
  <2>11. ASSUME NEW p \in Paths, Exists(u, p)
         PROVE  IsDir(u, Dirname(p))
    <3>1. u[p] # Absent /\ p \in Path
      BY <1>1, <2>4, <2>11, TreeIs
    <3>2. Dirname(p) \in Paths \cup {Root} /\ Dirname(p) \in Path /\ IsPrefix(Dirname(p), p)
      BY Dirnames
    <3>3. CASE Dirname(p) = Root
      BY <2>4, <3>2, <3>3, TreeIs
    <3>4. CASE Dirname(p) \in Paths /\ IsPrefix(dst, p)
      <4> DEFINE q == Rebase(src, dst, p)
      <4>1. q \in Paths /\ t[q] # Absent
        BY <2>1, <3>1, <3>4
      <4>2. CASE p = dst
        <5>1. u[Dirname(p)] = t[Dirname(p)]
          BY <2>3, <2>9, <2>10, <3>4, <4>2
        <5> QED BY <1>1, <2>4, <3>4, <4>2, <5>1, TreeIs
      <4>3. CASE p # dst
        <5>1. /\ q # src /\ IsPrefix(src, q) /\ IsPrefix(dst, Dirname(p))
              /\ Dirname(q) = Rebase(src, dst, Dirname(p)) /\ q # Root
          BY <1>1, <3>1, <3>4, <4>3, RebasedPath DEF Dirname
        <5> HIDE DEF q
        <5>2. IsDir(t, Dirname(q))
          <6>1. Exists(t, q)
            BY <1>1, <4>1, TreeIs
          <6> QED BY <1>1, <4>1, <6>1 DEF WellFormed
        <5>3. Dirname(q) \in Paths
          <6>1. IsPrefix(src, Dirname(q)) /\ q \in Path
            BY <1>1, <4>1, <5>1, PrefixOfFront DEF Dirname
          <6>2. Dirname(q) # Root
            <7>1. ASSUME Dirname(q) = Root
                  PROVE  src = Root
              <8>1. IsPrefix(src, Root) /\ IsPrefix(Root, src) /\ Root \in Path
                BY <1>1, <6>1, <7>1, Dirnames, <4>1, PrefixOrder
              <8> QED BY <1>1, <8>1, PrefixOrder
            <7> QED BY <2>6, <7>1, PathsArePaths
          <6> QED BY <4>1, <6>2, Dirnames
        <5>4. u[Dirname(p)] = t[Dirname(q)]
          BY <2>1, <3>4, <5>1, <5>3
        <5> QED BY <1>1, <2>4, <3>4, <5>2, <5>3, <5>4, TreeIs
      <4> QED BY <4>2, <4>3
    <3>5. CASE Dirname(p) \in Paths /\ ~IsPrefix(dst, p)
      <4>1. ~IsPrefix(src, p) /\ u[p] = t[p]
        BY <2>2, <2>3, <3>1, <3>5
      <4>2. ~IsPrefix(src, Dirname(p)) /\ ~IsPrefix(dst, Dirname(p))
        BY <1>1, <3>1, <3>2, <3>5, <4>1, PrefixOrder
      <4>3. Exists(t, p)
        BY <1>1, <3>1, <4>1, TreeIs
      <4>4. t[Dirname(p)] = Directory
        BY <1>1, <3>5, <4>3, TreeIs DEF WellFormed
      <4> QED BY <2>3, <2>4, <3>5, <4>2, <4>4, TreeIs
    <3> QED BY <3>2, <3>3, <3>4, <3>5
  <2>12. ASSUME NEW p \in Paths, IsPlain(t, p), ~IsPlain(u, p)
         PROVE  IsPrefix(src, p)
    <3>1. SUFFICES ASSUME ~IsPrefix(src, p)
                   PROVE  FALSE
      OBVIOUS
    <3>2. IsPrefix(dst, p)
      <4>1. ASSUME ~IsPrefix(dst, p)
            PROVE  FALSE
        <5>1. u[p] = t[p] /\ At(u, p) = At(t, p)
          BY <1>1, <2>3, <2>4, <3>1, <4>1, TreeIs
        <5> QED BY <2>12, <5>1 DEF IsPlain
      <4> QED BY <4>1
    <3>3. CASE p = dst
      <4>1. Exists(t, dst) /\ ~IsDir(t, dst)
        BY <1>1, <2>12, <3>3, TreeIs
      <4>2. IsPlain(t, src)
        BY <2>5, <4>1
      <4>3. Rebase(src, dst, p) = src
        BY <1>1, <3>2, <3>3, RebasedPath
      <4>4. u[p] = t[src]
        BY <2>1, <2>6, <3>2, <4>3
      <4> QED BY <1>1, <2>4, <2>6, <2>12, <4>2, <4>4, TreeIs DEF IsPlain
    <3>4. CASE p # dst
      <4>1. Exists(t, p)
        BY <1>1, <2>12, TreeIs
      <4>2. IsDir(t, dst) /\ Children(t, dst) # {}
        BY <3>2, <3>4, <4>1, Chain
      <4> QED BY <1>1, <2>5, <4>2, TreeIs
    <3> QED BY <3>3, <3>4
  <2>13. Sound(u)
    BY <2>4, <2>11 DEF Sound, WellFormed
  <2> QED BY <2>12, <2>13 DEF u
<1> QED BY <1>2, <1>3

-----------------------------------------------------------------------------
(* The tool's calls                                                        *)

\* What every call keeps, whatever its arguments.
Careful(t, c, a) ==
  /\ a \in [ok : BOOLEAN, tree : Tree, bytes : BOOLEAN] /\ Sound(a.tree)
  /\ ~a.ok => Spares(t, c, a.tree)
  /\ \A p \in Paths : IsPlain(t, p) /\ ~IsPlain(a.tree, p) =>
       \/ c.action = "delete_file" /\ c.path = p
       \/ c.action = "move" /\ IsPrefix(c.path, p)

LEMMA KeptIs ==
  ASSUME NEW t \in Tree, NEW u \in Tree, Keeps(t, u)
  PROVE  \A p \in Paths : IsPlain(t, p) => IsPlain(u, p)
<1> SUFFICES ASSUME NEW p \in Paths, IsPlain(t, p)
             PROVE  IsPlain(u, p)
  OBVIOUS
<1>1. t[p] # Absent
  BY TreeIs
<1>2. u[p] = t[p]
  BY <1>1 DEF Keeps
<1>3. At(t, p) = t[p] /\ At(u, p) = u[p]
  BY TreeIs
<1> QED BY <1>2, <1>3 DEF IsPlain

LEMMA KeepsSpares ==
  ASSUME NEW t, NEW u, Keeps(t, u), NEW c
  PROVE  Spares(t, c, u)
BY DEF Keeps, Spares

LEMMA CarefulIs ==
  ASSUME NEW t, Sound(t), NEW c, NEW ok \in BOOLEAN, NEW bytes \in BOOLEAN, NEW u, Sound(u),
         Keeps(t, u) \/ (ok = TRUE /\ \A p \in Paths : IsPlain(t, p) => IsPlain(u, p))
  PROVE  Careful(t, c, Answer(ok, u, bytes))
<1>1. t \in Tree /\ u \in Tree
  BY DEF Sound
<1>2. \A p \in Paths : IsPlain(t, p) => IsPlain(u, p)
  BY <1>1, KeptIs
<1>3. ~ok => Spares(t, c, u)
  BY KeepsSpares
<1> QED BY <1>1, <1>2, <1>3 DEF Careful, Answer

\* A call that leaves the tree alone.
LEMMA Untouched ==
  ASSUME NEW t, Sound(t), NEW c, NEW ok \in BOOLEAN, NEW bytes \in BOOLEAN
  PROVE  Careful(t, c, Answer(ok, t, bytes))
<1>1. Keeps(t, t)
  BY DEF Keeps
<1> QED BY <1>1, CarefulIs

LEMMA FailsIs ==
  ASSUME NEW t, Sound(t), NEW c
  PROVE  Careful(t, c, Fails(t)) /\ Careful(t, c, Done(t))
BY Untouched DEF Fails, Done

LEMMA ReadsCareful ==
  ASSUME NEW t, Sound(t), NEW c \in Calls
  PROVE  /\ Careful(t, c, read_file(t, c)) /\ Careful(t, c, read_text(t, c))
         /\ Careful(t, c, exists(t, c)) /\ Careful(t, c, list_dir(t, c))
         /\ Careful(t, c, search(t, c))
<1>1. IsPlain(t, c.path) \in BOOLEAN /\ IsDir(t, c.path) \in BOOLEAN
  BY DEF IsPlain, IsDir
<1> QED BY <1>1, Untouched, FailsIs DEF read_file, read_text, exists, list_dir, search

LEMMA DirsMadeCareful ==
  ASSUME NEW t, Sound(t), NEW c, NEW p \in Paths \cup {Root}, ~Blocked(t, p)
  PROVE  Careful(t, c, Fails(WithDirs(t, p))) /\ Careful(t, c, Done(WithDirs(t, p)))
BY DirsMade, CarefulIs DEF Fails, Done

LEMMA CallIs ==
  ASSUME NEW c \in Calls
  PROVE  /\ c.path \in Paths \cup {Root} /\ c.dst \in Paths \cup {Root}
         /\ c.action \in Writing => c.data \in Chunks
BY DEF Calls

LEMMA MkdirCareful ==
  ASSUME NEW t, Sound(t), NEW c \in Calls
  PROVE  Careful(t, c, mkdir(t, c))
BY CallIs, FailsIs, DirsMadeCareful DEF mkdir

\* A file put below directories that were made for it.
LEMMA PutCareful ==
  ASSUME NEW t, Sound(t), NEW c, NEW u, Sound(u), Keeps(t, u), NEW p \in Paths,
         ~IsDir(u, p), IsDir(u, Dirname(p)), NEW d \in Data
  PROVE  Careful(t, c, Done([u EXCEPT ![p] = File(d)]))
<1> DEFINE v == [u EXCEPT ![p] = File(d)]
<1>1. Sound(v) /\ \A q \in Paths : IsPlain(u, q) => IsPlain(v, q)
  BY FilePut
<1>2. t \in Tree /\ u \in Tree
  BY DEF Sound
<1>3. \A q \in Paths : IsPlain(t, q) => IsPlain(u, q)
  BY <1>2, KeptIs
<1> HIDE DEF v
<1>4. Careful(t, c, Answer(TRUE, v, FALSE))
  BY <1>1, <1>3, CarefulIs
<1> QED BY <1>4 DEF v, Done

LEMMA DataIs ==
  /\ <<>> \in Data
  /\ \A d \in Data : d \in Seq(Pieces)
  /\ \A d \in Data, x \in Pieces : Len(d) < MaxChunks => Append(d, x) \in Data
<1> USE ChunksAssumption
<1>1. <<>> \in [1..0 -> Pieces] /\ 0 \in 0..MaxChunks
  OBVIOUS
<1>2. \A d : d \in Data <=> \E m \in 0..MaxChunks : d \in [1..m -> Pieces]
  BY DEF Data, BoundedSeq, SeqOf
<1>3. ASSUME NEW d \in Data
      PROVE  d \in Seq(Pieces)
  <2>1. PICK m \in 0..MaxChunks : d \in [1..m -> Pieces]
    BY <1>2
  <2> QED BY <2>1
<1>4. ASSUME NEW d \in Data, NEW x \in Pieces, Len(d) < MaxChunks
      PROVE  Append(d, x) \in Data
  <2>1. Append(d, x) \in Seq(Pieces) /\ Len(Append(d, x)) = Len(d) + 1 /\ Len(d) \in Nat
    BY <1>3
  <2>2. Len(Append(d, x)) \in 0..MaxChunks
    BY <1>4, <2>1
  <2>3. Append(d, x) \in [1..Len(Append(d, x)) -> Pieces]
    <3> DEFINE e == Append(d, x)
    <3>1. e \in Seq(Pieces)
      BY <2>1
    <3> HIDE DEF e
    <3>2. e \in [1..Len(e) -> Pieces]
      BY <3>1
    <3> QED BY <3>2 DEF e
  <2> QED BY <1>2, <2>2, <2>3
<1> QED BY <1>1, <1>2, <1>3, <1>4

LEMMA PrefixOfJoin ==
  ASSUME NEW S, NEW s \in Seq(S), NEW r \in Seq(S)
  PROVE  IsPrefix(s, s \o r)
<1>1. /\ s \o r \in Seq(S) /\ Len(s \o r) = Len(s) + Len(r) /\ Len(s) \in Nat /\ Len(r) \in Nat
      /\ \A i \in 1..Len(s) : (s \o r)[i] = s[i]
  OBVIOUS
<1> DEFINE w == s \o r
<1> HIDE DEF w
<1>2. /\ SubSeq(s, 1, Len(s)) \in Seq(S) /\ Len(SubSeq(s, 1, Len(s))) = Len(s)
      /\ \A i \in 1..Len(s) : SubSeq(s, 1, Len(s))[i] = s[i]
  BY <1>1
<1>3. /\ SubSeq(w, 1, Len(s)) \in Seq(S) /\ Len(SubSeq(w, 1, Len(s))) = Len(s)
      /\ \A i \in 1..Len(s) : SubSeq(w, 1, Len(s))[i] = w[i]
  BY <1>1 DEF w
<1>4. SubSeq(s, 1, Len(s)) = SubSeq(w, 1, Len(s))
  <2>1. \A i \in 1..Len(s) : SubSeq(s, 1, Len(s))[i] = SubSeq(w, 1, Len(s))[i]
    BY <1>1, <1>2, <1>3 DEF w
  <2> QED BY <1>2, <1>3, <2>1, SeqEqual
<1> QED BY <1>1, <1>4 DEF w, IsPrefix

LEMMA OnePiece == \A x \in Pieces : <<x>> \in Data
<1>1. \A x : Len(<<>>) < MaxChunks /\ Append(<<>>, x) = <<x>>
  BY ChunksAssumption
<1> QED BY <1>1, DataIs

\* Writing: the directories above the file are made, and the file is not one of them.
LEMMA ParentMade ==
  ASSUME NEW t, Sound(t), NEW p \in Paths \cup {Root}, ~Blocked(t, Dirname(p)), ~IsDir(t, p)
  PROVE  LET u == WithDirs(t, Dirname(p)) IN
         /\ p \in Paths /\ Sound(u) /\ Keeps(t, u) /\ IsDir(u, Dirname(p))
         /\ u[p] = t[p] /\ ~IsDir(u, p)
<1>1. t \in Tree
  BY DEF Sound
<1>2. p \in Paths
  <2>1. p # Root
    BY <1>1, TreeIs
  <2> QED BY <2>1
<1>3. Dirname(p) \in Paths \cup {Root} /\ ~IsPrefix(p, Dirname(p))
  BY <1>2, Dirnames
<1> DEFINE u == WithDirs(t, Dirname(p))
<1>4. Sound(u) /\ Keeps(t, u) /\ IsDir(u, Dirname(p)) /\ u[p] = t[p]
  BY <1>2, <1>3, DirsMade
<1> HIDE DEF u
<1>5. ~IsDir(u, p)
  <2>1. u \in Tree
    BY <1>4 DEF Sound
  <2> QED BY <1>1, <1>2, <1>4, <2>1, TreeIs
<1> QED BY <1>2, <1>4, <1>5 DEF u

LEMMA WriteCareful ==
  ASSUME NEW t, Sound(t), NEW c \in Calls, c.action = "write_file"
  PROVE  Careful(t, c, write_file(t, c))
<1>1. c.path \in Paths \cup {Root} /\ c.data \in Pieces
  <2>1. "write_file" \in Writing
    BY DEF Writing
  <2> QED BY <2>1, CallIs DEF Pieces
<1>2. CASE Blocked(t, Dirname(c.path)) \/ IsDir(t, c.path)
  BY <1>2, FailsIs DEF write_file
<1>3. CASE ~Blocked(t, Dirname(c.path)) /\ ~IsDir(t, c.path)
  <2> DEFINE u == WithDirs(t, Dirname(c.path))
  <2>1. /\ c.path \in Paths /\ Sound(u) /\ Keeps(t, u) /\ IsDir(u, Dirname(c.path))
        /\ ~IsDir(u, c.path)
    BY <1>1, <1>3, ParentMade
  <2>2. <<c.data>> \in Data
    BY <1>1, OnePiece
  <2> HIDE DEF u
  <2>3. Careful(t, c, Done([u EXCEPT ![c.path] = File(<<c.data>>)]))
    BY <2>1, <2>2, PutCareful
  <2> QED BY <1>3, <2>3 DEF write_file, u
<1> QED BY <1>2, <1>3

LEMMA AppendCareful ==
  ASSUME NEW t, Sound(t), NEW c \in Calls, c.action = "append_file", Representable(t, c)
  PROVE  Careful(t, c, append_file(t, c))
<1>1. c.path \in Paths \cup {Root} /\ c.data \in Pieces
  <2>1. "append_file" \in Writing
    BY DEF Writing
  <2> QED BY <2>1, CallIs DEF Pieces
<1>2. CASE Blocked(t, Dirname(c.path)) \/ IsDir(t, c.path)
  BY <1>2, FailsIs DEF append_file
<1>3. CASE ~Blocked(t, Dirname(c.path)) /\ ~IsDir(t, c.path)
  <2> DEFINE u == WithDirs(t, Dirname(c.path))
  <2>1. /\ c.path \in Paths /\ Sound(u) /\ Keeps(t, u) /\ IsDir(u, Dirname(c.path))
        /\ u[c.path] = t[c.path] /\ ~IsDir(u, c.path)
    BY <1>1, <1>3, ParentMade
  <2> HIDE DEF u
  <2>2. t \in Tree /\ u \in Tree
    BY <2>1 DEF Sound
  <2> DEFINE d == u[c.path].data
  <2>3. d \in Data /\ Len(d) < MaxChunks
    <3>1. At(t, c.path) = u[c.path] /\ u[c.path] \in Node /\ u[c.path] # Directory
      BY <2>1, <2>2, TreeIs
    <3>2. u[c.path] = Absent \/ \E e \in Data : u[c.path] = File(e)
      BY <3>1, NodesAre
    <3>3. d \in Data
      <4>1. Absent.data = <<>> /\ \A e : File(e).data = e
        BY DEF Absent, File
      <4>2. <<>> \in Data
        BY DataIs
      <4> QED BY <3>2, <4>1, <4>2
    <3>4. Len(d) < MaxChunks
      BY <3>1 DEF Representable
    <3> QED BY <3>3, <3>4
  <2>4. Append(d, c.data) \in Data
    BY <1>1, <2>3, DataIs
  <2>5. Careful(t, c, Done([u EXCEPT ![c.path] = File(Append(d, c.data))]))
    <3> DEFINE e == Append(d, c.data)
    <3>1. e \in Data
      BY <2>4
    <3> HIDE DEF e
    <3>2. Careful(t, c, Done([u EXCEPT ![c.path] = File(e)]))
      BY <2>1, <3>1, PutCareful
    <3> QED BY <3>2 DEF e
  <2>6. [u EXCEPT ![c.path] = File(Append(d, c.data))]
          = [u EXCEPT ![c.path] = File(Append(@.data, c.data))]
    OBVIOUS
  <2> QED BY <1>3, <2>5, <2>6 DEF append_file, u
<1> QED BY <1>2, <1>3

LEMMA DeleteCareful ==
  ASSUME NEW t, Sound(t), NEW c \in Calls, c.action = "delete_file"
  PROVE  Careful(t, c, delete_file(t, c))
<1>1. c.path \in Paths \cup {Root} /\ t \in Tree
  BY CallIs DEF Sound
<1>2. CASE IsPlain(t, c.path)
  <2>1. c.path \in Paths
    BY <1>1, <1>2, TreeIs
  <2> DEFINE u == [t EXCEPT ![c.path] = Absent]
  <2>2. Sound(u) /\ \A q \in Paths : IsPlain(t, q) /\ q # c.path => IsPlain(u, q)
    BY <1>2, <2>1, FileGone
  <2> HIDE DEF u
  <2>3. Careful(t, c, Answer(TRUE, u, FALSE))
    BY <2>2 DEF Careful, Answer, Sound
  <2> QED BY <1>2, <2>3 DEF delete_file, Done, u
<1>3. CASE ~IsPlain(t, c.path)
  BY <1>3, FailsIs DEF delete_file
<1> QED BY <1>2, <1>3

\* Where a copy goes there is a directory for it.
LEMMA CopyPlace ==
  ASSUME NEW t \in Tree, NEW u, NEW c \in Calls, c.path \in Paths \cup {Root}, c.dst \in Paths \cup {Root},
         IsPlain(t, c.path), IsDir(u, Dirname(c.dst))
  PROVE  IsDir(u, Dirname(CopyTarget(u, c)))
  <1>1. CASE IsDir(u, c.dst)
    <2>1. CopyTarget(u, c) = Append(c.dst, Last(c.path))
      BY <1>1 DEF CopyTarget
    <2>2. c.dst \in Path /\ c.path \in Path /\ c.path # Root
      BY PathsArePaths, TreeIs
    <2>3. Last(c.path) \in STRING
      <3>1. Len(c.path) \in Nat /\ Len(c.path) # 0 /\ Len(c.path) \in 1..Len(c.path)
        BY <2>2, EmptySeq DEF Path, Root
      <3> QED BY <2>2, <3>1 DEF Last, Path
    <2>4. Dirname(CopyTarget(u, c)) = c.dst
      <3> DEFINE x == Last(c.path)
      <3>1. x \in STRING
        BY <2>3
      <3> HIDE DEF x
      <3>2. Front(Append(c.dst, x)) = c.dst
        BY <2>2, <3>1 DEF Front, Path
      <3> QED BY <2>1, <3>2 DEF x, Dirname
    <2> QED BY <1>1, <2>4
  <1>2. CASE ~IsDir(u, c.dst)
    BY <1>2 DEF CopyTarget
  <1> QED BY <1>1, <1>2

LEMMA CopyCareful ==
  ASSUME NEW t, Sound(t), NEW c \in Calls, c.action = "copy", Representable(t, c)
  PROVE  Careful(t, c, copy(t, c))
<1> DEFINE u == WithDirs(t, Dirname(c.dst))
           target == CopyTarget(u, c)
<1>1. /\ c.path \in Paths \cup {Root} /\ c.dst \in Paths \cup {Root}
      /\ Dirname(c.dst) \in Paths \cup {Root} /\ t \in Tree
  BY CallIs, Dirnames DEF Sound
<1>2. target \in Paths
  BY DEF Representable
<1>3. CASE Blocked(t, Dirname(c.dst))
  BY <1>3, FailsIs DEF copy
<1>4. CASE ~Blocked(t, Dirname(c.dst))
           /\ (~IsPlain(t, c.path) \/ target = c.path \/ IsDir(u, target))
  <2>1. copy(t, c) = Fails(u)
    BY <1>4 DEF copy
  <2> QED BY <1>1, <1>4, <2>1, DirsMadeCareful
<1>5. CASE ~Blocked(t, Dirname(c.dst)) /\ IsPlain(t, c.path) /\ target # c.path /\ ~IsDir(u, target)
  <2>1. copy(t, c) = Done([u EXCEPT ![target] = t[c.path]])
    BY <1>5 DEF copy
  <2>2. Sound(u) /\ Keeps(t, u) /\ IsDir(u, Dirname(c.dst))
    BY <1>1, <1>5, DirsMade
  <2>3. IsDir(u, Dirname(target))
    BY <1>1, <1>5, <2>2, CopyPlace
  <2>4. PICK d \in Data : t[c.path] = File(d)
    <3>1. c.path \in Paths
      BY <1>1, <1>5, TreeIs
    <3>2. At(t, c.path) = t[c.path] /\ t[c.path] \in Node
      BY <1>1, <3>1, TreeIs
    <3> QED BY <1>5, <3>2, NodeIs DEF IsPlain
  <2> HIDE DEF target, u
  <2>5. Careful(t, c, Done([u EXCEPT ![target] = File(d)]))
    BY <1>2, <1>5, <2>2, <2>3, PutCareful
  <2> QED BY <2>1, <2>4, <2>5
<1> QED BY <1>3, <1>4, <1>5

LEMMA MoveCareful ==
  ASSUME NEW t, Sound(t), NEW c \in Calls, c.action = "move"
  PROVE  Careful(t, c, move(t, c))
<1> DEFINE u == WithDirs(t, Dirname(c.dst))
           v == Moved(u, c.path, c.dst)
<1>1. /\ c.path \in Paths \cup {Root} /\ c.dst \in Paths \cup {Root}
      /\ Dirname(c.dst) \in Paths \cup {Root}
  BY CallIs, Dirnames
<1>2. CASE Blocked(t, Dirname(c.dst))
  BY <1>2, FailsIs DEF move
<1>3. CASE ~Blocked(t, Dirname(c.dst)) /\ ~MoveWorks(u, c.path, c.dst)
  <2>1. move(t, c) = Fails(u)
    BY <1>3 DEF move
  <2> QED BY <1>1, <1>3, <2>1, DirsMadeCareful
<1>4. CASE ~Blocked(t, Dirname(c.dst)) /\ MoveWorks(u, c.path, c.dst)
  <2>1. /\ Sound(u) /\ IsDir(u, Dirname(c.dst))
        /\ \A q \in Paths : IsPlain(u, q) <=> IsPlain(t, q)
    BY <1>1, <1>4, DirsMade
  <2>2. move(t, c) = Done(v)
    BY <1>4 DEF move
  <2> HIDE DEF u
  <2>3. Sound(v) /\ \A p \in Paths : IsPlain(u, p) /\ ~IsPlain(v, p) => IsPrefix(c.path, p)
    BY <1>1, <1>4, <2>1, MoveSound
  <2> HIDE DEF v
  <2>4. Careful(t, c, Answer(TRUE, v, FALSE))
    BY <2>1, <2>3 DEF Careful, Answer, Sound
  <2> QED BY <2>2, <2>4 DEF Done
<1> QED BY <1>2, <1>3, <1>4

LEMMA ExecutedCareful ==
  ASSUME NEW t, Sound(t), NEW c \in Calls, Representable(t, c)
  PROVE  Careful(t, c, execute(t, c))
<1>1. CASE c.fit # "fits"
  BY <1>1, FailsIs DEF execute
<1>2. CASE c.fit = "fits"
  <2>1. CASE c.action \in {"read_file", "read_text", "exists", "list_dir", "search"}
    BY <1>2, <2>1, ReadsCareful DEF execute
  <2>2. CASE c.action = "write_file"
    BY <1>2, <2>2, WriteCareful DEF execute
  <2>3. CASE c.action = "append_file"
    BY <1>2, <2>3, AppendCareful DEF execute
  <2>4. CASE c.action = "delete_file"
    BY <1>2, <2>4, DeleteCareful DEF execute
  <2>5. CASE c.action = "mkdir"
    BY <1>2, <2>5, MkdirCareful DEF execute
  <2>6. CASE c.action = "copy"
    BY <1>2, <2>6, CopyCareful DEF execute
  <2>7. CASE c.action = "move"
    BY <1>2, <2>7, MoveCareful DEF execute
  <2>8. CASE c.action \notin {"read_file", "read_text", "exists", "list_dir", "search", "write_file",
                              "append_file", "delete_file", "mkdir", "copy", "move"}
    BY <1>2, <2>8, FailsIs DEF execute
  <2> QED BY <2>1, <2>2, <2>3, <2>4, <2>5, <2>6, <2>7, <2>8
<1> QED BY <1>1, <1>2

-----------------------------------------------------------------------------
(* Calls that are interrupted                                              *)

LEMMA ParentIs ==
  ASSUME NEW c \in Calls
  PROVE  Parent(c) \in Paths \cup {Root}
BY CallIs, Dirnames DEF Parent

LEMMA RefusedCareful ==
  ASSUME NEW t, Sound(t), NEW c \in Calls, ~Blocked(t, Parent(c)), NEW a \in Refused(t, c)
  PROVE  Careful(t, c, a)
<1>1. PICK q \in Paths \cup {Root} : IsPrefix(q, Parent(c)) /\ a = Fails(WithDirs(t, q))
  BY DEF Refused
<1>2. ~Blocked(t, q)
  <2>1. q \in Path /\ Parent(c) \in Path /\ \A r \in Paths : r \in Path
    BY ParentIs, PathsArePaths
  <2> QED BY <1>1, <2>1, PrefixOrder DEF Blocked
<1> QED BY <1>1, <1>2, DirsMadeCareful

\* The file a call opens has a directory and is none.
LEMMA OpensIs ==
  ASSUME NEW t, Sound(t), NEW c \in Calls, Representable(t, c), ~Blocked(t, Parent(c)), Opens(t, c)
  PROVE  LET u == WithDirs(t, Parent(c))
             p == Target(t, c)
         IN /\ p \in Paths /\ Sound(u) /\ Keeps(t, u) /\ ~IsDir(u, p) /\ IsDir(u, Dirname(p))
            /\ p \in Destinations(c) /\ (c.action = "append_file" => p = c.path)
<1> DEFINE u == WithDirs(t, Parent(c))
           p == Target(t, c)
<1>1. Sound(u) /\ Keeps(t, u) /\ IsDir(u, Parent(c)) /\ t \in Tree /\ u \in Tree
  BY ParentIs, DirsMade DEF Sound
<1>2. ~IsDir(u, p) /\ c.action \in Writing \cup {"copy"}
  BY DEF Opens
<1>3. c.path \in Paths \cup {Root} /\ c.dst \in Paths \cup {Root}
  BY CallIs
<1>4. CASE c.action \in Writing
  <2>1. p = c.path /\ Parent(c) = Dirname(c.path) /\ p \in Destinations(c)
    BY <1>4 DEF Target, Parent, Destinations, Writing
  <2>2. p \in Paths
    BY <1>1, <1>2, <1>3, <2>1, TreeIs
  <2> QED BY <1>1, <1>2, <2>1, <2>2
<1>5. CASE c.action = "copy"
  <2>1. Parent(c) = Dirname(c.dst) /\ p = CopyTarget(u, c) /\ IsPlain(t, c.path)
    BY <1>5 DEF Target, Parent, Opens, Writing
  <2>2. p \in Paths
    BY <1>5, <2>1 DEF Representable
  <2>3. p \in Destinations(c)
    BY <1>5, <2>1 DEF Destinations, CopyTarget, Writing
  <2> HIDE DEF u, p
  <2>4. IsDir(u, Dirname(p))
    BY <1>1, <1>3, <2>1, CopyPlace
  <2> QED BY <1>1, <1>2, <1>5, <2>2, <2>3, <2>4 DEF u, p
<1> QED BY <1>2, <1>4, <1>5

\* What was kept and what was written fit a file.
LEMMA CutData ==
  ASSUME NEW t, Sound(t), NEW c \in Calls, Representable(t, c), Opens(t, c),
         NEW written \in Written(t, c)
  PROVE  Kept(t, c) \o written \in Data
<1> DEFINE kept == Kept(t, c)
<1>1. t \in Tree /\ c.path \in Paths \cup {Root}
  BY CallIs DEF Sound
<1>2. \A n \in Node : n.data \in Data
  <2>1. Absent.data = <<>> /\ Directory.data = <<>> /\ \A e : File(e).data = e
    BY DEF Absent, Directory, File
  <2>2. ASSUME NEW n \in Node
        PROVE  n.data \in Data
    <3>1. n = Absent \/ n = Directory \/ \E e \in Data : n = File(e)
      BY NodesAre
    <3> QED BY <2>1, <3>1, DataIs
  <2> QED BY <2>2
<1>3. kept \in Data /\ (kept = <<>> \/ Len(kept) < MaxChunks)
  <2>1. CASE c.action = "append_file"
    <3>1. kept = At(t, c.path).data
      BY <2>1 DEF Kept
    <3>2. At(t, c.path) \in Node
      BY <1>1, TreeIs
    <3>3. Len(At(t, c.path).data) < MaxChunks
      BY <2>1 DEF Representable
    <3> QED BY <1>2, <3>1, <3>2, <3>3
  <2>2. CASE c.action # "append_file"
    BY <2>2, DataIs DEF Kept
  <2> QED BY <2>1, <2>2
<1> HIDE DEF kept
<1>4. \A x \in Pieces : kept \o <<x>> \in Data
  <2> TAKE x \in Pieces
  <2>1. kept \in Seq(Pieces)
    BY <1>3, DataIs
  <2>2. kept \o <<x>> = Append(kept, x)
    BY <2>1
  <2>3. Len(kept) < MaxChunks
    <3>1. kept = <<>> => Len(kept) = 0
      OBVIOUS
    <3> QED BY <1>3, <3>1, ChunksAssumption
  <2> QED BY <1>3, <2>2, <2>3, DataIs
<1>5. CASE written = <<>>
  <2>1. kept \in Seq(Pieces)
    BY <1>3, DataIs
  <2>2. kept \o <<>> = kept
    BY <2>1
  <2> QED BY <1>3, <1>5, <2>2 DEF kept
<1>6. CASE written = <<Part>>
  BY <1>4, <1>6 DEF kept, Pieces
<1>7. CASE written = Content(t, c) /\ c.action # "copy"
  <2>1. c.action \in Writing
    BY <1>7 DEF Opens
  <2>2. c.data \in Pieces
    BY <2>1, CallIs DEF Pieces
  <2> QED BY <1>4, <1>7, <2>2 DEF kept, Content
<1>8. CASE written = Content(t, c) /\ c.action = "copy"
  <2>1. IsPlain(t, c.path) /\ c.path \in Paths
    <3>1. IsPlain(t, c.path)
      BY <1>8 DEF Opens
    <3> QED BY <1>1, <3>1, TreeIs
  <2>2. t[c.path] \in Node
    BY <1>1, <2>1, TreeIs
  <2>3. written \in Data /\ kept = <<>>
    BY <1>2, <1>8, <2>2 DEF Content, kept, Kept
  <2>4. written \in Seq(Pieces)
    BY <2>3, DataIs
  <2>5. <<>> \o written = written
    BY <2>4
  <2> QED BY <2>3, <2>5 DEF kept
<1> QED BY <1>5, <1>6, <1>7, <1>8 DEF Written

LEMMA CutCareful ==
  ASSUME NEW t, Sound(t), NEW c \in Calls, Representable(t, c), ~Blocked(t, Parent(c)), Opens(t, c),
         NEW a \in Cuts(t, c)
  PROVE  Careful(t, c, a)
<1> DEFINE u == WithDirs(t, Parent(c))
           p == Target(t, c)
<1>1. PICK ok \in Verdicts(c), written \in Written(t, c) : a = Cut(t, c, ok, written)
  BY DEF Cuts
<1> DEFINE d == Kept(t, c) \o written
           v == [u EXCEPT ![p] = File(d)]
<1>2. d \in Data
  BY CutData
<1>3. /\ p \in Paths /\ Sound(u) /\ Keeps(t, u) /\ ~IsDir(u, p) /\ IsDir(u, Dirname(p))
      /\ p \in Destinations(c) /\ (c.action = "append_file" => p = c.path)
  BY OpensIs
<1>4. t \in Tree /\ u \in Tree /\ ok \in BOOLEAN /\ a = Answer(ok, v, FALSE)
  BY <1>1, <1>3 DEF Sound, Cut, Verdicts
<1>5. c.action = "append_file" => IsPrefix(t[p].data, d)
  <2> SUFFICES ASSUME c.action = "append_file"
               PROVE  IsPrefix(t[p].data, d)
    OBVIOUS
  <2>1. Kept(t, c) = t[p].data
    BY <1>3, <1>4, TreeIs DEF Kept
  <2>2. d \in Seq(Pieces)
    BY <1>2, DataIs
  <2>3. Kept(t, c) \in Seq(Pieces)
    <3>2. t[p] = Absent \/ t[p] = Directory \/ \E e \in Data : t[p] = File(e)
      BY <1>3, <1>4, TreeIs, NodesAre
    <3>3. Absent.data = <<>> /\ Directory.data = <<>> /\ \A e : File(e).data = e
      BY DEF Absent, Directory, File
    <3> QED BY <2>1, <3>2, <3>3, DataIs
  <2>4. written \in Seq(Pieces)
    <3>1. c.data \in Pieces /\ Part \in Pieces
      <4>1. c.action \in Writing
        BY DEF Writing
      <4> QED BY <4>1, CallIs DEF Pieces
    <3>2. Content(t, c) = <<c.data>>
      BY DEF Content
    <3>3. <<>> \in Seq(Pieces) /\ \A x \in Pieces : <<x>> \in Seq(Pieces)
      OBVIOUS
    <3> QED BY <3>1, <3>2, <3>3 DEF Written
  <2> QED BY <2>1, <2>3, <2>4, PrefixOfJoin
<1> HIDE DEF d
<1>6. Sound(v) /\ \A q \in Paths : IsPlain(u, q) => IsPlain(v, q)
  BY <1>2, <1>3, FilePut
<1>7. v[p] = File(d) /\ \A q \in Paths : q # p => v[q] = u[q]
  BY <1>3, <1>4 DEF Tree
<1> HIDE DEF u, p, v
<1>8. \A q \in Paths : IsPlain(t, q) => IsPlain(v, q)
  BY <1>3, <1>4, <1>6, KeptIs
<1>9. IsPlain(v, p) /\ v[p].data = d
  <2>1. v \in Tree
    BY <1>6 DEF Sound
  <2> QED BY <1>3, <1>7, <2>1, TreeIs DEF IsPlain, File
<1>10. Spares(t, c, v)
  BY <1>3, <1>5, <1>7, <1>9 DEF Spares, Keeps
<1>11. v \in Tree
  BY <1>6 DEF Sound
<1> QED BY <1>4, <1>6, <1>8, <1>10, <1>11 DEF Careful, Answer

\* FilesystemTool.execute, finished or interrupted by the operating system anywhere, keeps a
\* sound tree sound, when it fails touches no file but the one it writes, and takes a file
\* away only to delete or to move it.
THEOREM ExecuteIsCareful ==
  ASSUME NEW t, Sound(t), NEW c \in Calls, Representable(t, c), NEW a \in Answers(t, c)
  PROVE  Careful(t, c, a)
<1>1. a = execute(t, c) \/ a \in Interrupted(t, c)
  BY DEF Answers
<1>2. CASE a = execute(t, c)
  BY <1>2, ExecutedCareful
<1>3. CASE a \in Interrupted(t, c)
  <2>1. ~Blocked(t, Parent(c)) /\ (a \in Refused(t, c) \/ (Opens(t, c) /\ a \in Cuts(t, c)))
    BY <1>3 DEF Interrupted
  <2> QED BY <2>1, RefusedCareful, CutCareful
<1> QED BY <1>1, <1>2, <1>3

-----------------------------------------------------------------------------
(* Plans                                                                   *)

Upto(K, m) == {j \in K : j =< m}

\* The n-th of a finite set of positions exists.
LEMMA NthIs ==
  ASSUME NEW N \in Nat, NEW K, K \subseteq 1..N, NEW n \in 1..Cardinality(K)
  PROVE  \E i \in K : Cardinality(Upto(K, i)) = n
<1> DEFINE S == {m \in Nat : Cardinality(Upto(K, m)) >= n}
<1>0. \A j \in K : j \in Nat /\ 1 =< j /\ j =< N
  OBVIOUS
<1>1. IsFiniteSet(1..N)
  BY FS_Interval
<1>2. \A m : IsFiniteSet(Upto(K, m)) /\ Cardinality(Upto(K, m)) \in Nat
  <2>1. \A m : Upto(K, m) \subseteq 1..N
    BY DEF Upto
  <2> QED BY <1>1, <2>1, FS_Subset, FS_CardinalityType
<1>3. IsFiniteSet(K) /\ Cardinality(K) \in Nat
  BY <1>1, FS_Subset, FS_CardinalityType
<1>4. n \in Nat /\ n > 0
  BY <1>3
<1>5. N \in S
  <2>1. Upto(K, N) = K
    BY <1>0 DEF Upto
  <2> QED BY <1>3, <2>1
<1>6. PICK m \in S : \A k \in S : m =< k
  <2>1. S \subseteq Nat
    OBVIOUS
  <2> HIDE DEF S
  <2> QED BY <1>5, <2>1, Least
<1>7. m \in Nat /\ Cardinality(Upto(K, m)) >= n
  OBVIOUS
<1>8. m # 0
  <2>1. \A j \in K : ~(j =< 0)
    BY <1>0
  <2>3. Upto(K, 0) = {}
    BY <2>1 DEF Upto
  <2>2. Cardinality(Upto(K, 0)) = 0
    BY <2>3, FS_EmptySet
  <2> QED BY <1>4, <1>7, <2>2
<1>9. m - 1 \in Nat /\ ~(m =< m - 1)
  BY <1>7, <1>8
<1>10. Cardinality(Upto(K, m - 1)) < n
  <2>1. m - 1 \notin S
    BY <1>6, <1>9
  <2>2. ~(Cardinality(Upto(K, m - 1)) >= n)
    BY <1>9, <2>1
  <2> QED BY <1>2, <1>4, <2>2
<1>11. m \in K
  <2>1. ASSUME m \notin K
        PROVE  Upto(K, m) = Upto(K, m - 1)
    <3>1. \A j \in K : j =< m <=> j =< m - 1
      BY <1>0, <1>7, <1>9, <2>1
    <3> QED BY <3>1 DEF Upto
  <2> QED BY <1>2, <1>4, <1>7, <1>10, <2>1
<1>12. Cardinality(Upto(K, m)) = Cardinality(Upto(K, m - 1)) + 1
  <2>1. Upto(K, m) = Upto(K, m - 1) \cup {m} /\ m \notin Upto(K, m - 1)
    <3>1. \A j \in K : j =< m <=> j =< m - 1 \/ j = m
      BY <1>0, <1>7, <1>9
    <3>2. m =< m
      BY <1>7
    <3> QED BY <1>9, <1>11, <3>1, <3>2 DEF Upto
  <2> QED BY <1>2, <2>1, FS_AddElement
<1>13. Cardinality(Upto(K, m)) = n
  <2> QED BY <1>2, <1>4, <1>7, <1>10, <1>12
<1> QED BY <1>11, <1>13

LEMMA InferredIs ==
  ASSUME NEW req \in Requests
  PROVE  InferActions(req) \in Seq(PlannedAction)
<1>1. req.file \in Paths /\ req.intent \in {"none", "list", "read", "search"}
  BY RequestsAssumption
<1>2. ASSUME NEW op \in Names, op \notin Writing, NEW p \in Paths \cup {Root}
      PROVE  <<[tool |-> "filesystem", type |-> "tool", id |-> NoId,
                args |-> Call(op, p, Root, "none")]>> \in Seq(PlannedAction)
  <2>1. Call(op, p, Root, "none") \in Calls
    BY <1>2 DEF Call, Calls
  <2>2. NoId \in Ids
    BY DEF NoId, Ids
  <2> DEFINE a == [tool |-> "filesystem", type |-> "tool", id |-> NoId,
                   args |-> Call(op, p, Root, "none")]
  <2>3. a \in PlannedAction
    <3>1. "filesystem" \in Names /\ "tool" \in Names
      BY DEF Names
    <3> QED BY <2>1, <2>2, <3>1 DEF PlannedAction
  <2> HIDE DEF a
  <2>4. <<a>> \in Seq(PlannedAction)
    BY <2>3
  <2> QED BY <2>4 DEF a
<1>3. "list_dir" \notin Writing /\ "read_text" \notin Writing /\ "search" \notin Writing
  BY DEF Writing
<1>4. Root \in Paths \cup {Root} /\ req.file \in Paths \cup {Root}
  BY <1>1
<1>5. /\ InferActions(req) = IF req.intent = "list" THEN
                               <<[tool |-> "filesystem", type |-> "tool", id |-> NoId,
                                  args |-> Call("list_dir", Root, Root, "none")]>>
                             ELSE IF req.intent = "read" THEN
                               <<[tool |-> "filesystem", type |-> "tool", id |-> NoId,
                                  args |-> Call("read_text", req.file, Root, "none")]>>
                             ELSE IF req.intent = "search" THEN
                               <<[tool |-> "filesystem", type |-> "tool", id |-> NoId,
                                  args |-> Call("search", Root, Root, "none")]>>
                             ELSE <<>>
  BY <1>1 DEF InferActions
<1>6. <<>> \in Seq(PlannedAction)
  OBVIOUS
<1>7. /\ <<[tool |-> "filesystem", type |-> "tool", id |-> NoId,
              args |-> Call("list_dir", Root, Root, "none")]>> \in Seq(PlannedAction)
      /\ <<[tool |-> "filesystem", type |-> "tool", id |-> NoId,
              args |-> Call("read_text", req.file, Root, "none")]>> \in Seq(PlannedAction)
      /\ <<[tool |-> "filesystem", type |-> "tool", id |-> NoId,
              args |-> Call("search", Root, Root, "none")]>> \in Seq(PlannedAction)
  <2>1. "list_dir" \in Names /\ "read_text" \in Names /\ "search" \in Names
    BY DEF Names, Methods, Reading
  <2> QED BY <1>2, <1>3, <1>4, <2>1
<1> QED BY <1>5, <1>6, <1>7

LEMMA NormalizedIs ==
  ASSUME NEW raw \in RawAction, raw.name \in Writing => raw.args.data \in Chunks,
         NEW round \in Nat, NEW index \in Nat
  PROVE  NormalizeAction(raw, round, index) \in PlannedAction
<1>1. /\ raw.tool \in Names /\ raw.type \in Names /\ raw.args \in Calls
      /\ raw.name \in Names /\ raw.id \in Names
  BY DEF RawAction
<1>2. ToolOf(raw) \in Names
  <2>1. "filesystem" \in Names
    BY DEF Names
  <2> QED BY <1>1, <2>1, Zenon DEF ToolOf
<1>3. <<round, index>> \in Ids /\ <<raw.id>> \in Ids
  BY <1>1 DEF Ids
<1> DEFINE renamed == IF raw.tool = "none" /\ IsLegacy(raw.name)
                      THEN [raw.args EXCEPT !.action = LegacyAction(raw.name)] ELSE raw.args
<1>4. renamed \in Calls
  <2>1. LegacyAction(raw.name) \in Names
    <3>1. "list_dir" \in Names
      BY DEF Names, Methods, Reading
    <3> QED BY <1>1, <3>1, Zenon DEF LegacyAction
  <2>2. LegacyAction(raw.name) \in Writing => raw.args.data \in Chunks
    BY DEF LegacyAction, Writing
  <2>3. [raw.args EXCEPT !.action = LegacyAction(raw.name)] \in Calls
    <3> DEFINE op == LegacyAction(raw.name)
    <3>1. op \in Names /\ (op \in Writing => raw.args.data \in Chunks)
      BY <2>1, <2>2
    <3> HIDE DEF op
    <3>2. [raw.args EXCEPT !.action = op] \in Calls
      BY <1>1, <3>1 DEF Calls
    <3> QED BY <3>2 DEF op
  <2> QED BY <1>1, <2>3
<1>5. ArgsOf(raw) = IF ToolOf(raw) = "filesystem" /\ renamed.action = "none"
                    THEN [renamed EXCEPT !.action = "list_dir"] ELSE renamed
  BY DEF ArgsOf
<1> HIDE DEF renamed
<1>6. ArgsOf(raw) \in Calls
  <2>1. [renamed EXCEPT !.action = "list_dir"] \in Calls
    <3>1. "list_dir" \in Names /\ "list_dir" \notin Writing
      BY DEF Names, Methods, Reading, Writing
    <3> QED BY <1>4, <3>1 DEF Calls
  <2> QED BY <1>4, <1>5, <2>1
<1> QED BY <1>1, <1>2, <1>3, <1>6 DEF NormalizeAction, PlannedAction

LEMMA PlanIs ==
  ASSUME NEW raws \in Seq(RawAction),
         \A i \in DOMAIN raws : raws[i].name \in Writing => raws[i].args.data \in Chunks,
         NEW round \in Nat, NEW req \in Requests
  PROVE  Plan(raws, round, req) \in Seq(PlannedAction)
<1> DEFINE kept == {i \in DOMAIN raws : Normalizes(raws[i])}
           Nth(n) == CHOOSE i \in kept : Cardinality(Upto(kept, i)) = n
           count == Cardinality(kept)
<1>1. Len(raws) \in Nat /\ kept \subseteq 1..Len(raws)
  OBVIOUS
<1>2. count \in Nat
  <2> HIDE DEF kept
  <2>1. IsFiniteSet(1..Len(raws))
    BY <1>1, FS_Interval
  <2> QED BY <1>1, <2>1, FS_Subset, FS_CardinalityType
<1>3. ASSUME NEW n \in 1..count
      PROVE  Nth(n) \in kept
  <2> DEFINE K == kept
             N == Len(raws)
  <2>1. n \in 1..Cardinality(K) /\ N \in Nat /\ K \subseteq 1..N
    BY <1>1
  <2> HIDE DEF K, N
  <2>2. \E i \in K : Cardinality(Upto(K, i)) = n
    BY <2>1, NthIs
  <2> QED BY <2>2 DEF K
<1>4. ASSUME NEW n \in 1..count
      PROVE  NormalizeAction(raws[Nth(n)], round, Nth(n)) \in PlannedAction
  <2> DEFINE i == Nth(n)
  <2>1. i \in 1..Len(raws)
    <3> HIDE DEF Nth, kept
    <3> QED BY <1>1, <1>3
  <2> HIDE DEF i
  <2>2. i \in Nat /\ raws[i] \in RawAction /\ (raws[i].name \in Writing => raws[i].args.data \in Chunks)
    BY <1>1, <2>1
  <2>3. NormalizeAction(raws[i], round, i) \in PlannedAction
    BY <2>2, NormalizedIs
  <2> QED BY <2>3 DEF i
<1>5. Plan(raws, round, req) = IF kept = {} THEN InferActions(req)
        ELSE [n \in 1..count |-> NormalizeAction(raws[Nth(n)], round, Nth(n))]
  BY DEF Plan, Upto
<1>6. [n \in 1..count |-> NormalizeAction(raws[Nth(n)], round, Nth(n))] \in Seq(PlannedAction)
  <2> DEFINE a(n) == NormalizeAction(raws[Nth(n)], round, Nth(n))
  <2>1. \A n \in 1..count : a(n) \in PlannedAction
    BY <1>4
  <2> HIDE DEF a, count, PlannedAction
  <2>2. [n \in 1..count |-> a(n)] \in Seq(PlannedAction)
    BY <1>2, <2>1
  <2> QED BY <2>2 DEF a
<1>7. InferActions(req) \in Seq(PlannedAction)
  BY InferredIs
<1> HIDE DEF kept, Nth, count
<1> QED BY <1>5, <1>6, <1>7

-----------------------------------------------------------------------------
(* Counting positions                                                      *)

Marked(s, P) == {i \in DOMAIN s : s[i] \in P}

LEMMA MarkedIs ==
  ASSUME NEW T, NEW s \in Seq(T), NEW x \in T, NEW P
  PROVE  /\ Cardinality(Marked(s, P)) \in Nat
         /\ Cardinality(Marked(Append(s, x), P))
              = IF x \in P THEN Cardinality(Marked(s, P)) + 1 ELSE Cardinality(Marked(s, P))
<1> DEFINE n == Len(s)
           u == Append(s, x)
<1>1. n \in Nat /\ DOMAIN s = 1..n
  OBVIOUS
<1>2. DOMAIN u = 1..(n + 1) /\ u[n + 1] = x /\ \A i \in 1..n : u[i] = s[i]
  OBVIOUS
<1>3. IsFiniteSet(Marked(s, P)) /\ Cardinality(Marked(s, P)) \in Nat
  <2>1. Marked(s, P) \subseteq 1..n
    BY <1>1 DEF Marked
  <2>2. IsFiniteSet(1..n)
    BY <1>1, FS_Interval
  <2> QED BY <2>1, <2>2, FS_Subset, FS_CardinalityType
<1> HIDE DEF u, n
<1>4. CASE x \in P
  <2>1. Marked(u, P) = Marked(s, P) \cup {n + 1}
    BY <1>1, <1>2, <1>4 DEF Marked
  <2>2. n + 1 \notin Marked(s, P)
    BY <1>1 DEF Marked
  <2>3. Cardinality(Marked(s, P) \cup {n + 1}) = Cardinality(Marked(s, P)) + 1
    BY <1>3, <2>2, FS_AddElement
  <2> QED BY <1>3, <1>4, <2>1, <2>3 DEF u
<1>5. CASE x \notin P
  <2>1. Marked(u, P) = Marked(s, P)
    BY <1>1, <1>2, <1>5 DEF Marked
  <2> QED BY <1>3, <1>5, <2>1 DEF u
<1> QED BY <1>4, <1>5

Failing == {rd \in Round : \E j \in DOMAIN rd.results : ~rd.results[j].ok}

LEMMA ReflectionsAre ==
  ASSUME NEW roles \in Seq(Role), NEW role \in Role
  PROVE  /\ Cardinality(Reflections(roles)) \in Nat
         /\ Cardinality(Reflections(Append(roles, role)))
              = IF role = "reflection" THEN Cardinality(Reflections(roles)) + 1
                ELSE Cardinality(Reflections(roles))
<1>1. \A r : Reflections(r) = Marked(r, {"reflection"})
  BY DEF Reflections, Marked
<1>2. role \in {"reflection"} <=> role = "reflection"
  OBVIOUS
<1> HIDE DEF Role
<1> QED BY <1>1, <1>2, MarkedIs

LEMMA FailedRoundsAre ==
  ASSUME NEW rounds \in Seq(Round), NEW round \in Round
  PROVE  /\ Cardinality(FailedRounds(rounds)) \in Nat
         /\ Cardinality(FailedRounds(Append(rounds, round)))
              = IF \E j \in DOMAIN round.results : ~round.results[j].ok
                THEN Cardinality(FailedRounds(rounds)) + 1 ELSE Cardinality(FailedRounds(rounds))
<1>1. ASSUME NEW r \in Seq(Round)
      PROVE  FailedRounds(r) = Marked(r, Failing)
  <2>1. \A i \in DOMAIN r : r[i] \in Round
    OBVIOUS
  <2> HIDE DEF Round
  <2> QED BY <2>1 DEF FailedRounds, Marked, Failing
<1>2. round \in Failing <=> \E j \in DOMAIN round.results : ~round.results[j].ok
  BY DEF Failing
<1>3. Append(rounds, round) \in Seq(Round)
  OBVIOUS
<1>4. /\ Cardinality(Marked(rounds, Failing)) \in Nat
      /\ Cardinality(Marked(Append(rounds, round), Failing))
           = IF round \in Failing THEN Cardinality(Marked(rounds, Failing)) + 1
             ELSE Cardinality(Marked(rounds, Failing))
  <2> HIDE DEF Round
  <2> QED BY MarkedIs
<1> QED BY <1>1, <1>2, <1>3, <1>4

-----------------------------------------------------------------------------
(* What the steps do                                                       *)

LEMMA NumbersAre ==
  ASSUME TypeOK
  PROVE  /\ maxIter \in Nat \ {0} /\ iteration \in Nat /\ iteration =< maxIter /\ errors \in Nat
         /\ MaxCalls \in Nat \ {0}
<1>1. maxIter \in 1..MaxIterations /\ MaxIterations \in Nat
  BY IterationsAssumption DEF TypeOK
<1>2. iteration \in 0..maxIter /\ errors \in 0..maxIter
  BY DEF TypeOK
<1> QED BY <1>1, <1>2, BudgetAssumption

\* A planner's answer of any form is a list of planned actions.
LEMMA PlannerIs ==
  ASSUME TypeOK, PlannerDecides \/ PlannerNextAction \/ PlannerRambles
  PROVE  \E actions \in Seq(PlannedAction), continue \in BOOLEAN : Take(actions, continue)
<1>1. request \in Requests /\ iteration \in Nat
  BY NumbersAre DEF TypeOK
<1>2. CASE PlannerDecides
  <2>1. PICK raws \in Replies, continue \in BOOLEAN : Take(Plan(raws, iteration, request), continue)
    BY <1>2 DEF PlannerDecides
  <2>2. Plan(raws, iteration, request) \in Seq(PlannedAction)
    BY <1>1, PlanIs, RepliesAssumption
  <2> QED BY <2>1, <2>2
<1>3. CASE PlannerNextAction
  <2>1. PICK raws \in Replies, continue \in BOOLEAN :
          Len(raws) = 1 /\ Take(Plan(<<NextAction(raws[1])>>, iteration, request), continue)
    BY <1>3 DEF PlannerNextAction
  <2>2. raws[1] \in RawAction
    BY <2>1, RepliesAssumption
  <2>3. NextAction(raws[1]) \in RawAction /\ NextAction(raws[1]).name \notin Writing
    <3> DEFINE raw == raws[1]
    <3>1. raw \in RawAction
      BY <2>2
    <3> HIDE DEF raw
    <3>2. "none" \in Names /\ "tool" \in Names /\ "none" \notin Writing
      BY DEF Names, Writing
    <3>3. NextAction(raw) \in RawAction /\ NextAction(raw).name \notin Writing
      BY <3>1, <3>2 DEF NextAction, RawAction
    <3> QED BY <3>3 DEF raw
  <2> DEFINE raw == NextAction(raws[1])
  <2>4. raw \in RawAction /\ raw.name \notin Writing
    BY <2>3
  <2>5. Take(Plan(<<raw>>, iteration, request), continue)
    BY <2>1
  <2> HIDE DEF raw
  <2>6. <<raw>> \in Seq(RawAction) /\ \A i \in DOMAIN <<raw>> : <<raw>>[i] = raw
    BY <2>4
  <2>7. Plan(<<raw>>, iteration, request) \in Seq(PlannedAction)
    BY <1>1, <2>4, <2>6, PlanIs
  <2> QED BY <2>5, <2>7
<1>4. CASE PlannerRambles
  BY <1>1, <1>4, InferredIs DEF PlannerRambles
<1> QED BY <1>2, <1>3, <1>4

\* Why an action may stay pending when it was executed.
Lingers(a) == a.id = NoId \/ a.type # "tool" \/ a.args.fit = "clashes"

Gone(t, u, c) ==
  \A p \in Paths : IsPlain(t, p) /\ ~IsPlain(u, p) =>
    \/ c.action = "delete_file" /\ c.path = p
    \/ c.action = "move" /\ IsPrefix(c.path, p)

Executed(r) ==
  /\ results' = Append(results, r)
  /\ pending' \subseteq pending \cup {Action}
  /\ Action \in pending' => Lingers(Action)
  /\ \/ completed' = completed
     \/ completed' = Append(completed, [round |-> iteration, id |-> Action.id])
  /\ Sound(tree') /\ (~r.ok => Spares(tree, Action.args, tree')) /\ Gone(tree, tree', Action.args)

LEMMA AnsweredIs ==
  ASSUME NEW answer \in [ok : BOOLEAN, tree : Tree, bytes : BOOLEAN], Answered(answer),
         Careful(tree, Action.args, answer)
  PROVE  \E r \in ToolResult : Executed(r)
<1> DEFINE r == [ok |-> answer.ok, bytes |-> answer.bytes]
<1>1. r \in ToolResult /\ r.ok = answer.ok /\ results' = Append(results, r)
  BY DEF ToolResult, Answered, Result
<1>2. pending' = Settled(pending \cup {Action}, Action)
  BY DEF Answered
<1>3. pending' \subseteq pending \cup {Action}
  BY <1>2 DEF Settled
<1>4. Action \in pending' => Lingers(Action)
  BY <1>2 DEF Settled, Lingers
<1>5. completed' = Append(completed, [round |-> iteration, id |-> Action.id]) /\ tree' = answer.tree
  BY DEF Answered
<1>6. Sound(tree') /\ (~answer.ok => Spares(tree, Action.args, tree')) /\ Gone(tree, tree', Action.args)
  BY <1>5 DEF Careful, Gone
<1> HIDE DEF r
<1>7. Executed(r)
  BY <1>1, <1>3, <1>4, <1>5, <1>6 DEF Executed
<1> QED BY <1>1, <1>7

LEMMA ActIs ==
  ASSUME TypeOK, ListsInv, TreeStaysWellFormed, Act
  PROVE  /\ Executing /\ Action \in PlannedAction
         /\ \E r \in ToolResult : Executed(r)
<1>1. Executing
  BY DEF Act, RefuseType, ToolRaises, CallTool, UnknownTool
<1>2. Action \in PlannedAction
  <2>1. done \in Nat /\ decision.actions \in Seq(PlannedAction) /\ done < Len(decision.actions)
    <3>1. decision.actions \in Seq(PlannedAction)
      BY DEF ListsInv
    <3>2. Len(decision.actions) \in Nat
      <4> HIDE DEF PlannedAction
      <4> QED BY <3>1
    <3>3. done \in 0..Len(decision.actions) /\ done < Len(decision.actions)
      BY <1>1 DEF TypeOK, Executing
    <3> QED BY <3>1, <3>2, <3>3
  <2> DEFINE actions == decision.actions
  <2>2. actions \in Seq(PlannedAction) /\ done < Len(actions)
    BY <2>1
  <2> HIDE DEF actions, PlannedAction
  <2>3. actions[done + 1] \in PlannedAction
    BY <2>1, <2>2
  <2> QED BY <2>3 DEF Action, actions
<1>3. Sound(tree)
  BY DEF TypeOK, TreeStaysWellFormed, Sound
<1>4. Spares(tree, Action.args, tree) /\ Gone(tree, tree, Action.args)
  BY DEF Spares, Gone
<1> DEFINE failure == [ok |-> FALSE, bytes |-> FALSE]
<1>5. failure \in ToolResult
  BY DEF ToolResult
<1>6. CASE RefuseType
  <2>1. /\ results' = Append(results, failure) /\ pending' = pending /\ completed' = completed
        /\ tree' = tree /\ Lingers(Action)
    BY <1>6 DEF RefuseType, Result, Lingers
  <2> HIDE DEF failure
  <2>2. Executed(failure)
    BY <1>3, <1>4, <2>1 DEF Executed
  <2> QED BY <1>1, <1>2, <1>5, <2>2
<1>7. CASE ToolRaises
  <2>1. /\ results' = Append(results, failure) /\ pending' = pending \cup {Action}
        /\ completed' = completed /\ tree' = tree /\ Lingers(Action)
    BY <1>7 DEF ToolRaises, Result, Lingers
  <2> HIDE DEF failure
  <2>2. Executed(failure)
    BY <1>3, <1>4, <2>1 DEF Executed
  <2> QED BY <1>1, <1>2, <1>5, <2>2
<1>8. Action.args \in Calls
  BY <1>2 DEF PlannedAction
<1>9. CASE CallTool
  <2>1. PICK answer \in Answers(tree, Action.args) : Answered(answer) /\ Representable(tree, Action.args)
    BY <1>9 DEF CallTool
  <2>2. Careful(tree, Action.args, answer)
    BY <1>3, <1>8, <2>1, ExecuteIsCareful
  <2>3. answer \in [ok : BOOLEAN, tree : Tree, bytes : BOOLEAN]
    BY <2>2 DEF Careful
  <2> QED BY <1>1, <1>2, <2>1, <2>2, <2>3, AnsweredIs
<1>10. CASE UnknownTool
  <2> DEFINE answer == Fails(tree)
  <2>1. Answered(answer)
    BY <1>10 DEF UnknownTool
  <2>2. Careful(tree, Action.args, answer)
    BY <1>3, FailsIs
  <2> HIDE DEF answer
  <2>3. answer \in [ok : BOOLEAN, tree : Tree, bytes : BOOLEAN]
    BY <2>2 DEF Careful
  <2> QED BY <1>1, <1>2, <2>1, <2>2, <2>3, AnsweredIs
<1> QED BY <1>6, <1>7, <1>9, <1>10 DEF Act

Refl == [text : BOOLEAN, again : BOOLEAN, error : BOOLEAN]
Ends == OutOfBudget \/ NothingToReflect \/ Reflect \/ ReflectorUnavailable

\* However a round ends, its snapshot is a round with a result for each action.
LEMMA SnapshotIs ==
  ASSUME TypeOK, ListsInv, RoundDone, NEW refl \in Refl
  PROVE  /\ Snapshot(refl) \in Round /\ Snapshot(refl).round = iteration
         /\ Len(Snapshot(refl).results) = Snapshot(refl).planned
         /\ Snapshot(refl).results = results
<1>1. Len(decision.actions) \in Nat
  <2>1. decision.actions \in Seq(PlannedAction)
    BY DEF ListsInv
  <2> HIDE DEF PlannedAction
  <2> QED BY <2>1
<1>2. results \in Seq(ToolResult) /\ iteration \in Nat /\ refl.text \in BOOLEAN
  BY NumbersAre DEF ListsInv, Refl
<1>3. Len(results) = Len(decision.actions)
  BY DEF TypeOK, RoundDone
<1> QED BY <1>1, <1>2, <1>3 DEF Snapshot, Round

LEMMA EndsIs ==
  ASSUME TypeOK, ListsInv, Ends
  PROVE  /\ RoundDone /\ pc' \in {"top", "after"} /\ reflection' \in Refl
         /\ \E refl \in Refl : history' = Append(history, Snapshot(refl))
         /\ errors' = errors \/ errors' = errors + 1
         /\ \/ UNCHANGED llmCalls /\ ((BudgetReached /\ pc' = "after") \/ ~Failed)
            \/ ~BudgetReached /\ Failed /\ llmCalls' = Append(llmCalls, "reflection")
         /\ UNCHANGED <<request, maxIter, iteration, decision, done, results, pending, completed,
                        outcome, tree>>
<1>1. NoReflection \in Refl /\ reflection \in Refl
  BY DEF NoReflection, Refl, TypeOK
<1>2. ASSUME NEW refl \in Refl, Close(refl)
      PROVE  /\ pc' \in {"top", "after"} /\ reflection' \in Refl
             /\ history' = Append(history, Snapshot(refl))
             /\ errors' = errors \/ errors' = errors + 1
             /\ UNCHANGED <<request, maxIter, iteration, decision, done, results, pending, completed,
                            outcome, tree>>
  BY <1>2 DEF Close
<1>3. CASE OutOfBudget
  BY <1>1, <1>3 DEF OutOfBudget
<1>4. CASE NothingToReflect
  <2>1. RoundDone /\ ~Failed /\ UNCHANGED llmCalls /\ Close(NoReflection)
    BY <1>4 DEF NothingToReflect
  <2> QED BY <1>1, <1>2, <2>1
<1>5. CASE Reflect
  <2>1. PICK refl \in Refl : Close(refl)
    BY <1>5 DEF Reflect, Refl
  <2>2. RoundDone /\ ~BudgetReached /\ Failed /\ llmCalls' = Append(llmCalls, "reflection")
    BY <1>5 DEF Reflect, Record
  <2> QED BY <1>2, <2>1, <2>2
<1>6. CASE ReflectorUnavailable
  <2> DEFINE refl == [text |-> TRUE, again |-> FALSE, error |-> TRUE]
  <2>1. refl \in Refl
    BY DEF Refl
  <2>2. /\ RoundDone /\ ~BudgetReached /\ Failed /\ llmCalls' = Append(llmCalls, "reflection")
        /\ Close(refl)
    BY <1>6 DEF ReflectorUnavailable, Record
  <2> HIDE DEF refl
  <2> QED BY <1>2, <2>1, <2>2
<1> QED BY <1>3, <1>4, <1>5, <1>6 DEF Ends

Quiet == Classify \/ DirectAnswer \/ LeaveLoop \/ PlannerRaises \/ Abort

LEMMA QuietIs ==
  ASSUME Quiet
  PROVE  UNCHANGED <<request, maxIter, iteration, decision, done, results, reflection, history,
                     pending, completed, errors, llmCalls, tree>>
BY DEF Quiet, Classify, DirectAnswer, LeaveLoop, PlannerRaises, Abort

\* The steps, by what they change.
LEMMA StepsAre ==
  ASSUME TypeOK, [Next]_vars
  PROVE  \/ Quiet \/ BeginRound \/ Act \/ Ends \/ Synthesize
         \/ \E actions \in Seq(PlannedAction), continue \in BOOLEAN : Take(actions, continue)
         \/ UNCHANGED vars
<1> HIDE DEF PlannedAction
<1>1. CASE PlannerDecides \/ PlannerNextAction \/ PlannerRambles
  BY <1>1, PlannerIs
<1>2. CASE Act
  BY <1>2
<1> QED BY <1>1, <1>2 DEF Next, Think, Conclude, Quiet, Ends

-----------------------------------------------------------------------------
(* The types                                                               *)

LEMMA CallsGrow ==
  ASSUME NEW calls \in Seq(Role), NEW role \in Role
  PROVE  Append(calls, role) \in Seq(Role)
<1> HIDE DEF Role
<1> QED OBVIOUS

LEMMA InitTypes ==
  ASSUME Init
  PROVE  TypeOK /\ ListsInv
<1>1. tree \in Tree
  BY TreesAssumption DEF Init
<1>2. maxIter \in 1..MaxIterations /\ MaxIterations \in Nat
  BY IterationsAssumption DEF Init
<1>3. NoReflection \in [text : BOOLEAN, again : BOOLEAN, error : BOOLEAN]
  BY DEF NoReflection
<1>4. decision.actions = <<>> /\ Len(<<>>) = 0 /\ DOMAIN <<>> = {}
  BY DEF Init, NoDecision
<1>5. TypeOK
  BY <1>1, <1>2, <1>3, <1>4 DEF Init, TypeOK
<1>6. ListsInv
  <2> HIDE DEF PlannedAction
  <2> QED BY <1>4 DEF Init, ListsInv
<1> QED BY <1>5, <1>6

LEMMA QuietTypes ==
  ASSUME TypeOK, ListsInv, Quiet
  PROVE  TypeOK' /\ ListsInv'
<1>1. UNCHANGED <<request, maxIter, iteration, decision, done, results, reflection, history,
                  pending, completed, errors, llmCalls, tree>>
  BY QuietIs
<1>2. ListsInv'
  BY <1>1 DEF ListsInv
<1>3. pc' \in {"classify", "direct", "top", "planner", "execute", "after", "finished"}
  BY DEF TypeOK, Quiet, Classify, DirectAnswer, LeaveLoop, PlannerRaises, Abort, Finish
<1>4. outcome' \in {"none", "direct", "answered", "aborted", "fallback raised", "provider raised"}
  BY DEF TypeOK, Quiet, Classify, DirectAnswer, LeaveLoop, PlannerRaises, Abort, Finish
<1>5. TypeOK'
  BY <1>1, <1>3, <1>4 DEF TypeOK
<1> QED BY <1>2, <1>5

LEMMA BeginTypes ==
  ASSUME TypeOK, ListsInv, BeginRound
  PROVE  TypeOK' /\ ListsInv'
<1>1. /\ iteration < maxIter /\ iteration' = iteration + 1 /\ pc' = "planner"
      /\ llmCalls' = Append(llmCalls, "planner")
      /\ UNCHANGED <<request, maxIter, decision, done, results, reflection, history, pending,
                     completed, errors, outcome, tree>>
  BY DEF BeginRound, Record
<1>2. llmCalls' \in Seq(Role)
  <2>1. llmCalls \in Seq(Role) /\ {"planner", "reflection", "synthesis"} \subseteq Role
    BY DEF ListsInv, Role
  <2> QED BY <1>1, <2>1, CallsGrow
<1>3. ListsInv'
  BY <1>1, <1>2 DEF ListsInv
<1>4. iteration' \in 0..maxIter /\ \A i \in DOMAIN completed : completed[i].round \in 1..(iteration + 1)
  <2>1. \A i \in DOMAIN completed : completed[i].round \in 1..iteration
    BY DEF TypeOK
  <2>2. 1..iteration \subseteq 1..(iteration + 1)
    BY NumbersAre
  <2> QED BY <1>1, <2>1, <2>2, NumbersAre
<1>5. TypeOK'
  BY <1>1, <1>4 DEF TypeOK
<1> QED BY <1>3, <1>5

LEMMA TakeTypes ==
  ASSUME TypeOK, ListsInv, NEW actions \in Seq(PlannedAction), NEW continue, Take(actions, continue)
  PROVE  TypeOK' /\ ListsInv'
<1>1. /\ decision'.actions = actions /\ pending' = ToSet(actions) /\ done' = 0 /\ results' = <<>>
      /\ reflection' = NoReflection /\ pc' = "execute"
      /\ UNCHANGED <<request, maxIter, iteration, history, completed, errors, llmCalls, outcome, tree>>
  BY DEF Take
<1>2. ToSet(actions) \subseteq PlannedAction /\ Len(actions) \in Nat
  <2> HIDE DEF PlannedAction
  <2> QED BY DEF ToSet
<1>3. NoReflection \in [text : BOOLEAN, again : BOOLEAN, error : BOOLEAN]
  BY DEF NoReflection
<1>4. <<>> \in Seq(ToolResult) /\ Len(<<>>) = 0
  OBVIOUS
<1>5. ListsInv'
  BY <1>1, <1>2, <1>4 DEF ListsInv
<1>6. done' \in 0..Len(decision'.actions) /\ Len(results') = done'
  BY <1>1, <1>2, <1>4
<1>7. UNCHANGED iteration /\ UNCHANGED completed
  BY <1>1
<1>8. TypeOK'
  BY <1>1, <1>3, <1>6, <1>7 DEF TypeOK
<1> QED BY <1>5, <1>8

LEMMA ActTypes ==
  ASSUME TypeOK, ListsInv, TreeStaysWellFormed, RoundsInv, Act
  PROVE  TypeOK' /\ ListsInv'
<1>1. /\ pc = "execute" /\ done < Len(decision.actions) /\ done' = done + 1
      /\ UNCHANGED <<pc, request, maxIter, iteration, decision, reflection, history, errors,
                     llmCalls, outcome>>
  BY ActIs DEF Executing
<1>2. PICK r \in ToolResult : Executed(r)
  BY ActIs
<1>3. Action \in PlannedAction /\ iteration \in Nat /\ iteration > 0
  BY <1>1, ActIs, NumbersAre DEF RoundsInv, InRound
<1>4. results' \in Seq(ToolResult) /\ Len(results') = done + 1
  <2>1. results \in Seq(ToolResult) /\ Len(results) = done /\ results' = Append(results, r)
    BY <1>2 DEF ListsInv, TypeOK, Executed
  <2> HIDE DEF ToolResult
  <2> QED BY <2>1
<1>5. pending' \subseteq PlannedAction
  BY <1>2, <1>3 DEF Executed, ListsInv
<1> DEFINE T == [round : Nat, id : Ids]
           x == [round |-> iteration, id |-> Action.id]
<1>6. x \in T /\ x.round = iteration
  BY <1>3 DEF PlannedAction
<1>7. completed' \in Seq(T) /\ \A i \in DOMAIN completed' : completed'[i].round \in 1..iteration
  <2>1. completed \in Seq(T) /\ \A i \in DOMAIN completed : completed[i].round \in 1..iteration
    BY DEF ListsInv, TypeOK
  <2>2. completed' = completed \/ completed' = Append(completed, x)
    BY <1>2 DEF Executed
  <2>3. iteration \in 1..iteration
    BY <1>3
  <2> HIDE DEF T, x
  <2> QED BY <1>6, <2>1, <2>2, <2>3
<1>8. ListsInv'
  BY <1>1, <1>4, <1>5, <1>7 DEF ListsInv
<1>9. tree' \in Tree
  BY <1>2 DEF Executed, Sound
<1>10. done' \in 0..Len(decision.actions)
  <2>1. Len(decision.actions) \in Nat
    <3>1. decision.actions \in Seq(PlannedAction)
      BY DEF ListsInv
    <3> HIDE DEF PlannedAction
    <3> QED BY <3>1
  <2>2. done \in 0..Len(decision.actions)
    BY DEF TypeOK
  <2> QED BY <1>1, <2>1, <2>2
<1>11. TypeOK'
  BY <1>1, <1>4, <1>7, <1>9, <1>10 DEF TypeOK
<1> QED BY <1>8, <1>11

LEMMA EndsTypes ==
  ASSUME TypeOK, ListsInv, RoundsInv, Ends
  PROVE  TypeOK' /\ ListsInv'
<1>1. /\ RoundDone /\ pc' \in {"top", "after"} /\ reflection' \in Refl
      /\ errors' = errors \/ errors' = errors + 1
      /\ UNCHANGED llmCalls \/ llmCalls' = Append(llmCalls, "reflection")
      /\ UNCHANGED <<request, maxIter, iteration, decision, done, results, pending, completed,
                     outcome, tree>>
  BY EndsIs
<1>2. PICK refl \in Refl : history' = Append(history, Snapshot(refl))
  BY EndsIs
<1>3. Snapshot(refl) \in Round
  BY <1>1, SnapshotIs
<1>4. history' \in Seq(Round)
  <2>1. history \in Seq(Round)
    BY DEF ListsInv
  <2> HIDE DEF Round
  <2> QED BY <1>2, <1>3, <2>1
<1>5. llmCalls' \in Seq(Role)
  <2>1. llmCalls \in Seq(Role) /\ {"planner", "reflection", "synthesis"} \subseteq Role
    BY DEF ListsInv, Role
  <2> QED BY <1>1, <2>1, CallsGrow
<1>6. ListsInv'
  BY <1>1, <1>4, <1>5 DEF ListsInv
<1>7. errors' \in 0..maxIter
  <2>1. pc = "execute" /\ InRound
    BY <1>1 DEF RoundDone, InRound
  <2>2. errors =< Len(history) /\ Len(history) = iteration - 1
    BY <2>1 DEF RoundsInv
  <2> QED BY <1>1, <2>2, NumbersAre
<1>8. TypeOK'
  BY <1>1, <1>7 DEF TypeOK, Refl
<1> QED BY <1>6, <1>8

LEMMA SynthesizeTypes ==
  ASSUME TypeOK, ListsInv, Synthesize
  PROVE  TypeOK' /\ ListsInv'
<1>1. /\ llmCalls' = Append(llmCalls, "synthesis") /\ pc' = "finished"
      /\ outcome' \in {"answered", "provider raised"}
      /\ UNCHANGED <<request, maxIter, iteration, decision, done, results, reflection, history,
                     pending, completed, errors, tree>>
  BY DEF Synthesize, Record, Finish
<1>2. llmCalls' \in Seq(Role)
  <2>1. llmCalls \in Seq(Role) /\ {"planner", "reflection", "synthesis"} \subseteq Role
    BY DEF ListsInv, Role
  <2> QED BY <1>1, <2>1, CallsGrow
<1>3. ListsInv'
  BY <1>1, <1>2 DEF ListsInv
<1>4. TypeOK'
  BY <1>1 DEF TypeOK
<1> QED BY <1>3, <1>4

LEMMA NextTypes ==
  ASSUME TypeOK, ListsInv, TreeStaysWellFormed, RoundsInv, [Next]_vars
  PROVE  TypeOK' /\ ListsInv'
<1>1. CASE UNCHANGED vars
  BY <1>1 DEF vars, TypeOK, ListsInv
<1> HIDE DEF PlannedAction
<1>2. CASE \E actions \in Seq(PlannedAction), continue \in BOOLEAN : Take(actions, continue)
  BY <1>2, TakeTypes
<1> QED BY <1>1, <1>2, StepsAre, QuietTypes, BeginTypes, ActTypes, EndsTypes, SynthesizeTypes

-----------------------------------------------------------------------------
(* The rounds and the budget                                               *)

LEMMA LengthsAre ==
  ASSUME ListsInv
  PROVE  /\ Len(llmCalls) \in Nat /\ Len(history) \in Nat
         /\ \A role \in Role : Len(Append(llmCalls, role)) = Len(llmCalls) + 1
         /\ \A round \in Round : /\ Len(Append(history, round)) = Len(history) + 1
                                 /\ DOMAIN Append(history, round) = 1..(Len(history) + 1)
                                 /\ Append(history, round)[Len(history) + 1] = round
                                 /\ \A i \in 1..Len(history) : Append(history, round)[i] = history[i]
         /\ DOMAIN history = 1..Len(history)
<1>1. llmCalls \in Seq(Role) /\ history \in Seq(Round)
  BY DEF ListsInv
<1> HIDE DEF Role, Round
<1> QED BY <1>1

LEMMA RolesAre == "planner" \in Role /\ "reflection" \in Role /\ "synthesis" \in Role
BY DEF Role

BudgetInv == NeverOverBudget /\ AbortsOnlyWhenRoundsExceedBudget

LEMMA InitRounds ==
  ASSUME Init
  PROVE  RoundsInv /\ BudgetInv
<1>1. Len(<<>>) = 0 /\ DOMAIN <<>> = {}
  OBVIOUS
<1> QED BY <1>1, BudgetAssumption DEF Init, RoundsInv, BudgetInv, NeverOverBudget,
           AbortsOnlyWhenRoundsExceedBudget, InRound, Between

LEMMA QuietRounds ==
  ASSUME TypeOK, ListsInv, RoundsInv, BudgetInv, Quiet
  PROVE  RoundsInv' /\ BudgetInv'
<1>1. UNCHANGED <<request, maxIter, iteration, decision, done, results, reflection, history,
                  pending, completed, errors, llmCalls, tree>>
  BY QuietIs
<1>2. NeverOverBudget'
  BY <1>1 DEF BudgetInv, NeverOverBudget
<1>3. /\ \A i \in DOMAIN history' : history'[i].round = i /\ Len(history'[i].results) = history'[i].planned
      /\ errors' =< Len(history')
  BY <1>1 DEF RoundsInv
<1>4. CASE Classify
  <2>1. pc = "classify" /\ pc' \in {"top", "direct"} /\ outcome' = outcome /\ outcome = "none"
    BY <1>4 DEF Classify, RoundsInv
  <2>2. iteration = 0 /\ Len(history) = iteration /\ Len(llmCalls) =< 2 * iteration
    BY <2>1 DEF RoundsInv, Between
  <2> QED BY <1>1, <1>2, <1>3, <2>1, <2>2 DEF RoundsInv, BudgetInv, InRound, Between,
             AbortsOnlyWhenRoundsExceedBudget
<1>5. CASE DirectAnswer \/ PlannerRaises
  <2>1. pc' = "finished" /\ outcome' \in {"direct", "provider raised"}
    BY <1>5 DEF DirectAnswer, PlannerRaises, Finish
  <2> QED BY <1>1, <1>2, <1>3, <2>1 DEF RoundsInv, BudgetInv, InRound, Between,
             AbortsOnlyWhenRoundsExceedBudget
<1>6. CASE LeaveLoop
  <2>1. pc = "top" /\ pc' = "after" /\ outcome' = outcome /\ outcome = "none"
    BY <1>6 DEF LeaveLoop, RoundsInv
  <2>2. Len(history) = iteration /\ Len(llmCalls) =< 2 * iteration
    BY <2>1 DEF RoundsInv, Between
  <2> QED BY <1>1, <1>2, <1>3, <2>1, <2>2 DEF RoundsInv, BudgetInv, InRound, Between,
             AbortsOnlyWhenRoundsExceedBudget
<1>7. CASE Abort
  <2>1. pc = "after" /\ BudgetReached /\ pc' = "finished" /\ outcome' \in {"aborted", "fallback raised"}
    BY <1>7 DEF Abort, Finish
  <2>2. Len(llmCalls) =< 2 * iteration
    BY <2>1 DEF RoundsInv, Between
  <2>3. 2 * maxIter >= MaxCalls
    <3>1. Len(llmCalls) >= MaxCalls
      BY <2>1 DEF BudgetReached
    <3>2. Len(llmCalls) \in Nat
      BY LengthsAre
    <3> QED BY <2>2, <3>1, <3>2, NumbersAre
  <2> QED BY <1>1, <1>2, <1>3, <2>1, <2>3 DEF RoundsInv, BudgetInv, InRound, Between,
             AbortsOnlyWhenRoundsExceedBudget
<1> QED BY <1>4, <1>5, <1>6, <1>7 DEF Quiet

LEMMA BeginRounds ==
  ASSUME TypeOK, ListsInv, RoundsInv, BudgetInv, BeginRound
  PROVE  RoundsInv' /\ BudgetInv'
<1>1. /\ pc = "top" /\ ~BudgetReached /\ iteration' = iteration + 1 /\ pc' = "planner"
      /\ llmCalls' = Append(llmCalls, "planner") /\ outcome' = outcome /\ outcome = "none"
      /\ UNCHANGED <<history, errors, maxIter>>
  BY DEF BeginRound, Record, RoundsInv
<1>2. Len(llmCalls') = Len(llmCalls) + 1
  BY <1>1, LengthsAre, RolesAre
<1>3. Len(history) = iteration /\ Len(llmCalls) =< 2 * iteration
  BY <1>1 DEF RoundsInv, Between
<1>4. /\ Len(history') = iteration' - 1 /\ Len(llmCalls') =< 2 * iteration' - 1 /\ iteration' > 0
      /\ Len(llmCalls') =< MaxCalls
  BY <1>1, <1>2, <1>3, LengthsAre, NumbersAre DEF BudgetReached
<1> QED BY <1>1, <1>4 DEF RoundsInv, BudgetInv, InRound, Between, NeverOverBudget,
           AbortsOnlyWhenRoundsExceedBudget

LEMMA TakeRounds ==
  ASSUME RoundsInv, BudgetInv, NEW actions, NEW continue, Take(actions, continue)
  PROVE  RoundsInv' /\ BudgetInv'
<1>1. /\ pc = "planner" /\ pc' = "execute"
      /\ UNCHANGED <<maxIter, iteration, history, errors, llmCalls, outcome>>
  BY DEF Take
<1> QED BY <1>1 DEF RoundsInv, BudgetInv, InRound, Between, NeverOverBudget,
           AbortsOnlyWhenRoundsExceedBudget

LEMMA ActRounds ==
  ASSUME RoundsInv, BudgetInv, Act
  PROVE  RoundsInv' /\ BudgetInv'
<1>1. UNCHANGED <<pc, maxIter, iteration, history, errors, llmCalls, outcome>>
  BY DEF Act, RefuseType, ToolRaises, CallTool, UnknownTool, Executing
<1> QED BY <1>1 DEF RoundsInv, BudgetInv, InRound, Between, NeverOverBudget,
           AbortsOnlyWhenRoundsExceedBudget

LEMMA EndsRounds ==
  ASSUME TypeOK, ListsInv, RoundsInv, BudgetInv, Ends
  PROVE  RoundsInv' /\ BudgetInv'
<1>1. /\ RoundDone /\ pc' \in {"top", "after"}
      /\ errors' = errors \/ errors' = errors + 1
      /\ UNCHANGED llmCalls \/ (~BudgetReached /\ llmCalls' = Append(llmCalls, "reflection"))
      /\ UNCHANGED <<maxIter, iteration, outcome>>
  BY EndsIs
<1>2. PICK refl \in Refl : history' = Append(history, Snapshot(refl))
  BY EndsIs
<1> DEFINE snap == Snapshot(refl)
<1>3. snap \in Round /\ snap.round = iteration /\ Len(snap.results) = snap.planned
  BY <1>1, SnapshotIs
<1>4. history' = Append(history, snap)
  BY <1>2
<1> HIDE DEF snap
<1>5. pc = "execute" /\ InRound /\ outcome = "none"
  BY <1>1 DEF RoundDone, InRound, RoundsInv
<1>6. /\ Len(history) = iteration - 1 /\ Len(llmCalls) =< 2 * iteration - 1 /\ errors =< Len(history)
      /\ \A i \in DOMAIN history : history[i].round = i /\ Len(history[i].results) = history[i].planned
  BY <1>5 DEF RoundsInv
<1>7. /\ Len(history') = Len(history) + 1 /\ DOMAIN history' = 1..(Len(history) + 1)
      /\ history'[Len(history) + 1] = snap /\ \A i \in 1..Len(history) : history'[i] = history[i]
      /\ Len(history) \in Nat /\ DOMAIN history = 1..Len(history)
  BY <1>3, <1>4, LengthsAre
<1>8. ASSUME NEW i \in DOMAIN history'
      PROVE  history'[i].round = i /\ Len(history'[i].results) = history'[i].planned
  <2>1. CASE i \in 1..Len(history)
    BY <1>6, <1>7, <2>1
  <2>2. CASE i = Len(history) + 1
    <3>1. history'[i] = snap
      BY <1>7, <2>2
    <3>2. i = iteration
      BY <1>6, <2>2, NumbersAre
    <3> QED BY <1>3, <3>1, <3>2
  <2> QED BY <1>7, <2>1, <2>2
<1>9. Len(history') = iteration /\ errors' =< Len(history')
  BY <1>1, <1>6, <1>7, NumbersAre
<1>10. Len(llmCalls') =< 2 * iteration /\ Len(llmCalls') =< MaxCalls
  <2>1. CASE UNCHANGED llmCalls
    BY <1>6, <2>1, LengthsAre, NumbersAre DEF BudgetInv, NeverOverBudget
  <2>2. CASE ~BudgetReached /\ llmCalls' = Append(llmCalls, "reflection")
    <3>1. Len(llmCalls') = Len(llmCalls) + 1
      BY <2>2, LengthsAre, RolesAre
    <3> QED BY <1>6, <2>2, <3>1, LengthsAre, NumbersAre DEF BudgetReached
  <2> QED BY <1>1, <2>1, <2>2
<1> QED BY <1>1, <1>5, <1>8, <1>9, <1>10 DEF RoundsInv, BudgetInv, InRound, Between,
           NeverOverBudget, AbortsOnlyWhenRoundsExceedBudget

LEMMA SynthesizeRounds ==
  ASSUME TypeOK, ListsInv, RoundsInv, BudgetInv, Synthesize
  PROVE  RoundsInv' /\ BudgetInv'
<1>1. /\ ~BudgetReached /\ llmCalls' = Append(llmCalls, "synthesis") /\ pc' = "finished"
      /\ outcome' \in {"answered", "provider raised"} /\ UNCHANGED <<maxIter, iteration, history, errors>>
  BY DEF Synthesize, Record, Finish
<1>2. Len(llmCalls') =< MaxCalls
  <2>1. Len(llmCalls') = Len(llmCalls) + 1 /\ Len(llmCalls) \in Nat
    BY <1>1, LengthsAre, RolesAre
  <2>2. ~(Len(llmCalls) >= MaxCalls)
    BY <1>1 DEF BudgetReached
  <2> QED BY <2>1, <2>2, NumbersAre
<1> QED BY <1>1, <1>2 DEF RoundsInv, BudgetInv, InRound, Between, NeverOverBudget,
           AbortsOnlyWhenRoundsExceedBudget

LEMMA NextRounds ==
  ASSUME TypeOK, ListsInv, RoundsInv, BudgetInv, [Next]_vars
  PROVE  RoundsInv' /\ BudgetInv'
<1>1. CASE UNCHANGED vars
  BY <1>1 DEF vars, RoundsInv, BudgetInv, InRound, Between, NeverOverBudget,
     AbortsOnlyWhenRoundsExceedBudget
<1> HIDE DEF PlannedAction
<1>2. CASE \E actions \in Seq(PlannedAction), continue \in BOOLEAN : Take(actions, continue)
  BY <1>2, TakeRounds
<1> QED BY <1>1, <1>2, StepsAre, QuietRounds, BeginRounds, ActRounds, EndsRounds, SynthesizeRounds

-----------------------------------------------------------------------------
(* The reflections                                                         *)

Balanced == Cardinality(Reflections(llmCalls)) = Cardinality(FailedRounds(history))

LEMMA InitReflected ==
  ASSUME Init
  PROVE  ReflectedInv
<1>1. Reflections(llmCalls) = {} /\ FailedRounds(history) = {}
  BY DEF Init, Reflections, FailedRounds
<1> QED BY <1>1 DEF ReflectedInv

\* What neither counts.
LEMMA CallsBalanced ==
  ASSUME ListsInv, Balanced, NEW role \in Role, role # "reflection",
         llmCalls' = Append(llmCalls, role), history' = history
  PROVE  Balanced'
<1>1. llmCalls \in Seq(Role)
  BY DEF ListsInv
<1> HIDE DEF Role
<1>2. Cardinality(Reflections(llmCalls')) = Cardinality(Reflections(llmCalls))
  BY <1>1, ReflectionsAre
<1> QED BY <1>2 DEF Balanced

LEMMA EndsBalanced ==
  ASSUME TypeOK, ListsInv, Balanced, Ends, ~(BudgetReached /\ pc' = "after" /\ UNCHANGED llmCalls)
  PROVE  Balanced'
<1>1. /\ RoundDone
      /\ (UNCHANGED llmCalls /\ ~Failed) \/ (Failed /\ llmCalls' = Append(llmCalls, "reflection"))
  BY EndsIs
<1>2. PICK refl \in Refl : history' = Append(history, Snapshot(refl))
  BY EndsIs
<1> DEFINE snap == Snapshot(refl)
<1>3. snap \in Round /\ snap.results = results
  BY <1>1, SnapshotIs
<1>4. history' = Append(history, snap)
  BY <1>2
<1> HIDE DEF snap
<1>5. Failed <=> \E j \in DOMAIN snap.results : ~snap.results[j].ok
  BY <1>3 DEF Failed
<1>6. llmCalls \in Seq(Role) /\ history \in Seq(Round) /\ "reflection" \in Role
  BY RolesAre DEF ListsInv
<1>7. /\ Cardinality(FailedRounds(history)) \in Nat
      /\ Cardinality(FailedRounds(history'))
           = IF Failed THEN Cardinality(FailedRounds(history)) + 1 ELSE Cardinality(FailedRounds(history))
  <2> HIDE DEF Round
  <2> QED BY <1>3, <1>4, <1>5, <1>6, FailedRoundsAre
<1>8. CASE UNCHANGED llmCalls /\ ~Failed
  BY <1>7, <1>8 DEF Balanced
<1>9. CASE Failed /\ llmCalls' = Append(llmCalls, "reflection")
  <2>1. Cardinality(Reflections(llmCalls')) = Cardinality(Reflections(llmCalls)) + 1
    <3> HIDE DEF Role
    <3> QED BY <1>6, <1>9, ReflectionsAre
  <2> QED BY <1>7, <1>9, <2>1 DEF Balanced
<1> QED BY <1>1, <1>8, <1>9

LEMMA NextReflected ==
  ASSUME TypeOK, ListsInv, RoundsInv, ReflectedInv, [Next]_vars
  PROVE  ReflectedInv'
<1>0. /\ ReflectedInv <=> (InRound \/ (Between /\ (pc = "after" => ~BudgetReached))
                             \/ outcome = "answered" => Balanced)
      /\ outcome # "none" <=> pc = "finished"
  BY DEF ReflectedInv, Balanced, RoundsInv
<1>1. CASE UNCHANGED <<pc, llmCalls, history, outcome>>
  BY <1>1 DEF ReflectedInv, InRound, Between, BudgetReached
<1>2. CASE Quiet
  <2>1. llmCalls' = llmCalls /\ history' = history
    BY <1>2, QuietIs
  <2>2. BudgetReached' = BudgetReached /\ Balanced' = Balanced
    BY <2>1 DEF BudgetReached, Balanced
  <2>3. CASE DirectAnswer \/ PlannerRaises \/ Abort
    <3>1. pc' = "finished" /\ outcome' # "answered"
      BY <2>3 DEF DirectAnswer, PlannerRaises, Abort, Finish
    <3> QED BY <3>1 DEF ReflectedInv, InRound, Between
  <2>4. CASE Classify \/ LeaveLoop
    <3>1. pc \in {"classify", "top"}
      BY <2>4 DEF Classify, LeaveLoop
    <3>2. Balanced
      BY <1>0, <3>1 DEF Between
    <3> QED BY <2>1, <3>2 DEF ReflectedInv, Balanced
  <2> QED BY <1>2, <2>3, <2>4 DEF Quiet
<1>3. CASE BeginRound
  <2>1. pc = "top" /\ llmCalls' = Append(llmCalls, "planner") /\ history' = history
    BY <1>3 DEF BeginRound, Record
  <2>2. Balanced
    BY <1>0, <2>1 DEF Between
  <2>3. Balanced'
    BY <2>1, <2>2, CallsBalanced, RolesAre
  <2> QED BY <2>3 DEF ReflectedInv, Balanced
<1>4. CASE \E actions \in Seq(PlannedAction), continue \in BOOLEAN : Take(actions, continue)
  <2>1. pc = "planner" /\ llmCalls' = llmCalls /\ history' = history
    BY <1>4 DEF Take
  <2>2. Balanced
    BY <1>0, <2>1 DEF InRound
  <2> QED BY <2>1, <2>2 DEF ReflectedInv, Balanced
<1>5. CASE Act
  BY <1>1, <1>5 DEF Act, RefuseType, ToolRaises, CallTool, UnknownTool, Executing
<1>6. CASE Ends
  <2>1. pc = "execute" /\ outcome = "none" /\ outcome' = outcome
    BY <1>0, <1>6, EndsIs DEF RoundDone
  <2>2. Balanced
    BY <1>0, <2>1 DEF InRound
  <2>3. CASE BudgetReached /\ pc' = "after" /\ UNCHANGED llmCalls
    <3>1. BudgetReached'
      BY <2>3 DEF BudgetReached
    <3> QED BY <2>1, <2>3, <3>1 DEF ReflectedInv, InRound, Between
  <2>4. CASE ~(BudgetReached /\ pc' = "after" /\ UNCHANGED llmCalls)
    BY <1>6, <2>2, <2>4, EndsBalanced DEF ReflectedInv, Balanced
  <2> QED BY <2>3, <2>4
<1>7. CASE Synthesize
  <2>1. pc = "after" /\ ~BudgetReached /\ llmCalls' = Append(llmCalls, "synthesis") /\ history' = history
    BY <1>7 DEF Synthesize, Record
  <2>2. Balanced
    BY <1>0, <2>1 DEF Between
  <2>3. Balanced'
    BY <2>1, <2>2, CallsBalanced, RolesAre
  <2> QED BY <2>3 DEF ReflectedInv, Balanced
<1>8. CASE UNCHANGED vars
  BY <1>1, <1>8 DEF vars
<1> HIDE DEF PlannedAction
<1> QED BY <1>2, <1>3, <1>4, <1>5, <1>6, <1>7, <1>8, StepsAre

-----------------------------------------------------------------------------
(* What is pending                                                         *)

Waits == PendingInv /\ PendingHasAReason

LEMMA NextWaits ==
  ASSUME TypeOK, ListsInv, TreeStaysWellFormed, Waits, [Next]_vars
  PROVE  Waits'
<1>1. CASE Quiet \/ BeginRound \/ Synthesize
  <2>1. pending' = pending /\ decision' = decision /\ done' = done
    BY <1>1, QuietIs DEF BeginRound, Synthesize
  <2>2. CASE Classify
    <3>1. pc = "classify" /\ pc' \in {"top", "direct"}
      BY <2>2 DEF Classify
    <3>2. pending' = {}
      BY <2>1, <3>1 DEF Waits, PendingInv
    <3> QED BY <3>1, <3>2 DEF Waits, PendingInv, PendingHasAReason
  <2>3. CASE LeaveLoop
    <3>1. pc = "top" /\ pc' = "after"
      BY <2>3 DEF LeaveLoop
    <3> QED BY <2>1, <3>1 DEF Waits, PendingInv, PendingHasAReason
  <2>4. CASE DirectAnswer \/ PlannerRaises \/ Abort \/ BeginRound \/ Synthesize
    <3>1. pc' \in {"finished", "planner"}
      BY <2>4 DEF DirectAnswer, PlannerRaises, Abort, BeginRound, Synthesize, Finish
    <3> QED BY <3>1 DEF Waits, PendingInv, PendingHasAReason
  <2> QED BY <1>1, <2>2, <2>3, <2>4 DEF Quiet
<1>2. CASE \E actions \in Seq(PlannedAction), continue \in BOOLEAN : Take(actions, continue)
  <2>1. PICK actions \in Seq(PlannedAction), continue \in BOOLEAN : Take(actions, continue)
    BY <1>2
  <2>2. /\ pc' = "execute" /\ pending' = ToSet(actions) /\ done' = 0
        /\ decision'.actions = actions
    BY <2>1 DEF Take
  <2>3. ASSUME NEW a \in pending'
        PROVE  \E k \in DOMAIN decision'.actions : k > done' /\ a = decision'.actions[k]
    <3>1. PICK k \in DOMAIN actions : a = actions[k]
      BY <2>2, <2>3 DEF ToSet
    <3>2. k > 0
      <4> HIDE DEF PlannedAction
      <4>1. k \in 1..Len(actions) /\ Len(actions) \in Nat
        OBVIOUS
      <4> QED BY <4>1
    <3> QED BY <2>2, <3>1, <3>2
  <2> QED BY <2>2, <2>3 DEF Waits, PendingInv, PendingHasAReason
<1>3. CASE Act
  <2>1. pc = "execute" /\ pc' = pc /\ decision' = decision /\ done' = done + 1
    BY <1>3, ActIs DEF Executing
  <2>2. pending' \subseteq pending \cup {Action} /\ (Action \in pending' => Lingers(Action))
    BY <1>3, ActIs DEF Executed
  <2>3. ASSUME NEW a \in pending', ~Lingers(a)
        PROVE  \E k \in DOMAIN decision'.actions : k > done' /\ a = decision'.actions[k]
    <3>1. a # Action /\ a \in pending
      BY <2>2, <2>3
    <3>2. PICK k \in DOMAIN decision.actions : k > done /\ a = decision.actions[k]
      BY <2>1, <2>3, <3>1 DEF Waits, PendingInv, Lingers
    <3>3. k # done + 1
      BY <3>1, <3>2 DEF Action
    <3>4. k \in Nat /\ done \in Nat
      <4>1. decision.actions \in Seq(PlannedAction)
        BY DEF ListsInv
      <4> HIDE DEF PlannedAction
      <4>2. Len(decision.actions) \in Nat /\ DOMAIN decision.actions = 1..Len(decision.actions)
        BY <4>1
      <4>3. done \in 0..Len(decision.actions)
        BY DEF TypeOK
      <4> QED BY <3>2, <4>2, <4>3
    <3>5. k > done + 1
      BY <3>2, <3>3, <3>4
    <3> QED BY <2>1, <3>2, <3>5
  <2> QED BY <2>1, <2>3 DEF Waits, PendingInv, PendingHasAReason, Lingers
<1>4. CASE Ends
  <2>1. /\ pc = "execute" /\ done = Len(decision.actions) /\ pc' \in {"top", "after"}
        /\ pending' = pending
    BY <1>4, EndsIs DEF RoundDone
  <2>2. ASSUME NEW a \in pending
        PROVE  Lingers(a)
    <3>1. \A k \in DOMAIN decision.actions : ~(k > done)
      <4>1. decision.actions \in Seq(PlannedAction)
        BY DEF ListsInv
      <4> HIDE DEF PlannedAction
      <4>2. Len(decision.actions) \in Nat /\ DOMAIN decision.actions = 1..Len(decision.actions)
        BY <4>1
      <4> QED BY <2>1, <4>2
    <3> QED BY <2>1, <2>2, <3>1 DEF Waits, PendingInv, Lingers
  <2> QED BY <2>1, <2>2 DEF Waits, PendingInv, PendingHasAReason, Lingers
<1>5. CASE UNCHANGED vars
  BY <1>5 DEF vars, Waits, PendingInv, PendingHasAReason
<1> HIDE DEF PlannedAction
<1> QED BY <1>1, <1>2, <1>3, <1>4, <1>5, StepsAre

-----------------------------------------------------------------------------
(* The theorems                                                            *)

\* The invariant's parts that the others follow from.
LEMMA PartsAre ==
  IInv <=> /\ TypeOK /\ ListsInv /\ TreeStaysWellFormed /\ RoundsInv /\ BudgetInv
           /\ ReflectedInv /\ Waits
<1>1. RoundsInv => RoundsAreRecorded
  BY DEF RoundsInv, RoundsAreRecorded, Between
<1>2. ReflectedInv => FailuresAreReflected
  BY DEF ReflectedInv, FailuresAreReflected
<1> QED BY <1>1, <1>2 DEF IInv, RoundsAreAccountedFor, BudgetIsKept, BudgetInv, Waits

LEMMA TreeSteps ==
  ASSUME TypeOK, ListsInv, TreeStaysWellFormed, [Next]_vars
  PROVE  \/ UNCHANGED tree /\ (UNCHANGED results \/ results' = <<>>)
         \/ Executing /\ \E r \in ToolResult : Executed(r)
<1>1. CASE Act
  BY <1>1, ActIs
<1>2. CASE Quiet
  BY <1>2, QuietIs
<1>3. CASE Ends
  BY <1>3, EndsIs
<1>4. CASE \E actions \in Seq(PlannedAction), continue \in BOOLEAN : Take(actions, continue)
  BY <1>4 DEF Take
<1>5. CASE BeginRound \/ Synthesize \/ UNCHANGED vars
  BY <1>5 DEF BeginRound, Synthesize, vars
<1> HIDE DEF PlannedAction
<1> QED BY <1>1, <1>2, <1>3, <1>4, <1>5, StepsAre

LEMMA InitInv == Init => IInv
<1> SUFFICES ASSUME Init
             PROVE  IInv
  OBVIOUS
<1>1. TreeStaysWellFormed
  BY TreesAssumption DEF Init, TreeStaysWellFormed
<1>2. Waits
  BY DEF Init, Waits, PendingInv, PendingHasAReason
<1> QED BY <1>1, <1>2, InitTypes, InitRounds, InitReflected, PartsAre

LEMMA NextInv == IInv /\ [Next]_vars => IInv'
<1> SUFFICES ASSUME IInv, [Next]_vars
             PROVE  IInv'
  OBVIOUS
<1>1. TypeOK /\ ListsInv /\ TreeStaysWellFormed /\ RoundsInv /\ BudgetInv /\ ReflectedInv /\ Waits
  BY PartsAre
<1>2. TypeOK' /\ ListsInv'
  BY <1>1, NextTypes
<1>3. RoundsInv' /\ BudgetInv'
  BY <1>1, NextRounds
<1>4. ReflectedInv' /\ Waits'
  BY <1>1, NextReflected, NextWaits
<1>5. TreeStaysWellFormed'
  BY <1>1, TreeSteps DEF TreeStaysWellFormed, Executed, Sound
<1>6. RoundsAreRecorded'
  BY <1>3 DEF RoundsInv, RoundsAreRecorded, Between
<1>7. FailuresAreReflected'
  BY <1>4 DEF ReflectedInv, FailuresAreReflected
<1> QED BY <1>2, <1>3, <1>4, <1>5, <1>6, <1>7
        DEF IInv, RoundsAreAccountedFor, BudgetIsKept, BudgetInv, Waits

\* Whatever the model behind the router answers or raises and whatever the tools do,
\* AgentRuntime.run keeps the inductive invariant of its request.
THEOREM Invariant == Spec => []IInv
BY InitInv, NextInv, PTL DEF Spec

\* AgentRuntime.run never makes more model calls than LLMCallMetrics.max_calls, and cuts a
\* request short for it only when its rounds could use the budget up.
THEOREM BudgetKept == Spec => []BudgetIsKept
<1>1. IInv => BudgetIsKept
  BY DEF IInv
<1> QED BY <1>1, Invariant, PTL

\* Each round of AgentRuntime.run that is over has its snapshot and the reflection upon its
\* failures, and ExecutionState keeps pending only what has a reason to be.
THEOREM RoundsAccounted == Spec => []RoundsAreAccountedFor
<1>1. IInv => RoundsAreAccountedFor
  BY DEF IInv
<1> QED BY <1>1, Invariant, PTL

FailedCallSpares ==
  Len(results') > Len(results) /\ ~Last(results').ok => Spares(tree, Action.args, tree')
FileGoes ==
  \A p \in Paths : IsPlain(tree, p) /\ ~IsPlain(tree', p) =>
    \/ Action.args.action = "delete_file" /\ Action.args.path = p
    \/ Action.args.action = "move" /\ IsPrefix(Action.args.path, p)

LEMMA StepKeepsFiles ==
  ASSUME IInv, [Next]_vars
  PROVE  FailedCallSpares /\ FileGoes
<1>1. TypeOK /\ ListsInv /\ TreeStaysWellFormed
  BY PartsAre
<1>2. CASE UNCHANGED tree
  BY <1>2 DEF FailedCallSpares, FileGoes, Spares
<1>3. CASE Executing /\ \E r \in ToolResult : Executed(r)
  <2>1. PICK r \in ToolResult : Executed(r)
    BY <1>3
  <2>2. /\ results' = Append(results, r) /\ (~r.ok => Spares(tree, Action.args, tree'))
        /\ Gone(tree, tree', Action.args)
    BY <2>1 DEF Executed
  <2>3. Last(results') = r
    <3>1. results \in Seq(ToolResult)
      BY <1>1 DEF ListsInv
    <3> HIDE DEF ToolResult
    <3> QED BY <2>2, <3>1 DEF Last
  <2> QED BY <2>2, <2>3 DEF FailedCallSpares, FileGoes, Gone
<1> QED BY <1>1, <1>2, <1>3, TreeSteps

\* Whatever the actions of a request do with the filesystem tool and in which order, the
\* tree stays sound, a call that fails, wherever the operating system failed it, touches no
\* file but the one it writes, which stays a file, and a file goes only by delete_file
\* or by a move of it or of what holds it.
THEOREM Files == Spec => FilesAreKept
<1>1. IInv => TreeStaysWellFormed
  BY DEF IInv
<1>2. IInv /\ [Next]_vars => [FailedCallSpares]_vars /\ [FileGoes]_vars
  BY StepKeepsFiles
<1>3. Spec => []TreeStaysWellFormed
  BY <1>1, Invariant, PTL
<1>4. Spec => [][FailedCallSpares]_vars /\ [][FileGoes]_vars
  BY <1>2, Invariant, PTL DEF Spec
<1>5. FailedCallsSpareFiles <=> [][FailedCallSpares]_vars
  BY DEF FailedCallsSpareFiles, FailedCallSpares
<1>6. FilesGoByDeleteOrMove <=> [][FileGoes]_vars
  BY DEF FilesGoByDeleteOrMove, FileGoes
<1> QED BY <1>3, <1>4, <1>5, <1>6, PTL DEF FilesAreKept

=============================================================================
