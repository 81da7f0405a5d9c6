---------------------------- MODULE Parts_proofs ----------------------------
(***************************************************************************)
(* Proofs about the smaller parts of the program, one after the other:     *)
(* CInfoZip (the libraries are ready when the program was told so), the    *)
(* picture viewer (a run leaves it on its tablet), the rows of C.txt (not  *)
(* waiting for a command loses nothing), the clock, the index file and the *)
(* list of students (what is written is read back), the nodes CMarkup cuts *)
(* a text into (they cover it), and the tree it makes of them (no element  *)
(* of it is lost, that of a well-formed text is the tree the text says,    *)
(* and a package is found in it just if the text has it under its root).   *)
(***************************************************************************)
EXTENDS InfoZip, PicViewer, Config, Clock, IndexFile, StudentList, TokenPos, Markup,
        FiniteSetTheorems, SequenceTheorems, WellFoundedInduction, TLAPS

(***************************** Induction ************************************)

\* What holds of 0, and of n + 1 if of n, holds of every number.
LEMMA InductionOver ==
  ASSUME NEW T, 0 \in T, \A n \in Nat : n \in T => n + 1 \in T
  PROVE  Nat \subseteq T
<1> DEFINE R == OpToRel(<, Nat)
<1>1. \A x, y \in Nat : <<x, y>> \in R <=> x < y
  BY DEF OpToRel
<1>2. IsWellFoundedOn(R, Nat)
  BY NatLessThanWellFounded
<1> HIDE DEF R
<1> SUFFICES ASSUME Nat \ T # {} PROVE FALSE
  OBVIOUS
<1>3. PICK x \in Nat \ T : \A y \in Nat \ T : <<y, x>> \notin R
  BY <1>2, WFMin, Zenon
<1>4. x # 0 /\ x - 1 \in Nat
  BY <1>3
<1>5. x - 1 \notin T
  BY <1>3, <1>4
<1>6. <<x - 1, x>> \in R
  BY <1>1, <1>4
<1> QED
  BY <1>3, <1>4, <1>5, <1>6

\* f starts with b and goes on with step.
Stepwise(f, b, step, m) ==
  f = [n \in 0 .. m |-> IF n = 0 THEN b ELSE step[n][f[n - 1]]]

\* There is such a function on 0 .. m.
LEMMA StepwiseExists ==
  ASSUME NEW S, NEW b \in S, NEW m \in Nat, NEW step \in [1 .. m -> [S -> S]]
  PROVE  \E f \in [0 .. m -> S] : Stepwise(f, b, step, m)
<1> USE DEF Stepwise
<1> DEFINE Is(f, k) == Stepwise(f, b, step, k)
           T == {k \in Nat : k <= m => \E f \in [0 .. k -> S] : Is(f, k)}
<1>1. 0 \in T
  <2> DEFINE f == [n \in 0 .. 0 |-> b]
  <2>1. f \in [0 .. 0 -> S] /\ Is(f, 0)
    OBVIOUS
  <2> QED
    BY <2>1
<1>2. ASSUME NEW k \in Nat, k \in T
      PROVE  k + 1 \in T
  <2>1. SUFFICES ASSUME k + 1 <= m PROVE \E g \in [0 .. k + 1 -> S] : Is(g, k + 1)
    OBVIOUS
  <2>2. PICK f \in [0 .. k -> S] : Is(f, k)
    BY <1>2, <2>1
  <2>3. f[k] \in S /\ step[k + 1] \in [S -> S] /\ step[k + 1][f[k]] \in S
    BY <2>1
  <2> DEFINE g == [n \in 0 .. k + 1 |-> IF n = k + 1 THEN step[k + 1][f[k]] ELSE f[n]]
  <2>4. g \in [0 .. k + 1 -> S]
    BY <2>3
  <2>5. ASSUME NEW n \in 0 .. k + 1
        PROVE  g[n] = IF n = 0 THEN b ELSE step[n][g[n - 1]]
    <3>1. CASE n = k + 1
      BY <3>1
    <3>2. CASE n # k + 1
      <4>1. n \in 0 .. k /\ g[n] = f[n]
        BY <3>2
      <4>2. f[n] = IF n = 0 THEN b ELSE step[n][f[n - 1]]
        BY <2>2, <4>1
      <4>3. n # 0 => g[n - 1] = f[n - 1]
        BY <4>1
      <4> QED
        BY <4>1, <4>2, <4>3
    <3> QED
      BY <3>1, <3>2
  <2>6. Is(g, k + 1)
    BY <2>5
  <2> QED
    BY <2>4, <2>6
<1> HIDE DEF T
<1>3. m \in T
  BY <1>1, <1>2, InductionOver
<1> QED
  BY <1>3 DEF T

\* The first n members of a sequence.
LEMMA FirstOnes ==
  ASSUME NEW S, NEW s \in Seq(S), NEW n \in Nat, n <= Len(s)
  PROVE  /\ SubSeq(s, 1, n) \in Seq(S) /\ Len(SubSeq(s, 1, n)) = n
         /\ \A k \in 1 .. n : SubSeq(s, 1, n)[k] = s[k]
<1> DEFINE p == SubSeq(s, 1, n)
<1>1. \A k \in 1 .. n : s[k] \in S
  OBVIOUS
<1>2. 1 \in Int /\ n \in Int
  OBVIOUS
<1>3. /\ p \in Seq(S) /\ Len(p) = (IF 1 <= n THEN n - 1 + 1 ELSE 0)
      /\ \A k \in 1 .. n - 1 + 1 : p[k] = s[1 + k - 1]
  BY <1>1, <1>2, SubSeqProperties
<1> HIDE DEF p
<1>4. \A k \in 1 .. n : 1 + k - 1 = k /\ k \in 1 .. n - 1 + 1
  OBVIOUS
<1>5. \A k \in 1 .. n : p[k] = s[k]
  BY <1>3, <1>4
<1>6. p \in Seq(S) /\ Len(p) = n
  <2>1. p \in Seq(S) /\ Len(p) = (IF 1 <= n THEN n - 1 + 1 ELSE 0)
    BY <1>3, Zenon
  <2>2. (IF 1 <= n THEN n - 1 + 1 ELSE 0) = n
    OBVIOUS
  <2> QED
    BY <2>1, <2>2
<1> QED
  BY <1>5, <1>6, Zenon DEF p

\* What it is to begin with a sequence, member by member.
LEMMA PrefixMeans ==
  ASSUME NEW S, NEW s \in Seq(S), NEW t \in Seq(S)
  PROVE  IsPrefix(s, t) <=> Len(s) <= Len(t) /\ \A k \in 1 .. Len(s) : s[k] = t[k]
<1> DEFINE n == Len(s)
           p == SubSeq(s, 1, n)
           q == SubSeq(t, 1, n)
<1>1. n \in Nat /\ Len(t) \in Nat
  OBVIOUS
<1>2. p \in Seq(S) /\ Len(p) = n /\ \A k \in 1 .. n : p[k] = s[k]
  BY <1>1, FirstOnes
<1>3. n <= Len(t) => q \in Seq(S) /\ Len(q) = n /\ \A k \in 1 .. n : q[k] = t[k]
  BY <1>1, FirstOnes
<1>4. IsPrefix(s, t) <=> n <= Len(t) /\ p = q
  BY DEF IsPrefix
<1> HIDE DEF p, q, n
<1>5. n <= Len(t) => (p = q <=> \A k \in 1 .. n : p[k] = q[k])
  BY <1>2, <1>3, SeqEqual
<1>6. n <= Len(t) => ((\A k \in 1 .. n : p[k] = q[k]) <=> \A k \in 1 .. n : s[k] = t[k])
  BY <1>2, <1>3
<1>7. IsPrefix(s, t) <=> n <= Len(t) /\ \A k \in 1 .. n : s[k] = t[k]
  BY <1>4, <1>5, <1>6
<1> QED
  BY <1>7 DEF n

\* f[k] is the first k parts, one behind the other.
Joined(f, parts, m) == f = [k \in 0 .. m |-> IF k = 0 THEN <<>> ELSE f[k - 1] \o parts[k]]

\* They can be joined.
LEMMA JoinedExists ==
  ASSUME NEW S, NEW m \in Nat, NEW parts \in [1 .. m -> Seq(S)]
  PROVE  \E f \in [0 .. m -> Seq(S)] : Joined(f, parts, m)
<1> DEFINE e == <<>>
           step == [k \in 1 .. m |-> [t \in Seq(S) |-> t \o parts[k]]]
<1>1. e \in Seq(S)
  BY EmptySeq
<1>2. step \in [1 .. m -> [Seq(S) -> Seq(S)]]
  <2>1. ASSUME NEW k \in 1 .. m, NEW t \in Seq(S)
        PROVE  t \o parts[k] \in Seq(S)
    BY ConcatProperties
  <2> QED
    BY <2>1
<1> HIDE DEF e, step
<1>3. PICK f \in [0 .. m -> Seq(S)] : Stepwise(f, e, step, m)
  BY <1>1, <1>2, StepwiseExists
<1>4. \A k \in 0 .. m : k # 0 => step[k][f[k - 1]] = f[k - 1] \o parts[k]
  <2> TAKE k \in 0 .. m
  <2> HAVE k # 0
  <2>1. k \in 1 .. m /\ k - 1 \in 0 .. m
    OBVIOUS
  <2>2. f[k - 1] \in Seq(S)
    BY <2>1
  <2> QED
    BY <2>1, <2>2 DEF step
<1>5. f = [k \in 0 .. m |-> IF k = 0 THEN e ELSE f[k - 1] \o parts[k]]
  <2>1. f = [k \in 0 .. m |-> IF k = 0 THEN e ELSE step[k][f[k - 1]]]
    BY <1>3, Zenon DEF Stepwise
  <2>2. \A k \in 0 .. m : f[k] = IF k = 0 THEN e ELSE f[k - 1] \o parts[k]
    BY <1>4, <2>1, Zenon
  <2> QED
    BY <2>2
<1> QED
  BY <1>5 DEF Joined, e

\* What is joined is at first empty and then longer by each part.
LEMMA JoinedSteps ==
  ASSUME NEW m \in Nat, NEW parts, NEW g, Joined(g, parts, m)
  PROVE  Len(g[0]) = 0 /\ \A k \in 1 .. m : g[k] = g[k - 1] \o parts[k]
<1> DEFINE e == <<>>
<1>1. g = [k \in 0 .. m |-> IF k = 0 THEN e ELSE g[k - 1] \o parts[k]] /\ Len(e) = 0
  BY DEF Joined
<1> HIDE DEF e
<1>2. \A k \in 0 .. m : g[k] = IF k = 0 THEN e ELSE g[k - 1] \o parts[k]
  BY <1>1, Zenon
<1>3. 0 \in 0 .. m /\ \A k \in 1 .. m : k \in 0 .. m /\ k # 0
  OBVIOUS
<1>4. g[0] = e /\ \A k \in 1 .. m : g[k] = g[k - 1] \o parts[k]
  BY <1>2, <1>3, Zenon
<1> QED
  BY <1>1, <1>4, Zenon

\* Of parts that are sequences it is one.
LEMMA JoinedType ==
  ASSUME NEW S, NEW m \in Nat, NEW parts \in [1 .. m -> Seq(S)], NEW g, Joined(g, parts, m)
  PROVE  g \in [0 .. m -> Seq(S)]
<1> DEFINE e == <<>>
           T == {k \in Nat : k <= m => g[k] \in Seq(S)}
<1>1. e \in Seq(S) /\ g[0] = e
  BY EmptySeq DEF Joined
<1>2. DOMAIN g = 0 .. m /\ g = [k \in 0 .. m |-> g[k]]
  BY DEF Joined
<1>s. \A k \in 1 .. m : g[k] = g[k - 1] \o parts[k]
  BY JoinedSteps
<1>3. 0 \in T
  <2> HIDE DEF e
  <2> QED
    BY <1>1
<1>4. ASSUME NEW k \in Nat, k \in T PROVE k + 1 \in T
  <2> SUFFICES ASSUME k + 1 <= m PROVE g[k + 1] \in Seq(S)
    OBVIOUS
  <2>1. k + 1 \in 1 .. m /\ (k + 1) - 1 = k /\ k <= m
    OBVIOUS
  <2>2. g[k] \in Seq(S)
    BY <1>4, <2>1
  <2>3. g[k + 1] = g[k] \o parts[k + 1] /\ parts[k + 1] \in Seq(S)
    BY <2>1, <1>s
  <2> QED
    BY <2>2, <2>3, ConcatProperties
<1>5. \A k \in 0 .. m : g[k] \in Seq(S)
  <2> HIDE DEF T
  <2>1. Nat \subseteq T
    BY <1>3, <1>4, InductionOver
  <2> QED
    BY <2>1 DEF T
<1> QED
  BY <1>2, <1>5

(************************* CInfoZip: infoZip1.cpp ***************************)

Ready(lib, l) == GetInitialized(lib, l)

\* A library whose handle is kept is loaded.
Held(lib) == \A k \in Libs : "handle" \in lib[k].set => lib[k].loads >= 1

(* One call of InitializeZip or InitializeUnzip touches its own library only;
   when the unzip library is ready it does nothing and reports success,
   otherwise it reports whether its library is ready now. *)
LEMMA LoadResult ==
  ASSUME NEW lib \in ZState, Held(lib), NEW l \in Libs, NEW a \in Load(lib, l)
  PROVE  /\ a.lib \in ZState /\ a.ok \in BOOLEAN /\ Held(a.lib)
         /\ \A k \in Libs : k # l => a.lib[k] = lib[k]
         /\ Ready(lib, "unzip") => a.lib = lib /\ a.ok
         /\ ~Ready(lib, "unzip") =>
              /\ a.ok <=> Ready(a.lib, l)
              /\ a.ok => a.lib[l].loads = lib[l].loads + 1
<1>1. CASE Ready(lib, "unzip")
  <2>1. a = [lib |-> lib, ok |-> TRUE]
    BY <1>1 DEF Load, Ready, Asks
  <2> QED
    BY <1>1, <2>1
<1>2. CASE ~Ready(lib, "unzip")
  <2>1. PICK m \in Lookups(lib[l].set) :
          a = [lib |-> [lib EXCEPT ![l] =
                         [set |-> m,
                          loads |-> IF "handle" \in m THEN lib[l].loads + 1
                                    ELSE lib[l].loads]],
               ok |-> m = Members]
    BY <1>2 DEF Load, Ready, Asks
  <2>2. m \in SUBSET Members
    BY DEF Lookups, ZState, Members
  <2>3. lib[l].loads \in Nat /\ lib[l].loads + 1 \in Nat
    BY DEF ZState
  <2>4. a.lib[l].set = m /\ (m = Members => a.lib[l].loads = lib[l].loads + 1)
    BY <2>1 DEF ZState, Members
  <2>5. a.lib \in ZState
    BY <2>1, <2>2, <2>3 DEF ZState
  <2>6. Held(a.lib)
    BY <2>1, <2>3 DEF Held, ZState
  <2> QED
    BY <1>2, <2>1, <2>4, <2>5, <2>6 DEF Ready, GetInitialized, ZState
<1> QED
  BY <1>1, <1>2

(* Initialize loads both libraries or fails with the unzip library not ready;
   when the unzip library is ready it does nothing. *)
LEMMA LoadBothResult ==
  ASSUME NEW lib \in ZState, Held(lib), NEW a \in LoadBoth(lib)
  PROVE  /\ a.lib \in ZState /\ a.ok \in BOOLEAN /\ Held(a.lib)
         /\ Ready(lib, "unzip") => a.lib = lib /\ a.ok
         /\ ~Ready(lib, "unzip") =>
              /\ a.ok => \A l \in Libs : /\ Ready(a.lib, l)
                                         /\ a.lib[l].loads = lib[l].loads + 1
              /\ ~a.ok => ~Ready(a.lib, "unzip")
<1>1. PICK b \in Load(lib, "zip") : a \in IF b.ok THEN Load(b.lib, "unzip") ELSE {b}
  BY DEF LoadBoth
<1>2. "zip" \in Libs /\ "unzip" \in Libs
  BY DEF Libs
<1>3. /\ b.lib \in ZState /\ b.ok \in BOOLEAN /\ Held(b.lib)
      /\ b.lib["unzip"] = lib["unzip"]
      /\ Ready(lib, "unzip") => b.lib = lib /\ b.ok
      /\ ~Ready(lib, "unzip") =>
           /\ b.ok <=> Ready(b.lib, "zip")
           /\ b.ok => b.lib["zip"].loads = lib["zip"].loads + 1
  BY <1>1, <1>2, LoadResult
<1>4. Ready(b.lib, "unzip") <=> Ready(lib, "unzip")
  BY <1>3 DEF Ready, GetInitialized
<1>5. CASE ~b.ok
  BY <1>1, <1>3, <1>4, <1>5
<1>6. CASE b.ok
  <2>1. a \in Load(b.lib, "unzip")
    BY <1>1, <1>6
  <2>2. /\ a.lib \in ZState /\ a.ok \in BOOLEAN /\ Held(a.lib)
        /\ a.lib["zip"] = b.lib["zip"]
        /\ Ready(b.lib, "unzip") => a.lib = b.lib /\ a.ok
        /\ ~Ready(b.lib, "unzip") =>
             /\ a.ok <=> Ready(a.lib, "unzip")
             /\ a.ok => a.lib["unzip"].loads = b.lib["unzip"].loads + 1
    BY <1>2, <1>3, <2>1, LoadResult
  <2>3. Ready(a.lib, "zip") <=> Ready(b.lib, "zip")
    BY <2>2 DEF Ready, GetInitialized
  <2> QED
    BY <1>3, <1>4, <1>6, <2>2, <2>3 DEF Libs
<1> QED
  BY <1>3, <1>5, <1>6

-----------------------------------------------------------------------------
\* A program that keeps to one pair of functions.
Only(pair) == zUses \subseteq {pair}

\* The unzip library is as the program was told; with only one pair in use,
\* so is the zip library, because then the flag that InitializeZip asks for
\* is never set, or set together with its own.
Told ==
  /\ "unzip" \in zTrusted => Ready(zLib, "unzip")
  /\ "unzip" \notin zNull
  /\ Only("zip") => ~Ready(zLib, "unzip")
  /\ Only("unzip") => "zip" \notin zTrusted
  /\ Only("both") /\ Ready(zLib, "unzip") => Ready(zLib, "zip")
  /\ OnePair => /\ "zip" \in zTrusted => Ready(zLib, "zip")
                /\ "zip" \notin zNull

\* Without a failure the libraries are loaded once or not at all.
Once(l) == zLib[l].loads = IF Ready(zLib, l) THEN 1 ELSE 0

Counted ==
  ~zFailed =>
    /\ Once("unzip")
    /\ Only("both") => Once("zip") /\ (Ready(zLib, "zip") <=> Ready(zLib, "unzip"))

ZipInv == ZTypeOK /\ Held(zLib) /\ Told /\ Counted

LEMMA ZipInitInv == ZInit => ZipInv
<1> SUFFICES ASSUME ZInit PROVE ZipInv
  OBVIOUS
<1>1. {} \in SUBSET Members /\ 0 \in Nat /\ {} # Members
  BY DEF Members
<1>2. /\ zLib = [l \in Libs |-> [set |-> {}, loads |-> 0]]
      /\ zTrusted = {} /\ zNull = {} /\ zUses = {} /\ zFailed = FALSE
  BY DEF ZInit
<1>3. ZTypeOK
  BY <1>1, <1>2 DEF ZTypeOK, ZState
<1>4. \A l \in Libs : ~Ready(zLib, l) /\ zLib[l].loads = 0 /\ zLib[l].set = {}
  BY <1>1, <1>2 DEF Ready, GetInitialized
<1>5. "zip" \in Libs /\ "unzip" \in Libs
  BY DEF Libs
<1> QED
  BY <1>2, <1>3, <1>4, <1>5 DEF ZipInv, Told, Counted, Once, Held

(* The libraries after an Initialize: what it reports, and that it changes no
   load count when it fails before the other library. *)
LEMMA InitializeInv ==
  ASSUME ZipInv, NEW pair \in Pairs, Initialize(pair)
  PROVE  ZipInv'
<1>1. PICK a \in IF pair = "both" THEN LoadBoth(zLib) ELSE Load(zLib, pair) :
        /\ zLib' = a.lib
        /\ zTrusted' = IF a.ok THEN zTrusted \cup Concerns(pair)
                       ELSE zTrusted \ Concerns(pair)
        /\ zFailed' = (zFailed \/ ~a.ok)
  BY DEF Initialize
<1>2. zUses' = zUses \cup {pair} /\ zNull' = zNull
  BY DEF Initialize
<1>3. "zip" \in Libs /\ "unzip" \in Libs /\ zLib \in ZState /\ Held(zLib)
  BY DEF Libs, ZipInv, ZTypeOK
<1>4. CASE pair = "both"
  <2>1. /\ zLib' \in ZState /\ a.ok \in BOOLEAN /\ Held(zLib)'
        /\ Ready(zLib, "unzip") => zLib' = zLib /\ a.ok
        /\ ~Ready(zLib, "unzip") =>
             /\ a.ok => \A l \in Libs : /\ Ready(zLib', l)
                                        /\ zLib'[l].loads = zLib[l].loads + 1
             /\ ~a.ok => ~Ready(zLib', "unzip")
    BY <1>1, <1>3, <1>4, LoadBothResult DEF Held
  <2>2. Concerns(pair) = Libs
    BY <1>4 DEF Concerns
  <2>3. ZTypeOK'
    BY <1>1, <1>2, <2>1, <2>2 DEF ZipInv, ZTypeOK
  <2>4. ~Only("zip")' /\ ~Only("unzip")' /\ (OnePair' => Only("both"))
    BY <1>2, <1>4 DEF Only, OnePair, Pairs
  <2>5. OnePair
      <=> \E p \in Pairs : Only(p)
    BY DEF OnePair, Only
  <2>6. Told'
    <3>1. Only("both")' => Only("both")
      BY <1>2 DEF Only
    <3>2. (OnePair' => OnePair /\ Only("both")) /\ zNull' = zNull
      BY <1>2, <2>4, <2>5, <3>1 DEF Pairs
    <3>3. CASE Ready(zLib, "unzip")
      <4>1. zLib' = zLib
        BY <2>1, <3>3
      <4> QED
        BY <3>1, <3>2, <3>3, <4>1, <2>4 DEF ZipInv, Told
    <3>4. CASE ~Ready(zLib, "unzip") /\ a.ok
      <4>1. Ready(zLib', "zip") /\ Ready(zLib', "unzip")
        BY <1>3, <2>1, <3>4
      <4> QED
        BY <3>2, <4>1, <2>4 DEF ZipInv, Told
    <3>5. CASE ~Ready(zLib, "unzip") /\ ~a.ok
      <4>1. ~Ready(zLib', "unzip") /\ "zip" \notin zTrusted' /\ "unzip" \notin zTrusted'
        BY <1>1, <1>3, <2>1, <2>2, <3>5
      <4> QED
        BY <3>2, <4>1, <2>4 DEF ZipInv, Told
    <3> QED
      BY <2>1, <3>3, <3>4, <3>5
  <2>7. Counted'
    <3>1. SUFFICES ASSUME ~zFailed' PROVE Counted'
      BY DEF Counted
    <3>2. ~zFailed /\ a.ok
      BY <1>1, <2>1, <3>1 DEF ZipInv, ZTypeOK
    <3>3. Only("both")' => Only("both")
      BY <1>2 DEF Only
    <3>4. CASE Ready(zLib, "unzip")
      <4>1. zLib' = zLib
        BY <2>1, <3>4
      <4> QED
        BY <3>2, <3>3, <4>1 DEF ZipInv, Counted, Once
    <3>5. CASE ~Ready(zLib, "unzip")
      <4>1. /\ Ready(zLib', "zip") /\ Ready(zLib', "unzip")
            /\ zLib'["zip"].loads = zLib["zip"].loads + 1
            /\ zLib'["unzip"].loads = zLib["unzip"].loads + 1
        BY <1>3, <2>1, <3>2, <3>5
      <4>2. zLib["unzip"].loads = 0 /\ (Only("both") => zLib["zip"].loads = 0)
        BY <3>2, <3>5 DEF ZipInv, Counted, Once
      <4> QED
        BY <3>3, <4>1, <4>2 DEF Counted, Once
    <3> QED
      BY <3>4, <3>5
  <2> QED
    BY <2>1, <2>3, <2>6, <2>7 DEF ZipInv
<1>5. CASE pair \in Libs
  <2>1. /\ zLib' \in ZState /\ a.ok \in BOOLEAN /\ Held(zLib)'
        /\ \A k \in Libs : k # pair => zLib'[k] = zLib[k]
        /\ Ready(zLib, "unzip") => zLib' = zLib /\ a.ok
        /\ ~Ready(zLib, "unzip") =>
             /\ a.ok <=> Ready(zLib', pair)
             /\ a.ok => zLib'[pair].loads = zLib[pair].loads + 1
    BY <1>1, <1>3, <1>5, LoadResult DEF Libs, Held
  <2>2. Concerns(pair) = {pair}
    BY <1>5 DEF Concerns, Libs
  <2>3. ZTypeOK'
    BY <1>1, <1>2, <1>5, <2>1, <2>2 DEF ZipInv, ZTypeOK
  <2>4. \A k \in Libs : k # pair => (Ready(zLib', k) <=> Ready(zLib, k))
    BY <2>1 DEF Ready, GetInitialized
  <2>5. ~Only("both")' /\ (OnePair' => Only(pair) /\ OnePair)
    BY <1>2, <1>5 DEF Only, OnePair, Pairs, Libs
  <2>6. CASE pair = "zip"
    <3>1. ~Only("unzip")' /\ (Only("zip")' => Only("zip"))
      BY <1>2, <2>6 DEF Only
    <3>2. Told'
      BY <1>1, <1>2, <1>3, <2>1, <2>2, <2>4, <2>5, <2>6, <3>1 DEF ZipInv, Told
    <3>3. Counted'
      BY <1>1, <1>3, <2>1, <2>4, <2>5, <2>6 DEF ZipInv, Counted, Once
    <3> QED
      BY <2>1, <2>3, <3>2, <3>3 DEF ZipInv
  <2>7. CASE pair = "unzip"
    <3>1. ~Only("zip")' /\ (Only("unzip")' => Only("unzip"))
      BY <1>2, <2>7 DEF Only
    <3>2. Told'
      BY <1>1, <1>2, <1>3, <2>1, <2>2, <2>4, <2>5, <2>7, <3>1 DEF ZipInv, Told
    <3>3. Counted'
      <4>1. SUFFICES ASSUME ~zFailed' PROVE Counted'
        BY DEF Counted
      <4>2. ~zFailed /\ a.ok
        BY <1>1, <2>1, <4>1 DEF ZipInv, ZTypeOK
      <4>3. Once("unzip")'
        BY <1>3, <2>1, <2>7, <4>2 DEF ZipInv, Counted, Once
      <4> QED
        BY <2>5, <4>3 DEF Counted
    <3> QED
      BY <2>1, <2>3, <3>2, <3>3 DEF ZipInv
  <2> QED
    BY <1>5, <2>6, <2>7 DEF Libs
<1> QED
  BY <1>4, <1>5 DEF Pairs, Libs

LEMMA FinalizeInv ==
  ASSUME ZipInv, NEW pair \in Pairs, Finalize(pair)
  PROVE  ZipInv'
<1>1. /\ zLib' = [l \in Libs |-> IF l \in Concerns(pair) /\ Ready(zLib, l)
                                 THEN Free(l) ELSE zLib[l]]
      /\ zTrusted' = zTrusted \ Concerns(pair)
      /\ zUses' = zUses \cup {pair} /\ zNull' = zNull /\ zFailed' = zFailed
  BY DEF Finalize, Ready
<1>2. {} \in SUBSET Members /\ {} # Members /\ "handle" \in Members
  BY DEF Members
<1>3. "zip" \in Libs /\ "unzip" \in Libs
  BY DEF Libs
<1>4. \A l \in Libs :
        /\ l \in Concerns(pair) => ~Ready(zLib', l)
        /\ ~(l \in Concerns(pair) /\ Ready(zLib, l)) => zLib'[l] = zLib[l]
        /\ l \in Concerns(pair) /\ Ready(zLib, l) =>
             zLib'[l].loads = zLib[l].loads - 1 /\ zLib'[l].set = {}
  BY <1>1, <1>2 DEF Ready, GetInitialized, Free
<1>5. \A l \in Libs : Ready(zLib, l) => zLib[l].loads \in Nat /\ zLib[l].loads - 1 \in Nat
  BY <1>2 DEF ZipInv, ZTypeOK, ZState, Held, Ready, GetInitialized
<1>6. zLib' \in ZState
  BY <1>1, <1>2, <1>5 DEF Free, ZipInv, ZTypeOK, ZState
<1>7. ZTypeOK'
  BY <1>1, <1>6 DEF ZipInv, ZTypeOK
<1>8. Held(zLib)'
  BY <1>4 DEF ZipInv, Held
<1>9. \A l \in Libs : Ready(zLib', l) => Ready(zLib, l) /\ zLib'[l] = zLib[l]
  BY <1>4 DEF Ready, GetInitialized
<1>10. \A p \in Pairs : Only(p)' => Only(p) /\ pair = p
  BY <1>1 DEF Only
<1>11. OnePair' => OnePair
  BY <1>1 DEF OnePair
<1>12. Concerns("both") = Libs /\ \A l \in Libs : l # "both" => Concerns(l) = {l}
  BY DEF Concerns
<1>14. \A l \in Libs : l \in zTrusted' => l \in zTrusted /\ l \notin Concerns(pair)
  BY <1>1
<1>15. \A l \in Libs : Ready(zLib, l) /\ l \notin Concerns(pair) => Ready(zLib', l)
  BY <1>4 DEF Ready, GetInitialized
<1>16. Only("both")' /\ Ready(zLib', "unzip") => FALSE
  BY <1>3, <1>4, <1>10, <1>12 DEF Pairs
<1>17. Told'
  BY <1>1, <1>3, <1>9, <1>10, <1>11, <1>14, <1>15, <1>16 DEF ZipInv, Told, Pairs
<1>18. Counted'
  <2>1. SUFFICES ASSUME ~zFailed' PROVE Counted'
    BY DEF Counted
  <2>2. ~zFailed
    BY <1>1, <2>1
  <2>3. \A l \in Libs : Once(l) => Once(l)'
    BY <1>4, <1>9, <1>15 DEF Once
  <2>4. Only("both")' => \A l \in Libs : ~Ready(zLib', l)
    BY <1>4, <1>10, <1>12 DEF Pairs
  <2> QED
    BY <1>3, <1>10, <2>2, <2>3, <2>4 DEF ZipInv, Counted, Pairs
<1> QED
  BY <1>7, <1>8, <1>17, <1>18 DEF ZipInv

LEMMA CallInv ==
  ASSUME ZipInv, NEW l \in Libs, CallLib(l)
  PROVE  ZipInv'
<1>1. /\ zLib' = zLib /\ zTrusted' = zTrusted /\ zUses' = zUses /\ zFailed' = zFailed
      /\ zNull' = IF "exec" \in zLib[l].set THEN zNull ELSE zNull \cup {l}
      /\ l \in zTrusted
  BY DEF CallLib
<1>2. Ready(zLib, l) => zNull' = zNull
  BY <1>1 DEF Ready, GetInitialized, Members
<1>3. ZTypeOK'
  BY <1>1 DEF ZipInv, ZTypeOK
<1>4. Told'
  <2>1. \A k \in Libs : k \in zNull' => k \in zNull \/ (k = l /\ ~Ready(zLib, l))
    BY <1>1, <1>2
  <2>2. l = "zip" \/ l = "unzip"
    BY DEF Libs
  <2> QED
    BY <1>1, <2>1, <2>2 DEF ZipInv, Told, Only, OnePair, Libs
<1> QED
  BY <1>1, <1>3, <1>4 DEF ZipInv, Held, Counted, Once, Only

THEOREM ZipInductive == ZSpec => []ZipInv
<1>1. ASSUME ZipInv, [ZNext]_zVars PROVE ZipInv'
  <2>1. CASE ZNext
    BY <1>1, <2>1, InitializeInv, FinalizeInv, CallInv DEF ZNext
  <2>2. CASE UNCHANGED zVars
    BY <1>1, <2>2 DEF zVars, ZipInv, ZTypeOK, Held, Told, Counted, Once, Only, OnePair
  <2> QED
    BY <1>1, <2>1, <2>2
<1> QED
  BY ZipInitInv, <1>1, PTL DEF ZSpec

(* A library is ready when the program was told so, and never called through
   a NULL pointer (InitializeZip, InitializeUnzip, AddFiles, ExtractFiles). *)
THEOREM ReadyWhenToldHolds == ZSpec => []ReadyWhenTold
<1>1. ZipInv => ReadyWhenTold
  BY DEF ZipInv, Told, ReadyWhenTold, Ready, Libs
<1> QED
  BY ZipInductive, <1>1, PTL

(* Loading and freeing are in balance: each library is loaded once or not at
   all, so that FreeLibrary really unloads it. *)
THEOREM LoadsBalancedHolds == ZSpec => []LoadsBalanced
<1>1. ZipInv => LoadsBalanced
  <2> SUFFICES ASSUME ZipInv, NEW l \in Libs, ~zFailed,
                      l = "unzip" \/ zUses \subseteq {"both"}
               PROVE  zLib[l].loads = IF GetInitialized(zLib, l) THEN 1 ELSE 0
    BY DEF LoadsBalanced
  <2>1. Once(l)
    BY DEF ZipInv, Counted, Only, Libs
  <2> QED
    BY <2>1 DEF Once, Ready
<1> QED
  BY ZipInductive, <1>1, PTL

(****************** The picture viewer: Install_process *********************)

(* The variables keep their types. *)
PvTyped ==
  /\ pvViewer \in [PvTablets -> BOOLEAN] /\ pvDev \in PvTablets
  /\ pvList \in Lists /\ pvApk \in BOOLEAN /\ pvZip \in BOOLEAN /\ pvDied \in BOOLEAN
  /\ pvFaults \subseteq Faults

\* A run of which ViewerThere speaks, as far as it has come.
Good == pvFaults \subseteq {"told"} /\ (pvDied => pvFaults = {})

(* Only a run that dies leaves packages.xml behind. *)
NoList ==
  /\ pvPc \in {"idle", "pull"} /\ ~pvDied => pvList = "none"
  /\ pvPc = "done" => pvList = "none"

(* A run without I.bin counts that as a fault. *)
HasZip == pvPc # "idle" /\ ~pvZip => "zip" \in pvFaults

(* The list that is read says the viewer is there only if it is; what was
   taken out of I.bin is there to be installed; then the viewer is there. *)
OnTheWay ==
  /\ Good /\ pvPc = "find" /\ pvList = "with" => pvViewer[pvDev]
  /\ Good /\ pvPc = "install" => pvApk
  /\ Good /\ pvPc \in {"unlink", "clean", "done"} => pvViewer[pvDev]

PvInv == PvTyped /\ NoList /\ HasZip /\ OnTheWay

LEMMA PvInductive == PvInv /\ [PvNext]_pvVars => PvInv'
<1> SUFFICES ASSUME PvInv, [PvNext]_pvVars PROVE PvInv'
  OBVIOUS
<1> USE DEF PvInv, PvTyped, NoList, HasZip, OnTheWay, Good, PvGoto, Fault, Lists, Faults
<1>1. CASE PvBegin
  BY <1>1 DEF PvBegin
<1>2. CASE PullPackages
  BY <1>2 DEF PullPackages
<1>3. CASE FindViewer
  BY <1>3 DEF FindViewer
<1>4. CASE ExtractViewer
  <2>1. pvPc = "extract" /\ pvPc' = "install" /\ UNCHANGED <<pvViewer, pvDev, pvList, pvZip, pvDied>>
    BY <1>4 DEF ExtractViewer
  <2>2. CASE pvZip /\ pvApk' = TRUE /\ UNCHANGED pvFaults
    BY <2>1, <2>2
  <2>3. CASE ~pvZip /\ UNCHANGED <<pvApk, pvFaults>>
    BY <2>1, <2>3
  <2>4. CASE pvFaults' = pvFaults \cup {"unzip"} /\ UNCHANGED pvApk
    BY <2>1, <2>4
  <2> QED
    BY <1>4, <2>2, <2>3, <2>4 DEF ExtractViewer
<1>5. CASE InstallViewer
  <2>1. pvPc = "install" /\ pvPc' = "unlink" /\ UNCHANGED <<pvDev, pvList, pvZip, pvApk, pvDied>>
    BY <1>5 DEF InstallViewer
  <2>2. CASE pvApk /\ pvViewer' = [pvViewer EXCEPT ![pvDev] = TRUE] /\ UNCHANGED pvFaults
    BY <2>1, <2>2
  <2>3. CASE ~pvApk /\ UNCHANGED <<pvViewer, pvFaults>>
    BY <2>1, <2>3
  <2>4. CASE pvFaults' = pvFaults \cup {"install"} /\ UNCHANGED pvViewer
    BY <2>1, <2>4
  <2> QED
    BY <1>5, <2>2, <2>3, <2>4 DEF InstallViewer
<1>6. CASE UnlinkViewer
  BY <1>6 DEF UnlinkViewer
<1>7. CASE DeletePackages
  BY <1>7 DEF DeletePackages
<1>8. CASE PvEnd
  BY <1>8 DEF PvEnd
<1>9. CASE PvDie
  BY <1>9 DEF PvDie
<1>10. CASE UserRemoves
  BY <1>10 DEF UserRemoves
<1>11. CASE UNCHANGED pvVars
  BY <1>11 DEF pvVars
<1> QED
  BY <1>1, <1>2, <1>3, <1>4, <1>5, <1>6, <1>7, <1>8, <1>9, <1>10, <1>11 DEF PvNext

(* ViewerThere: whatever the tablets, with crashes and with failing pulls that
   count as done, a run whose other steps work leaves the viewer installed. *)
THEOREM ViewerInstalled == PvSpec => []ViewerThere
<1>1. PvInit => PvInv
  BY DEF PvInit, PvInv, PvTyped, NoList, HasZip, OnTheWay, Lists, Faults
<1>2. PvInv => ViewerThere
  BY DEF PvInv, OnTheWay, Good, ViewerThere
<1> QED
  BY <1>1, <1>2, PvInductive, PTL DEF PvSpec

(*********************** The rows of C.txt: Install_process *****************)

Acts == {"M", "P", "H", "O"}

\* A row makes of a tablet a tablet.
LEMMA EffectType ==
  ASSUME NEW t \in Tablet, NEW act \in Acts
  PROVE  Effect(t, act) \in Tablet
  BY DEF Tablet, Effect, Acts

\* What each row does, part by part.
LEMMA EffectParts ==
  ASSUME NEW t \in Tablet
  PROVE  /\ Effect(t, "P") = [dir |-> TRUE, file |-> TRUE, mode |-> FALSE, owner |-> FALSE]
         /\ Effect(t, "M") = [t EXCEPT !.dir = TRUE]
         /\ Effect(t, "H") = [t EXCEPT !.mode = t.file]
         /\ Effect(t, "O") = [t EXCEPT !.owner = t.file]
  BY DEF Effect

(* The reference is what it says: the tablet after n rows is the tablet after
   n - 1 rows with row n carried out. *)
LEMMA AfterRow ==
  ASSUME NEW first \in Tablet, NEW rows \in Seq(Acts)
  PROVE  /\ After(first, rows) \in [0 .. Len(rows) -> Tablet]
         /\ After(first, rows)[0] = first
         /\ \A n \in 1 .. Len(rows) :
              After(first, rows)[n] = Effect(After(first, rows)[n - 1], rows[n])
<1> DEFINE m == Len(rows)
           step == [n \in 1 .. m |-> [t \in Tablet |-> Effect(t, rows[n])]]
           Body(f) == [n \in 0 .. m |-> IF n = 0 THEN first ELSE Effect(f[n - 1], rows[n])]
<1>1. m \in Nat /\ step \in [1 .. m -> [Tablet -> Tablet]]
  BY EffectType
<1> HIDE DEF m, step
<1>2. PICK f \in [0 .. m -> Tablet] : Stepwise(f, first, step, m)
  BY <1>1, StepwiseExists
<1>3. f = Body(f)
  <2> SUFFICES ASSUME NEW n \in 0 .. m
               PROVE  f[n] = IF n = 0 THEN first ELSE Effect(f[n - 1], rows[n])
    OBVIOUS
  <2>1. CASE n = 0
    BY <1>2, <2>1 DEF Stepwise
  <2>2. CASE n # 0
    <3>1. n \in 1 .. m /\ n - 1 \in 0 .. m /\ f[n - 1] \in Tablet
      BY <1>1, <2>2
    <3>2. f[n] = step[n][f[n - 1]]
      BY <1>2, <2>2 DEF Stepwise
    <3> QED
      BY <2>2, <3>1, <3>2 DEF step
  <2> QED
    BY <2>1, <2>2
<1>4. After(first, rows) = Body(After(first, rows))
  <2>1. After(first, rows) = CHOOSE g : g = Body(g)
    BY DEF After, m
  <2> HIDE DEF Body
  <2> QED
    BY <1>3, <2>1
<1> DEFINE g == After(first, rows)
<1>5. g = [n \in 0 .. m |-> IF n = 0 THEN first ELSE Effect(g[n - 1], rows[n])]
  BY <1>4
<1> HIDE DEF g
<1>6. g[0] = first /\ \A n \in 1 .. m : g[n] = Effect(g[n - 1], rows[n])
  BY <1>1, <1>5
<1>7. \A n \in Nat : n <= m => g[n] \in Tablet
  <2> DEFINE T == {n \in Nat : n <= m => g[n] \in Tablet}
  <2>1. 0 \in T
    BY <1>6
  <2>2. ASSUME NEW n \in Nat, n \in T PROVE n + 1 \in T
    <3>1. SUFFICES ASSUME n + 1 <= m PROVE g[n + 1] \in Tablet
      OBVIOUS
    <3>2. g[n] \in Tablet /\ rows[n + 1] \in Acts
      BY <1>1, <2>2, <3>1 DEF m
    <3>3. g[n + 1] = Effect(g[n], rows[n + 1])
      BY <1>1, <1>6, <3>1
    <3> QED
      BY <3>2, <3>3, EffectType
  <2> HIDE DEF T
  <2>3. Nat \subseteq T
    BY <2>1, <2>2, InductionOver
  <2> QED
    BY <2>3 DEF T
<1>8. g \in [0 .. m -> Tablet]
  BY <1>1, <1>5, <1>7
<1> QED
  BY <1>6, <1>8 DEF g, m

-----------------------------------------------------------------------------
\* The tablet that the rows sent so far give when carried out in order.
Ref == After(cfFirst, cfRows)[cfI - 1]

CfTyped ==
  /\ cfRows \in Seq(Acts) /\ cfFirst \in Tablet /\ cfTablet \in Tablet
  /\ cfI \in 1 .. Len(cfRows) + 1
  /\ cfState \in {"row", "push", "done"}
  /\ cfState = "push" => cfI <= Len(cfRows) /\ cfRows[cfI] = "P"
  /\ cfState = "done" => cfI = Len(cfRows) + 1
  /\ cfPending \subseteq 1 .. cfI - 1
  /\ \A k \in cfPending : cfRows[k] # "P"
  /\ cfTemp \in BOOLEAN /\ cfFailed \in BOOLEAN
  /\ cfState = "push" /\ ~cfFailed => cfTemp

\* A row of this kind has been sent and will take effect.
Coming(act) == \E k \in cfPending : cfRows[k] = act

(* What the rows sent give when carried out in order, the tablet has or will
   get.  A file is never only coming, because its push is waited for; without
   that a chmod that is coming would find no file. *)
NoneMissing ==
  ~cfFailed =>
    /\ Ref.dir => cfTablet.dir \/ Coming("M")
    /\ Ref.file => cfTablet.file
    /\ Ref.mode => Ref.file /\ (cfTablet.mode \/ Coming("H"))
    /\ Ref.owner => Ref.file /\ (cfTablet.owner \/ Coming("O"))

CfInv == CfTyped /\ NoneMissing

\* The reference moves by one row when the loop does.
LEMMA RefMoves ==
  ASSUME CfTyped, UNCHANGED <<cfRows, cfFirst>>
  PROVE  /\ Ref \in Tablet
         /\ cfI' = cfI => Ref' = Ref
         /\ cfI' = cfI + 1 /\ cfI <= Len(cfRows) => Ref' = Effect(Ref, cfRows[cfI])
<1>1. /\ After(cfFirst, cfRows) \in [0 .. Len(cfRows) -> Tablet]
      /\ \A n \in 1 .. Len(cfRows) : After(cfFirst, cfRows)[n]
            = Effect(After(cfFirst, cfRows)[n - 1], cfRows[n])
  BY AfterRow DEF CfTyped
<1>2. cfI - 1 \in 0 .. Len(cfRows) /\ (cfI <= Len(cfRows) => cfI \in 1 .. Len(cfRows))
      /\ (cfI + 1) - 1 = cfI
  BY DEF CfTyped
<1>3. Ref \in Tablet
  BY <1>1, <1>2 DEF Ref
<1>4. After(cfFirst, cfRows)' = After(cfFirst, cfRows)
  OBVIOUS
<1>5. Ref' = After(cfFirst, cfRows)[cfI' - 1]
  BY <1>4 DEF Ref
<1>6. cfI' = cfI => Ref' = Ref
  BY <1>5 DEF Ref
<1>7. cfI' = cfI + 1 /\ cfI <= Len(cfRows) => Ref' = Effect(Ref, cfRows[cfI])
  BY <1>1, <1>2, <1>5 DEF Ref
<1> QED
  BY <1>3, <1>6, <1>7

\* The start: nothing is sent, and mode and owner are those of a file.
LEMMA CfInitInv == CfInit => CfInv
<1> SUFFICES ASSUME CfInit PROVE CfInv
  OBVIOUS
<1>1. cfRows \in Seq(Acts)
  BY ConfigAssumption DEF CfInit, BoundedSeq, SeqOf, Acts
<1>2. /\ cfFirst \in Tablet /\ cfTablet = cfFirst /\ cfI = 1 /\ cfPending = {}
      /\ cfState = "row" /\ cfTemp = FALSE /\ cfFailed = FALSE
      /\ cfFirst.mode \/ cfFirst.owner => cfFirst.file
  BY DEF CfInit
<1>3. CfTyped
  <2>1. Len(cfRows) \in Nat
    BY <1>1
  <2>2. cfI \in 1 .. Len(cfRows) + 1 /\ cfPending \subseteq 1 .. cfI - 1
    BY <1>2, <2>1
  <2> QED
    BY <1>1, <1>2, <2>2 DEF CfTyped
<1>4. Ref = cfFirst
  BY <1>1, <1>2, AfterRow DEF Ref
<1> QED
  BY <1>2, <1>3, <1>4 DEF CfInv, NoneMissing

\* Types, and that a row not waited for is never a push.
LEMMA CfTypedKept == CfInv /\ [CfNext]_cfVars => CfTyped'
<1> SUFFICES ASSUME CfTyped, [CfNext]_cfVars PROVE CfTyped'
  BY DEF CfInv
<1> USE DEF CfTyped
<1>1. \A k \in 1 .. Len(cfRows) : cfRows[k] \in Acts
  OBVIOUS
<1>2. CASE SendRow
  <2>1. cfI \in 1 .. Len(cfRows) /\ cfTablet' \in Tablet
    BY <1>1, <1>2, EffectType DEF SendRow, Send
  <2>2. /\ cfState = "row" /\ cfState' = "row" /\ cfI' = cfI + 1 /\ cfRows[cfI] # "P"
        /\ UNCHANGED <<cfRows, cfTemp, cfFirst, cfFailed>>
        /\ cfPending' \subseteq cfPending \cup {cfI}
    BY <1>2 DEF SendRow, Send
  <2>3. cfI' \in 1 .. Len(cfRows) + 1 /\ cfPending' \subseteq 1 .. cfI' - 1
    BY <2>1, <2>2
  <2> QED
    BY <2>1, <2>2, <2>3
<1>3. CASE Unpack
  BY <1>3 DEF Unpack
<1>4. CASE PushRow
  <2>1. cfTablet' \in Tablet
    BY <1>4, EffectType DEF PushRow, Acts
  <2>2. /\ cfState = "push" /\ cfState' = "row" /\ cfI' = cfI + 1 /\ cfTemp' = FALSE
        /\ UNCHANGED <<cfRows, cfPending, cfFirst, cfFailed>>
    BY <1>4 DEF PushRow
  <2>3. cfI' \in 1 .. Len(cfRows) + 1 /\ cfPending' \subseteq 1 .. cfI' - 1
    BY <2>2
  <2> QED
    BY <2>1, <2>2, <2>3
<1>5. CASE Land
  <2>1. cfTablet' \in Tablet
    BY <1>1, <1>5, EffectType DEF Land
  <2> QED
    BY <1>5, <2>1 DEF Land
<1>6. CASE RowsDone
  BY <1>6 DEF RowsDone
<1>7. CASE UNCHANGED cfVars
  BY <1>7 DEF cfVars
<1> QED
  BY <1>2, <1>3, <1>4, <1>5, <1>6, <1>7 DEF CfNext

\* A row carried out adds its part, and takes none away that the rows in order
\* leave.
LEMMA NoneMissingKept == CfInv /\ [CfNext]_cfVars => NoneMissing'
<1> SUFFICES ASSUME CfInv, [CfNext]_cfVars, ~cfFailed' PROVE NoneMissing'
  BY DEF NoneMissing
<1>0. /\ cfTablet \in Tablet /\ UNCHANGED <<cfRows, cfFirst>> /\ ~cfFailed
      /\ \A k \in 1 .. Len(cfRows) : cfRows[k] \in Acts
  BY DEF CfInv, CfTyped, CfNext, cfVars, SendRow, Unpack, PushRow, Land, RowsDone
<1>r. /\ Ref \in Tablet
      /\ cfI' = cfI => Ref' = Ref
      /\ cfI' = cfI + 1 /\ cfI <= Len(cfRows) => Ref' = Effect(Ref, cfRows[cfI])
  BY <1>0, RefMoves DEF CfInv
<1>i. /\ Ref.dir => cfTablet.dir \/ Coming("M")
      /\ Ref.file => cfTablet.file
      /\ Ref.mode => Ref.file /\ (cfTablet.mode \/ Coming("H"))
      /\ Ref.owner => Ref.file /\ (cfTablet.owner \/ Coming("O"))
  BY <1>0 DEF CfInv, NoneMissing
<1>1. CASE SendRow
  <2>1. /\ cfI \in 1 .. Len(cfRows) /\ cfRows[cfI] \in {"M", "H", "O"}
        /\ Ref' = Effect(Ref, cfRows[cfI])
    BY <1>0, <1>1, <1>r DEF SendRow, CfInv, CfTyped, Acts
  <2>2. CASE cfTablet' = Effect(cfTablet, cfRows[cfI]) /\ UNCHANGED cfPending
    <3>1. \A act \in Acts : Coming(act)' <=> Coming(act)
      BY <1>0, <2>2 DEF Coming
    <3>2. CASE cfRows[cfI] = "M"
      BY <1>0, <1>r, <1>i, <2>1, <2>2, <3>1, <3>2, EffectParts DEF NoneMissing, Tablet, Acts
    <3>3. CASE cfRows[cfI] = "H"
      BY <1>0, <1>r, <1>i, <2>1, <2>2, <3>1, <3>3, EffectParts DEF NoneMissing, Tablet, Acts
    <3>4. CASE cfRows[cfI] = "O"
      BY <1>0, <1>r, <1>i, <2>1, <2>2, <3>1, <3>4, EffectParts DEF NoneMissing, Tablet, Acts
    <3> QED
      BY <2>1, <3>2, <3>3, <3>4
  <2>3. CASE cfPending' = cfPending \cup {cfI} /\ UNCHANGED cfTablet
    <3>1. /\ \A act \in Acts : Coming(act) => Coming(act)'
          /\ \A act \in Acts : act = cfRows[cfI] => Coming(act)'
      BY <1>0, <2>3 DEF Coming
    <3>2. CASE cfRows[cfI] = "M"
      BY <1>0, <1>r, <1>i, <2>1, <2>3, <3>1, <3>2, EffectParts DEF NoneMissing, Tablet, Acts
    <3>3. CASE cfRows[cfI] = "H"
      BY <1>0, <1>r, <1>i, <2>1, <2>3, <3>1, <3>3, EffectParts DEF NoneMissing, Tablet, Acts
    <3>4. CASE cfRows[cfI] = "O"
      BY <1>0, <1>r, <1>i, <2>1, <2>3, <3>1, <3>4, EffectParts DEF NoneMissing, Tablet, Acts
    <3> QED
      BY <2>1, <3>2, <3>3, <3>4
  <2> QED
    BY <1>1, <2>2, <2>3 DEF SendRow, Send
<1>2. CASE PushRow
  <2>1. cfTablet' = Effect(cfTablet, "P") /\ Ref' = Effect(Ref, "P")
    BY <1>0, <1>2, <1>r DEF PushRow, CfInv, CfTyped
  <2> QED
    BY <1>0, <1>r, <2>1, EffectParts DEF NoneMissing
<1>3. CASE Land
  <2>1. PICK k \in cfPending : /\ cfTablet' = Effect(cfTablet, cfRows[k])
                               /\ cfPending' = cfPending \ {k}
    BY <1>3 DEF Land
  <2>2. cfRows[k] \in {"M", "H", "O"}
    BY <1>0 DEF CfInv, CfTyped, Acts
  <2>3. Ref' = Ref
    BY <1>3, <1>r DEF Land
  <2>4. \A act \in Acts : act # cfRows[k] /\ Coming(act) => Coming(act)'
    BY <1>0, <2>1 DEF Coming
  <2> QED
    BY <1>0, <1>r, <1>i, <2>1, <2>2, <2>3, <2>4, EffectParts, ZenonT(40) DEF NoneMissing, Tablet, Acts
<1>4. CASE UNCHANGED <<cfI, cfTablet, cfPending>>
  BY <1>0, <1>r, <1>i, <1>4 DEF NoneMissing, Coming
<1> QED
  BY <1>1, <1>2, <1>3, <1>4 DEF CfNext, cfVars, Unpack, RowsDone

(***************************************************************************)
(* NothingLost, for any number of rows and any tablet: a run whose files   *)
(* unpack leaves at least what the rows give in order, whenever and in     *)
(* whatever order the commands sent with ExecDosCmd_noWait take effect.    *)
(***************************************************************************)
THEOREM NotWaitingLosesNothing == CfSpec => []NothingLost
<1>1. CfInv /\ [CfNext]_cfVars => CfInv'
  BY CfTypedKept, NoneMissingKept DEF CfInv
<1>2. CfInv => NothingLost
  <2> SUFFICES ASSUME CfInv, cfState = "done", cfPending = {}, ~cfFailed,
                      NEW part \in DOMAIN cfFirst, InOrder[part]
               PROVE  cfTablet[part]
    BY DEF NothingLost
  <2>1. InOrder = Ref
    BY DEF CfInv, CfTyped, InOrder, Ref
  <2>2. part \in {"dir", "file", "mode", "owner"}
    BY DEF CfInv, CfTyped, Tablet
  <2> QED
    BY <2>1, <2>2 DEF CfInv, NoneMissing, Coming
<1> QED
  BY <1>1, <1>2, CfInitInv, PTL DEF CfSpec

(********************** The clock: set_System_Time *************************)

\* The value of the first k digits is ten times that of k - 1, and the k-th.
LEMMA ValueStep ==
  ASSUME NEW ds \in Seq(Nat)
  PROVE  /\ Value(ds)[0] = 0
         /\ \A k \in 1 .. Len(ds) : Value(ds)[k] = 10 * Value(ds)[k - 1] + ds[k]
         /\ \A k \in 0 .. Len(ds) : Value(ds)[k] \in Nat
<1> DEFINE m == Len(ds)
           step == [k \in 1 .. m |-> [v \in Nat |-> 10 * v + ds[k]]]
           Body(f) == [k \in 0 .. m |-> IF k = 0 THEN 0 ELSE 10 * f[k - 1] + ds[k]]
<1>0. m \in Nat /\ \A k \in 1 .. m : ds[k] \in Nat
  OBVIOUS
<1>1. step \in [1 .. m -> [Nat -> Nat]]
  BY <1>0
<1> HIDE DEF m, step
<1>2. PICK f \in [0 .. m -> Nat] : Stepwise(f, 0, step, m)
  BY <1>0, <1>1, StepwiseExists
<1>3. f = Body(f)
  <2> SUFFICES ASSUME NEW k \in 0 .. m
               PROVE  f[k] = IF k = 0 THEN 0 ELSE 10 * f[k - 1] + ds[k]
    BY <1>2
  <2>1. CASE k = 0
    BY <1>0, <1>2, <2>1 DEF Stepwise
  <2>2. CASE k # 0
    <3>1. k \in 1 .. m /\ k - 1 \in 0 .. m /\ f[k - 1] \in Nat
      BY <1>0, <2>2
    <3>2. f[k] = step[k][f[k - 1]]
      BY <1>2, <2>2 DEF Stepwise
    <3> QED
      BY <2>2, <3>1, <3>2 DEF step
  <2> QED
    BY <2>1, <2>2
<1>4. Value(ds) = Body(Value(ds))
  <2>1. Value(ds) = CHOOSE g : g = Body(g)
    BY DEF Value, m
  <2> HIDE DEF Body
  <2> QED
    BY <1>3, <2>1
<1> DEFINE g == Value(ds)
<1>5. g = [k \in 0 .. m |-> IF k = 0 THEN 0 ELSE 10 * g[k - 1] + ds[k]]
  BY <1>4
<1> HIDE DEF g
<1>6. g[0] = 0 /\ \A k \in 1 .. m : g[k] = 10 * g[k - 1] + ds[k]
  BY <1>0, <1>5
<1> DEFINE T == {k \in Nat : k <= m => g[k] \in Nat}
<1>7. 0 \in T
  BY <1>6
<1>8. ASSUME NEW k \in Nat, k \in T PROVE k + 1 \in T
  <2> SUFFICES ASSUME k + 1 <= m PROVE g[k + 1] \in Nat
    OBVIOUS
  <2>1. g[k] \in Nat /\ ds[k + 1] \in Nat /\ k + 1 \in 1 .. m /\ (k + 1) - 1 = k
    BY <1>0, <1>8
  <2>2. g[k + 1] = 10 * g[k] + ds[k + 1]
    BY <1>6, <2>1
  <2> QED
    BY <2>1, <2>2
<1>9. \A k \in 0 .. m : g[k] \in Nat
  <2> HIDE DEF T
  <2>1. Nat \subseteq T
    BY <1>7, <1>8, InductionOver
  <2> QED
    BY <1>0, <2>1 DEF T
<1> QED
  BY <1>6, <1>9 DEF g, m

\* One digit more.
LEMMA NumberAppend ==
  ASSUME NEW ds \in Seq(Nat), NEW d \in Nat
  PROVE  Number10(ds) \in Nat /\ Number10(Append(ds, d)) = 10 * Number10(ds) + d
<1> DEFINE m == Len(ds)
           long == Append(ds, d)
           T == {k \in Nat : k <= m => Value(long)[k] = Value(ds)[k]}
<1>1. /\ m \in Nat /\ long \in Seq(Nat) /\ Len(long) = m + 1 /\ long[m + 1] = d
      /\ \A k \in 1 .. m : long[k] = ds[k]
  OBVIOUS
<1> HIDE DEF m, long
<1>d. /\ Value(ds)[0] = 0 /\ Value(ds)[m] \in Nat
      /\ \A k \in 1 .. m : Value(ds)[k] = 10 * Value(ds)[k - 1] + ds[k]
  BY <1>1, ValueStep DEF m
<1>l. /\ Value(long)[0] = 0
      /\ \A k \in 1 .. m + 1 : Value(long)[k] = 10 * Value(long)[k - 1] + long[k]
  BY <1>1, ValueStep
<1>2. /\ Value(ds)[0] = 0 /\ Value(long)[0] = 0
      /\ \A k \in 1 .. m : Value(ds)[k] = 10 * Value(ds)[k - 1] + ds[k]
      /\ \A k \in 1 .. m + 1 : Value(long)[k] = 10 * Value(long)[k - 1] + long[k]
      /\ Value(ds)[m] \in Nat
  BY <1>d, <1>l
<1>3. 0 \in T
  BY <1>2
<1>4. ASSUME NEW k \in Nat, k \in T PROVE k + 1 \in T
  <2> SUFFICES ASSUME k + 1 <= m PROVE Value(long)[k + 1] = Value(ds)[k + 1]
    OBVIOUS
  <2>1. Value(long)[k] = Value(ds)[k] /\ k + 1 \in 1 .. m /\ k + 1 \in 1 .. m + 1
        /\ (k + 1) - 1 = k
    BY <1>1, <1>4
  <2> QED
    BY <1>1, <1>2, <2>1
<1>5. Value(long)[m] = Value(ds)[m]
  <2> HIDE DEF T
  <2>1. Nat \subseteq T
    BY <1>3, <1>4, InductionOver
  <2> QED
    BY <1>1, <2>1 DEF T
<1>6. Value(long)[m + 1] = 10 * Value(long)[m] + d
  BY <1>1, <1>2
<1> QED
  BY <1>1, <1>2, <1>5, <1>6 DEF Number10, m, long

\* A month, day, hour, minute or second written behind other digits pushes
\* them one place or two.
LEMMA NumberTwo ==
  ASSUME NEW ds \in Seq(Nat), NEW n \in 0 .. 99
  PROVE  /\ ds \o Digits(n) \in Seq(Nat)
         /\ n < 10 => Number10(ds \o Digits(n)) = 10 * Number10(ds) + n
         /\ n >= 10 => Number10(ds \o Digits(n)) = 100 * Number10(ds) + n
<1>1. CASE n < 10
  <2>1. ds \o Digits(n) = Append(ds, n)
    <3>1. Digits(n) = <<n>>
      BY <1>1 DEF Digits
    <3> QED
      BY <3>1, AppendIsConcat, n \in Nat
  <2>2. Append(ds, n) \in Seq(Nat)
    OBVIOUS
  <2>3. Number10(Append(ds, n)) = 10 * Number10(ds) + n
    BY NumberAppend, n \in Nat
  <2>4. ~(n >= 10)
    BY <1>1
  <2> QED
    BY <2>1, <2>2, <2>3, <2>4
<1>2. CASE n >= 10
  <2> DEFINE a == n \div 10
             b == n % 10
  <2>1. a \in Nat /\ b \in Nat /\ n = 10 * a + b
    OBVIOUS
  <2>2. Digits(n) = <<a, b>>
    BY <1>2 DEF Digits
  <2> HIDE DEF a, b
  <2>3. ds \o <<a, b>> = Append(Append(ds, a), b) /\ Append(ds, a) \in Seq(Nat)
        /\ Append(Append(ds, a), b) \in Seq(Nat)
    <3>1. <<a>> \in Seq(Nat) /\ <<b>> \in Seq(Nat) /\ <<a, b>> = Append(<<a>>, b)
      BY <2>1
    <3>2. <<a, b>> = <<a>> \o <<b>>
      BY <2>1, <3>1, AppendIsConcat
    <3>3. (ds \o <<a>>) \o <<b>> = ds \o <<a, b>>
      BY <3>1, <3>2, ConcatAssociative
    <3>4. Append(ds, a) = ds \o <<a>> /\ Append(ds, a) \in Seq(Nat)
      BY <2>1, AppendIsConcat
    <3>5. Append(Append(ds, a), b) = Append(ds, a) \o <<b>>
      BY <2>1, <3>4, AppendIsConcat
    <3>6. Append(Append(ds, a), b) \in Seq(Nat)
      BY <2>1, <3>4
    <3> QED
      BY <3>3, <3>4, <3>5, <3>6
  <2>4. /\ Number10(ds) \in Nat
        /\ Number10(Append(ds, a)) = 10 * Number10(ds) + a
        /\ Number10(Append(Append(ds, a), b)) = 10 * Number10(Append(ds, a)) + b
    BY <2>1, <2>3, NumberAppend
  <2>5. Number10(Append(Append(ds, a), b)) = 100 * Number10(ds) + n
    BY <2>1, <2>4
  <2>6. ~(n < 10)
    BY <1>2
  <2> QED
    BY <2>2, <2>3, <2>5, <2>6
<1> QED
  BY <1>1, <1>2

\* A text of one digit.
LEMMA NumberOne ==
  ASSUME NEW d \in Nat
  PROVE  <<d>> \in Seq(Nat) /\ Number10(<<d>>) = d
<1>1. <<d>> \in Seq(Nat) /\ Len(<<d>>) = 1 /\ <<d>>[1] = d
  OBVIOUS
<1>2. /\ Value(<<d>>)[0] = 0
      /\ \A k \in 1 .. Len(<<d>>) : Value(<<d>>)[k] = 10 * Value(<<d>>)[k - 1] + <<d>>[k]
  BY <1>1, ValueStep
<1>3. Value(<<d>>)[1] = 10 * Value(<<d>>)[0] + d
  BY <1>1, <1>2
<1> QED
  BY <1>1, <1>2, <1>3 DEF Number10

\* A year is written with its four digits.
LEMMA NumberYear ==
  ASSUME NEW y \in Years
  PROVE  Digits(y) \in Seq(Nat) /\ Number10(Digits(y)) = y
<1> DEFINE a == y \div 1000
           b == (y \div 100) % 10
           c == (y \div 10) % 10
           d == y % 10
<1>1. a \in Nat /\ b \in Nat /\ c \in Nat /\ d \in Nat
  BY DEF Years
<1>y. y = 1000 * a + 100 * b + 10 * c + d
  BY SMTT(30) DEF Years
<1>2. Digits(y) = <<a, b, c, d>>
  BY DEF Digits, Years
<1> HIDE DEF a, b, c, d
<1>3. /\ <<a>> \in Seq(Nat) /\ <<a, b>> \in Seq(Nat) /\ <<a, b, c>> \in Seq(Nat)
      /\ <<a, b, c, d>> \in Seq(Nat)
  BY <1>1
<1>4. <<a>> \in Seq(Nat) /\ <<a, b>> = Append(<<a>>, b)
  BY <1>1
<1>5. <<a, b>> \in Seq(Nat) /\ <<a, b, c>> = Append(<<a, b>>, c)
  BY <1>1
<1>6. <<a, b, c>> \in Seq(Nat) /\ <<a, b, c, d>> = Append(<<a, b, c>>, d)
  BY <1>1
<1> DEFINE e1 == <<a>>
           e2 == <<a, b>>
           e3 == <<a, b, c>>
           e4 == <<a, b, c, d>>
<1>7. Number10(e1) = a
  BY <1>1, NumberOne
<1>e. /\ e1 \in Seq(Nat) /\ e2 \in Seq(Nat) /\ e3 \in Seq(Nat)
      /\ e2 = Append(e1, b) /\ e3 = Append(e2, c) /\ e4 = Append(e3, d)
  BY <1>3, <1>4, <1>5, <1>6
<1> HIDE DEF e1, e2, e3, e4
<1>8. Number10(e2) = 10 * a + b
  <2>1. Number10(Append(e1, b)) = 10 * Number10(e1) + b
    BY <1>1, <1>e, NumberAppend
  <2> QED
    BY <1>1, <1>e, <1>7, <2>1
<1>9. Number10(e3) = 100 * a + 10 * b + c
  <2>1. Number10(Append(e2, c)) = 10 * Number10(e2) + c
    BY <1>1, <1>e, NumberAppend
  <2> QED
    BY <1>1, <1>e, <1>8, <2>1
<1>10. Number10(e4) = y
  <2>1. Number10(Append(e3, d)) = 10 * Number10(e3) + d
    BY <1>1, <1>e, NumberAppend
  <2> QED
    BY <1>1, <1>y, <1>e, <1>9, <2>1
<1> QED
  BY <1>2, <1>3, <1>10 DEF e4

\* An hour stands alone, with one digit or two.
LEMMA NumberHour ==
  ASSUME NEW h \in 0 .. 99
  PROVE  Digits(h) \in Seq(Nat) /\ Number10(Digits(h)) = h
<1>1. CASE h < 10
  BY <1>1, NumberOne, h \in Nat DEF Digits
<1>2. CASE h >= 10
  <2> DEFINE a == h \div 10
             b == h % 10
  <2>1. a \in Nat /\ b \in Nat /\ h = 10 * a + b
    OBVIOUS
  <2>2. Digits(h) = <<a, b>>
    BY <1>2 DEF Digits
  <2> HIDE DEF a, b
  <2>3. <<a>> \in Seq(Nat) /\ <<a, b>> = Append(<<a>>, b) /\ <<a, b>> \in Seq(Nat)
    BY <2>1
  <2>4. Number10(Append(<<a>>, b)) = 10 * Number10(<<a>>) + b
    BY <2>1, <2>3, NumberAppend
  <2>5. Number10(<<a>>) = a
    BY <2>1, NumberOne
  <2> QED
    BY <2>1, <2>2, <2>3, <2>4, <2>5
<1> QED
  BY <1>1, <1>2

\* n is read where v, p and q are written.
Followed(v, n, p, q) ==
  /\ v \in Nat
  /\ p >= 10 /\ q >= 10 => n = 100 * (100 * v + p) + q
  /\ p >= 10 /\ q < 10 => n = 10 * (100 * v + p) + q
  /\ p < 10 /\ q >= 10 => n = 100 * (10 * v + p) + q
  /\ p < 10 /\ q < 10 => n = 10 * (10 * v + p) + q

\* A month and a day, or a minute and a second.
LEMMA NumberPair ==
  ASSUME NEW ds \in Seq(Nat), NEW p \in 0 .. 99, NEW q \in 0 .. 99
  PROVE  Followed(Number10(ds), Number10(ds \o Digits(p) \o Digits(q)), p, q)
<1> DEFINE v == Number10(ds)
           dp == ds \o Digits(p)
           w == Number10(dp)
           n == Number10(dp \o Digits(q))
<1>1. v \in Nat
  BY NumberAppend, 0 \in Nat
<1>2. dp \in Seq(Nat) /\ (p < 10 => w = 10 * v + p) /\ (p >= 10 => w = 100 * v + p)
  BY NumberTwo
<1> HIDE DEF dp, v
<1>3. (q < 10 => n = 10 * w + q) /\ (q >= 10 => n = 100 * w + q)
  BY <1>2, NumberTwo
<1> HIDE DEF w, n
<1>4. Followed(v, n, p, q)
  BY <1>1, <1>2, <1>3 DEF Followed
<1> QED
  BY <1>4 DEF v, n, dp

(* The date the tablet reads off what is sent is the one meant just if month
   and day have two digits: with fewer, the number is too small for the year. *)
LEMMA DateRead ==
  ASSUME NEW y \in Years, NEW mo \in 1 .. 12, NEW da \in 1 .. 31
  PROVE  DateOf(Number10(Digits(y) \o Digits(mo) \o Digits(da)))
           = [year |-> y, month |-> mo, day |-> da]
         <=> mo >= 10 /\ da >= 10
<1>a. mo \in 0 .. 99
  OBVIOUS
<1>b. da \in 0 .. 99
  OBVIOUS
<1>2. mo \in 0 .. 99 /\ da \in 0 .. 99
  BY <1>a, <1>b
<1> DEFINE v == Number10(Digits(y))
           n == Number10(Digits(y) \o Digits(mo) \o Digits(da))
<1>1. Digits(y) \in Seq(Nat) /\ v = y
  BY NumberYear, Zenon
<1>r. Followed(v, n, mo, da)
  BY <1>1, <1>2, NumberPair
<1> HIDE DEF v, n
<1>3. Followed(y, n, mo, da)
  BY <1>1, <1>r
<1>4. y >= 1000 /\ y \in Nat
  BY DEF Years
<1>5. n \in Nat
  BY <1>2, <1>3, <1>4 DEF Followed
<1>6. DateOf(n) = [year |-> y, month |-> mo, day |-> da]
        <=> n \div 10000 = y /\ (n % 10000) \div 100 = mo /\ n % 100 = da
  BY DEF DateOf
<1>7. CASE mo >= 10 /\ da >= 10
  <2>1. n = 10000 * y + 100 * mo + da
    BY <1>3, <1>4, <1>7 DEF Followed
  <2> QED
    BY <1>4, <1>6, <1>7, <2>1 DEF n
<1>8. CASE mo < 10 \/ da < 10
  <2>1. n < 10000 * y
    BY <1>3, <1>4, <1>8 DEF Followed
  <2>2. n \div 10000 # y
    BY <1>4, <1>5, <2>1
  <2> QED
    BY <1>6, <1>8, <2>2 DEF n
<1> QED
  BY <1>7, <1>8

(* The time is right just if minute and second have two digits, or if only
   zeros stand before the one that is short. *)
LEMMA TimeRead ==
  ASSUME NEW h \in 0 .. 23, NEW mi \in 0 .. 59, NEW se \in 0 .. 59
  PROVE  TimeOf(Number10(Digits(h) \o Digits(mi) \o Digits(se)))
           = [hour |-> h, minute |-> mi, second |-> se]
         <=> (mi >= 10 \/ h = 0) /\ (se >= 10 \/ (h = 0 /\ mi = 0))
<1> DEFINE hs == Digits(h)
           v == Number10(hs)
           n == Number10(hs \o Digits(mi) \o Digits(se))
<1>h. h \in 0 .. 99
  OBVIOUS
<1>1. mi \in 0 .. 99 /\ se \in 0 .. 99
  OBVIOUS
<1>s. hs \in Seq(Nat)
  BY <1>h, NumberHour
<1>2. v = h
  BY <1>h, NumberHour
<1> HIDE DEF hs
<1>r. Followed(v, n, mi, se)
  BY <1>s, <1>1, NumberPair
<1> HIDE DEF v, n
<1>3. Followed(h, n, mi, se)
  BY <1>2, <1>r
<1>4. n \in Nat
  BY <1>3 DEF Followed
<1>5. n = 10000 * h + 100 * mi + se
        <=> (mi >= 10 \/ h = 0) /\ (se >= 10 \/ (h = 0 /\ mi = 0))
  BY <1>3 DEF Followed
<1>6. TimeOf(n) = [hour |-> h, minute |-> mi, second |-> se]
        <=> n \div 10000 = h /\ (n % 10000) \div 100 = mi /\ n % 100 = se
  BY DEF TimeOf
<1>7. ASSUME n \div 10000 = h, (n % 10000) \div 100 = mi, n % 100 = se
      PROVE  n = 10000 * h + 100 * mi + se
  <2> DEFINE r == n % 10000
             q == n \div 100
             t == r % 100
  <2>1. r \in Nat /\ n = 10000 * h + r
    BY <1>4, <1>7
  <2>2. r \div 100 = mi
    BY <1>7
  <2>3. q \in Nat /\ n = 100 * q + se
    BY <1>4, <1>7
  <2> HIDE DEF r, q
  <2>4. t \in 0 .. 99 /\ r = 100 * mi + t
    BY <2>1, <2>2
  <2> HIDE DEF t
  <2>5. 100 * (100 * h + mi - q) = se - t
    BY <2>1, <2>3, <2>4
  <2>6. 100 * h + mi - q = 0
    BY <2>3, <2>4, <2>5
  <2> QED
    BY <2>3, <2>6
<1>8. ASSUME n = 10000 * h + 100 * mi + se
      PROVE  n \div 10000 = h /\ (n % 10000) \div 100 = mi /\ n % 100 = se
  BY <1>8
<1> QED
  BY <1>5, <1>6, <1>7, <1>8 DEF n, hs

\* What has been sent is the text of the PC's clock.
CkInv ==
  /\ ckDate \in CkDates /\ ckTime \in CkTimes
  /\ ckText # <<>> =>
       /\ ckText[1] = Digits(ckDate.year) \o Digits(ckDate.month) \o Digits(ckDate.day)
       /\ ckText[2] = Digits(ckTime.hour) \o Digits(ckTime.minute) \o Digits(ckTime.second)

(* When the tablet is set right: the date just if month and day have two
   digits each, which is so from the 10th on in October, November and December;
   the time just if minute and second have two digits, or if nothing but zeros
   stands before the one that is short. *)
RightJustThen ==
  ckText # <<>> =>
    /\ DateRight <=> ckDate.month >= 10 /\ ckDate.day >= 10
    /\ TimeRight <=> /\ ckTime.minute >= 10 \/ ckTime.hour = 0
                     /\ ckTime.second >= 10 \/ (ckTime.hour = 0 /\ ckTime.minute = 0)

(***************************************************************************)
(* TwoDigitsRight, and no more than that but the first minutes of a day,   *)
(* for every date and time: whenever set_System_Time sends a month or a    *)
(* day of one digit, the tablet gets another date than the PC's.           *)
(***************************************************************************)
THEOREM ClockSet == CkSpec => [](TwoDigitsRight /\ RightJustThen)
<1>1. CkInit => CkInv
  BY DEF CkInit, CkInv
<1>2. CkInv /\ [SetTime]_ckVars => CkInv'
  <2> SUFFICES ASSUME CkInv, [SetTime]_ckVars PROVE CkInv'
    OBVIOUS
  <2>1. CASE SetTime
    <3>1. ckDate' = ckDate /\ ckTime' = ckTime
      BY <2>1 DEF SetTime
    <3>2. /\ ckText'[1] = Digits(ckDate.year) \o Digits(ckDate.month) \o Digits(ckDate.day)
          /\ ckText'[2] = Digits(ckTime.hour) \o Digits(ckTime.minute) \o Digits(ckTime.second)
      <4> DEFINE p == Digits(ckDate.year) \o Digits(ckDate.month) \o Digits(ckDate.day)
                 q == Digits(ckTime.hour) \o Digits(ckTime.minute) \o Digits(ckTime.second)
      <4>1. ckText' = <<p, q>>
        BY <2>1 DEF SetTime
      <4> HIDE DEF p, q
      <4>2. ckText'[1] = p /\ ckText'[2] = q
        BY <4>1
      <4> QED
        BY <4>2 DEF p, q
    <3> QED
      BY <3>1, <3>2, Zenon DEF CkInv
  <2>2. CASE UNCHANGED ckVars
    BY <2>2 DEF CkInv, ckVars
  <2> QED
    BY <2>1, <2>2
<1>3. CkInv => RightJustThen
  <2> SUFFICES ASSUME CkInv, ckText # <<>>
               PROVE  /\ DateOf(Number10(ckText[1])) = ckDate
                           <=> ckDate.month >= 10 /\ ckDate.day >= 10
                      /\ TimeOf(Number10(ckText[2])) = ckTime
                           <=> /\ ckTime.minute >= 10 \/ ckTime.hour = 0
                               /\ \/ ckTime.second >= 10
                                  \/ ckTime.hour = 0 /\ ckTime.minute = 0
    BY DEF RightJustThen, DateRight, TimeRight
  <2>1. \A date \in CkDates :
          /\ date.year \in Years /\ date.month \in 1 .. 12 /\ date.day \in 1 .. 31
          /\ date = [year |-> date.year, month |-> date.month, day |-> date.day]
    BY ClockAssumption
  <2>2. \A time \in CkTimes :
          /\ time.hour \in 0 .. 23 /\ time.minute \in 0 .. 59 /\ time.second \in 0 .. 59
          /\ time = [hour |-> time.hour, minute |-> time.minute, second |-> time.second]
    BY ClockAssumption
  <2>3. DateOf(Number10(ckText[1])) = ckDate <=> ckDate.month >= 10 /\ ckDate.day >= 10
    <3>1. DateOf(Number10(Digits(ckDate.year) \o Digits(ckDate.month) \o Digits(ckDate.day)))
            = [year |-> ckDate.year, month |-> ckDate.month, day |-> ckDate.day]
          <=> ckDate.month >= 10 /\ ckDate.day >= 10
      BY <2>1, DateRead DEF CkInv
    <3>2. ckDate = [year |-> ckDate.year, month |-> ckDate.month, day |-> ckDate.day]
      BY <2>1 DEF CkInv
    <3> QED
      BY <3>1, <3>2, Zenon DEF CkInv
  <2>4. TimeOf(Number10(ckText[2])) = ckTime
          <=> /\ ckTime.minute >= 10 \/ ckTime.hour = 0
              /\ ckTime.second >= 10 \/ (ckTime.hour = 0 /\ ckTime.minute = 0)
    <3>1. TimeOf(Number10(Digits(ckTime.hour) \o Digits(ckTime.minute)
                            \o Digits(ckTime.second)))
            = [hour |-> ckTime.hour, minute |-> ckTime.minute, second |-> ckTime.second]
          <=> /\ ckTime.minute >= 10 \/ ckTime.hour = 0
              /\ ckTime.second >= 10 \/ (ckTime.hour = 0 /\ ckTime.minute = 0)
      BY <2>2, TimeRead DEF CkInv
    <3>2. ckTime = [hour |-> ckTime.hour, minute |-> ckTime.minute, second |-> ckTime.second]
      BY <2>2 DEF CkInv
    <3> QED
      BY <3>1, <3>2, Zenon DEF CkInv
  <2> QED
    BY <2>3, <2>4
<1>4. CkInv /\ RightJustThen => TwoDigitsRight
  BY DEF RightJustThen, TwoDigitsRight
<1> QED
  BY <1>1, <1>2, <1>3, <1>4, PTL DEF CkSpec

(**************** The index file: make_into_install_item ********************)

\* Line k of the buffer is row k of the file.
LineAt(k) ==
  LET b == 9 * (k - 1)
      r == ixRows[k]
  IN  /\ ixBuf[b + 1] = r.act /\ ixBuf[b + 2] = Comma /\ ixBuf[b + 3] = r.name
      /\ ixBuf[b + 4] = Comma
      /\ ixBuf[b + 5] = IF r.activity = None THEN Hash ELSE r.activity
      /\ ixBuf[b + 6] = Comma /\ ixBuf[b + 7] = Hash

FileLoaded ==
  /\ ixRows \in Seq(IxRowType)
  /\ Len(ixBuf) = 9 * Len(ixRows) + 2
  /\ \A k \in 1 .. Len(ixRows) : LineAt(k)

\* The rows read are the first ones of the file, and the next line is next.
RowsRead ==
  /\ ixState \in {"parse", "done"}
  /\ ixInst \in Seq(IxRowType) /\ Len(ixInst) <= Len(ixRows)
  /\ \A k \in 1 .. Len(ixInst) : ixInst[k] = ixRows[k]
  /\ ixPos = 9 * Len(ixInst) + 1
  /\ ixState = "done" => /\ Len(ixInst) = Len(ixRows)
                         /\ ixFlag = (Count("I") < Count("U"))

IxInv == FileLoaded /\ (Last(ixBuf) # Comma => RowsRead)

\* strstr returns the first hit.
LEMMA StrStrFirst ==
  ASSUME NEW p \in Nat, NEW q \in Nat, NEW c, Len(ixBuf) \in Nat,
         p <= q, q <= Len(ixBuf), ixBuf[q] = c,
         \A h \in Nat : p <= h /\ h < q => ixBuf[h] # c
  PROVE  StrStr(p, c) = q
<1> DEFINE hits == {h \in p .. Len(ixBuf) : ixBuf[h] = c}
           x == CHOOSE h \in hits : \A g \in hits : h <= g
<1>1. q \in hits
  OBVIOUS
<1>2. \A g \in hits : q <= g
  OBVIOUS
<1>3. x \in hits /\ \A g \in hits : x <= g
  <2> HIDE DEF hits
  <2> QED
    BY <1>1, <1>2
<1>4. x \in Nat /\ x <= q /\ q <= x
  <2>1. x <= q /\ q <= x
    <3> HIDE DEF hits, x
    <3> QED
      BY <1>1, <1>2, <1>3
  <2>2. x \in Nat
    <3> HIDE DEF x
    <3> QED
      BY <1>3
  <2> QED
    BY <2>1, <2>2
<1>5. x = q
  <2> HIDE DEF x
  <2> QED
    BY <1>4
<1>6. StrStr(p, c) = IF hits = {} THEN 0 ELSE x
  BY DEF StrStr
<1> HIDE DEF hits, x
<1> QED
  BY <1>1, <1>5, <1>6

\* The characters of a line.
LEMMA LineChars ==
  ASSUME NEW r \in IxRowType
  PROVE  /\ Len(Line(r)) = 9
         /\ Line(r)[1] = r.act /\ Line(r)[2] = Comma /\ Line(r)[3] = r.name
         /\ Line(r)[4] = Comma
         /\ Line(r)[5] = IF r.activity = None THEN Hash ELSE r.activity
         /\ Line(r)[6] = Comma /\ Line(r)[7] = Hash
BY DEF Line

\* Where the file begins, its lines are where they are looked for.
LEMMA IxInitInv == IxInit => IxInv
<1> SUFFICES ASSUME IxInit PROVE IxInv
  OBVIOUS
<1>1. ixRows \in Seq(IxRowType)
  <2>1. ixRows \in BoundedSeq(IxRowType, IxMaxRows)
    BY DEF IxInit
  <2>2. IxMaxRows \in Nat
    BY IndexAssumption
  <2> QED
    BY <2>1, <2>2 DEF BoundedSeq, SeqOf
<1> DEFINE n == Len(ixRows)
           f == File(ixRows)
<1>n. n \in Nat
  BY <1>1
<1>2. \A k \in 1 .. n : ixRows[k] \in IxRowType
  BY <1>1
<1>3. PICK b1, b2 \in {Comma, "NUL", "other"} : ixBuf = f \o <<b1, b2>>
  BY DEF IxInit
<1> HIDE DEF n
<1>4. /\ \A p \in 1 .. 9 * n : f[p] = Line(ixRows[((p - 1) \div 9) + 1])[((p - 1) % 9) + 1]
      /\ \E S : f \in Seq(S) /\ b1 \in S /\ b2 \in S
      /\ Len(f) = 9 * n
  <2> DEFINE m == 9 * n
             g(p) == Line(ixRows[((p - 1) \div 9) + 1])[((p - 1) % 9) + 1]
             S == {g(p) : p \in 1 .. m} \cup {b1, b2}
  <2>1. f = [p \in 1 .. m |-> g(p)]
    BY DEF File, Width, n
  <2>2. m \in Nat
    BY <1>n
  <2> HIDE DEF f, m, g
  <2>3. f \in [1 .. m -> S]
    BY <2>1
  <2>b. b1 \in S /\ b2 \in S
    OBVIOUS
  <2> HIDE DEF S
  <2>4. f \in Seq(S) /\ Len(f) = m
    BY <2>2, <2>3
  <2>5. \A p \in 1 .. m : f[p] = g(p)
    BY <2>1
  <2> QED
    BY <2>4, <2>5, <2>b DEF m, g
<1> HIDE DEF f
<1>5. /\ Len(ixBuf) = 9 * n + 2
      /\ \A p \in 1 .. 9 * n : ixBuf[p] = f[p]
  <2>1. PICK S : f \in Seq(S) /\ b1 \in S /\ b2 \in S
    BY <1>4
  <2> DEFINE t == <<b1, b2>>
  <2>2. t \in Seq(S) /\ Len(t) = 2
    BY <2>1
  <2> HIDE DEF t
  <2>3. /\ Len(f \o t) = Len(f) + Len(t)
        /\ \A p \in 1 .. Len(f) + Len(t) :
             (f \o t)[p] = IF p <= Len(f) THEN f[p] ELSE t[p - Len(f)]
    BY <2>1, <2>2, ConcatProperties
  <2>4. ixBuf = f \o t /\ Len(f) = 9 * n
    BY <1>3, <1>4 DEF t
  <2>5. ASSUME NEW p \in 1 .. 9 * n PROVE ixBuf[p] = f[p]
    <3>1. p \in 1 .. Len(f) + Len(t) /\ p <= Len(f)
      BY <1>n, <2>2, <2>4
    <3> QED
      BY <2>3, <2>4, <3>1
  <2> QED
    BY <1>n, <2>2, <2>3, <2>4, <2>5
<1>6. ASSUME NEW k \in 1 .. n PROVE LineAt(k)
  <2> DEFINE b == 9 * (k - 1)
  <2>1. ASSUME NEW i \in 1 .. 9 PROVE ixBuf[b + i] = Line(ixRows[k])[i]
    <3> DEFINE p == b + i
    <3>1. p \in 1 .. 9 * n
      BY <1>n
    <3>2. p - 1 = 9 * (k - 1) + (i - 1) /\ i - 1 \in 0 .. 8 /\ k \in Nat
      BY <1>n
    <3>3. (p - 1) \div 9 = k - 1 /\ (p - 1) % 9 = i - 1
      <4> HIDE DEF p
      <4> QED
        BY <3>2
    <3>4. ((p - 1) \div 9) + 1 = k /\ ((p - 1) % 9) + 1 = i
      BY <3>3, <3>2
    <3> HIDE DEF p
    <3>5. ixBuf[p] = Line(ixRows[k])[i]
      BY <1>4, <1>5, <3>1, <3>4
    <3> QED
      BY <3>5 DEF p
  <2>2. ixRows[k] \in IxRowType
    BY <1>2
  <2> HIDE DEF b
  <2>3. /\ ixBuf[b + 1] = Line(ixRows[k])[1] /\ ixBuf[b + 2] = Line(ixRows[k])[2]
        /\ ixBuf[b + 3] = Line(ixRows[k])[3] /\ ixBuf[b + 4] = Line(ixRows[k])[4]
        /\ ixBuf[b + 5] = Line(ixRows[k])[5] /\ ixBuf[b + 6] = Line(ixRows[k])[6]
        /\ ixBuf[b + 7] = Line(ixRows[k])[7]
    <3>1. 1 \in 1 .. 9 /\ 2 \in 1 .. 9 /\ 3 \in 1 .. 9 /\ 4 \in 1 .. 9 /\ 5 \in 1 .. 9
          /\ 6 \in 1 .. 9 /\ 7 \in 1 .. 9
      OBVIOUS
    <3> QED
      BY <2>1, <3>1, Zenon
  <2> QED
    BY <2>2, <2>3, LineChars DEF LineAt, b
<1>7. FileLoaded
  BY <1>1, <1>5, <1>6 DEF FileLoaded, n
<1>8. RowsRead
  <2>1. ixState = "parse" /\ ixInst = <<>> /\ ixPos = 1
    BY DEF IxInit
  <2> DEFINE e == <<>>
  <2>2. e \in Seq(IxRowType) /\ Len(e) = 0
    BY EmptySeq
  <2> HIDE DEF e
  <2>3. ixInst = e
    BY <2>1 DEF e
  <2> QED
    BY <1>n, <2>1, <2>2, <2>3 DEF RowsRead, n
<1> QED
  BY <1>7, <1>8 DEF IxInv

\* Separators are no actions, names or activities.
LEMMA Separators ==
  /\ Comma # Hash
  /\ \A r \in IxRowType : /\ r.act # Comma /\ r.name # Comma
                          /\ r.activity \notin {Comma, Hash}
<1>1. Comma # Hash /\ Comma \notin {"I", "U"} /\ None \notin {Comma, Hash}
  BY Zenon DEF Comma, Hash, None
<1>2. /\ \A x \in IxNames : x # Comma /\ x # Hash /\ x # None
  BY IndexAssumption
<1> QED
  BY <1>1, <1>2 DEF IxRowType

\* A round of the loop that starts at line m + 1 reads row m + 1, whatever
\* strstr would find behind it.
LEMMA RowParsed ==
  ASSUME FileLoaded, NEW m \in Nat, m < Len(ixRows), ixPos = 9 * m + 1, ParseRow
  PROVE  /\ ixState' = ixState
         /\ ixInst' = Append(ixInst, ixRows[m + 1]) /\ ixRows[m + 1] \in IxRowType
         /\ ixPos' = 9 * (m + 1) + 1
<1> DEFINE b == 9 * m
           r == ixRows[m + 1]
           n == Len(ixRows)
           f1 == StrStr(ixPos, Comma)
           f2 == StrStr(f1 + 1, Comma)
           f3 == ActivityEnd(f2)
           f4 == StrStr(f3 + 1, Hash)
           row == [act |-> ixBuf[f1 - 1], name |-> Between(f1, f2),
                   activity |-> IF Empty(f2) THEN None ELSE Between(f2, f3)]
<1>1. n \in Nat /\ r \in IxRowType
  BY DEF FileLoaded
<1>2. Len(ixBuf) = 9 * n + 2 /\ m + 1 \in 1 .. n /\ 9 * ((m + 1) - 1) = b
  BY <1>1 DEF FileLoaded
<1>3. /\ ixBuf[b + 1] = r.act /\ ixBuf[b + 2] = Comma /\ ixBuf[b + 3] = r.name
      /\ ixBuf[b + 4] = Comma
      /\ ixBuf[b + 5] = IF r.activity = None THEN Hash ELSE r.activity
      /\ ixBuf[b + 6] = Comma /\ ixBuf[b + 7] = Hash
  <2>1. LineAt(m + 1)
    BY <1>2 DEF FileLoaded
  <2> HIDE DEF b
  <2> QED
    BY <1>2, <2>1 DEF LineAt
<1>4. b \in Nat /\ Len(ixBuf) \in Nat /\ b + 9 <= Len(ixBuf) /\ ixPos = b + 1
  BY <1>1, <1>2
<1> HIDE DEF b, n
<1>5. f1 = b + 2
  <2>1. \A h \in Nat : b + 1 <= h /\ h < b + 2 => h = b + 1
    BY <1>4
  <2>2. ixBuf[b + 1] # Comma
    BY <1>1, <1>3, Separators
  <2>3. ixBuf[b + 2] = Comma
    BY <1>3
  <2>h. \A h \in Nat : b + 1 <= h /\ h < b + 2 => ixBuf[h] # Comma
    BY <2>1, <2>2, Zenon
  <2>n. b + 1 \in Nat /\ b + 2 \in Nat /\ b + 1 <= b + 2 /\ b + 2 <= Len(ixBuf)
    BY <1>4
  <2>4. StrStr(b + 1, Comma) = b + 2
    BY <1>4, <2>h, <2>n, <2>3, StrStrFirst
  <2> QED
    BY <1>4, <2>4
<1> HIDE DEF f1
<1>6. f2 = b + 4
  <2>1. \A h \in Nat : b + 3 <= h /\ h < b + 4 => h = b + 3
    BY <1>4
  <2>c. ixBuf[b + 3] # Comma /\ ixBuf[b + 4] = Comma
    BY <1>1, <1>3, Separators
  <2>h. \A h \in Nat : b + 3 <= h /\ h < b + 4 => ixBuf[h] # Comma
    BY <2>1, <2>c, Zenon
  <2>n. b + 3 \in Nat /\ b + 4 \in Nat /\ b + 3 <= b + 4 /\ b + 4 <= Len(ixBuf)
    BY <1>4
  <2>2. StrStr(b + 3, Comma) = b + 4
    BY <1>4, <2>h, <2>n, <2>c, StrStrFirst
  <2>3. f1 + 1 = b + 3
    BY <1>4, <1>5
  <2> QED
    BY <2>2, <2>3
<1> HIDE DEF f2
<1>7. Empty(f2) <=> r.activity = None
  <2>1. f2 < Len(ixBuf) /\ f2 + 1 = b + 5
    BY <1>4, <1>6
  <2> QED
    BY <1>1, <1>3, <2>1, Separators DEF Empty
<1>8. f3 = b + 6
  <2>1. CASE r.activity = None
    BY <1>4, <1>6, <1>7, <2>1 DEF ActivityEnd
  <2>2. CASE r.activity # None
    <3>1. \A h \in Nat : b + 5 <= h /\ h < b + 6 => h = b + 5
      BY <1>4
    <3>c. ixBuf[b + 5] # Comma /\ ixBuf[b + 6] = Comma
      BY <1>1, <1>3, <2>2, Separators
    <3>h. \A h \in Nat : b + 5 <= h /\ h < b + 6 => ixBuf[h] # Comma
      BY <3>1, <3>c, Zenon
    <3>n. b + 5 \in Nat /\ b + 6 \in Nat /\ b + 5 <= b + 6 /\ b + 6 <= Len(ixBuf)
      BY <1>4
    <3>2. StrStr(b + 5, Comma) = b + 6
      BY <1>4, <3>h, <3>n, <3>c, StrStrFirst
    <3>3. f2 + 1 = b + 5
      BY <1>4, <1>6
    <3> QED
      BY <1>7, <2>2, <3>2, <3>3 DEF ActivityEnd
  <2> QED
    BY <2>1, <2>2
<1> HIDE DEF f3
<1>9. f4 = b + 7
  <2>1. \A h \in Nat : b + 7 <= h /\ h < b + 7 => ixBuf[h] # Hash
    BY <1>4
  <2>n. b + 7 \in Nat /\ b + 7 <= b + 7 /\ b + 7 <= Len(ixBuf)
    BY <1>4
  <2>c. ixBuf[b + 7] = Hash
    BY <1>3
  <2>2. StrStr(b + 7, Hash) = b + 7
    BY <1>4, <2>1, <2>n, <2>c, StrStrFirst
  <2>3. f3 + 1 = b + 7
    BY <1>4, <1>8
  <2> QED
    BY <2>2, <2>3
<1> HIDE DEF f4
<1>10. row = r
  <2>1. ixBuf[f1 - 1] = r.act
    <3>1. f1 - 1 = b + 1
      BY <1>4, <1>5
    <3> QED
      BY <1>3, <3>1
  <2>2. Between(f1, f2) = r.name
    BY <1>3, <1>4, <1>5, <1>6 DEF Between
  <2>3. (IF Empty(f2) THEN None ELSE Between(f2, f3)) = r.activity
    <3>n. f2 + 1 = b + 5 /\ f3 = f2 + 2
      BY <1>4, <1>6, <1>8
    <3>c. r.activity # None => ixBuf[b + 5] = r.activity
      BY <1>3, Zenon
    <3>1. r.activity # None => Between(f2, f3) = r.activity
      BY <3>n, <3>c DEF Between
    <3> QED
      BY <1>7, <3>1
  <2> HIDE DEF r
  <2> QED
    BY <1>1, <2>1, <2>2, <2>3 DEF IxRowType
<1>11. f2 # 0 /\ f3 # 0 /\ f4 # 0
  BY <1>4, <1>6, <1>8, <1>9
<1>12. IF f2 = 0 \/ f3 = 0 \/ f4 = 0
       THEN ixState' = "crash" /\ UNCHANGED <<ixPos, ixInst>>
       ELSE /\ ixInst' = Append(ixInst, row)
            /\ ixPos' = AfterLine(f4)
            /\ UNCHANGED ixState
  BY DEF ParseRow, f1, f2, f3, f4
<1> HIDE DEF row
<1>13. AfterLine(f4) = 9 * (m + 1) + 1
  BY <1>4, <1>9 DEF AfterLine, b
<1> QED
  BY <1>1, <1>10, <1>11, <1>12, <1>13

\* While the second byte behind the block is no comma, the table follows the file.
LEMMA RowsReadKept == IxInv /\ [IxNext]_ixVars => IxInv'
<1> SUFFICES ASSUME IxInv, [IxNext]_ixVars PROVE IxInv'
  OBVIOUS
<1>1. ixRows' = ixRows /\ ixBuf' = ixBuf
  BY DEF IxNext, ParseRow, ParseDone, ixVars
<1>2. FileLoaded'
  BY <1>1 DEF IxInv, FileLoaded, LineAt
<1>3. SUFFICES ASSUME Last(ixBuf) # Comma PROVE RowsRead'
  BY <1>1, <1>2 DEF IxInv
<1>4. FileLoaded /\ RowsRead
  BY <1>3 DEF IxInv
<1>5. CASE ParseRow
  <2> DEFINE m == Len(ixInst)
             n == Len(ixRows)
  <2>1. m \in Nat /\ n \in Nat /\ m <= n /\ ixPos = 9 * m + 1 /\ ixState = "parse"
    BY <1>4, <1>5 DEF FileLoaded, RowsRead, ParseRow
  <2>2. m # n
    <3>1. SUFFICES ASSUME m = n PROVE FALSE
      OBVIOUS
    <3>2. ixPos + 1 = Len(ixBuf)
      BY <1>4, <2>1, <3>1 DEF FileLoaded
    <3> QED
      BY <1>3, <1>5, <3>2 DEF ParseRow, MoreRows, Last
  <2>3. /\ ixState' = ixState
        /\ ixInst' = Append(ixInst, ixRows[m + 1]) /\ ixRows[m + 1] \in IxRowType
        /\ ixPos' = 9 * (m + 1) + 1
    BY <1>4, <1>5, <2>1, <2>2, RowParsed
  <2>4. /\ ixInst' \in Seq(IxRowType) /\ Len(ixInst') = m + 1
        /\ \A k \in 1 .. m : ixInst'[k] = ixInst[k]
        /\ ixInst'[m + 1] = ixRows[m + 1]
    BY <1>4, <2>3, AppendProperties DEF RowsRead
  <2>5. \A k \in 1 .. m : ixInst[k] = ixRows[k]
    BY <1>4 DEF RowsRead
  <2> HIDE DEF m, n
  <2>6. \A k \in 1 .. m + 1 : ixInst'[k] = ixRows[k]
    BY <2>1, <2>4, <2>5
  <2> QED
    BY <1>1, <2>1, <2>2, <2>3, <2>4, <2>6 DEF RowsRead, n
<1>6. CASE ParseDone
  <2>1. /\ ixState' = "done" /\ UNCHANGED <<ixPos, ixInst>> /\ ~MoreRows
        /\ ixFlag' = (Count("I") < Count("U")) /\ ixState = "parse"
    BY <1>6, Zenon DEF ParseDone
  <2>2. Len(ixInst) = Len(ixRows)
    <3>1. SUFFICES ASSUME Len(ixInst) # Len(ixRows) PROVE FALSE
      OBVIOUS
    <3>2. Len(ixInst) + 1 \in 1 .. Len(ixRows) /\ Len(ixInst) \in Nat
      BY <1>4, <3>1 DEF FileLoaded, RowsRead
    <3>3. LineAt(Len(ixInst) + 1)
      BY <1>4, <3>2 DEF FileLoaded
    <3>4. ixBuf[9 * ((Len(ixInst) + 1) - 1) + 2] = Comma
      BY <3>3 DEF LineAt
    <3>5. 9 * ((Len(ixInst) + 1) - 1) + 2 = ixPos + 1
      BY <1>4, <3>2 DEF RowsRead
    <3> QED
      BY <2>1, <3>4, <3>5 DEF MoreRows
  <2>3. \A act : Count(act)' = Count(act)
    BY <2>1 DEF Count
  <2>4. ixFlag' = (Count("I")' < Count("U")')
    BY <2>1, <2>3, Zenon
  <2> QED
    BY <1>1, <1>4, <2>1, <2>2, <2>4 DEF RowsRead
<1>7. CASE UNCHANGED ixVars
  BY <1>4, <1>7 DEF RowsRead, Count, ixVars
<1> QED
  BY <1>5, <1>6, <1>7 DEF IxNext

\* More rows to remove than to install: the removals are more than half.
LEMMA FlagMeans ==
  ASSUME ixRows \in Seq(IxRowType), ixInst = ixRows
  PROVE  Count("I") < Count("U") <=> 2 * Count("U") > Len(ixRows)
<1> DEFINE n == Len(ixRows)
           ins == {k \in 1 .. n : ixRows[k].act = "I"}
           rem == {k \in 1 .. n : ixRows[k].act = "U"}
<1>n. n \in Nat /\ DOMAIN ixRows = 1 .. n
  OBVIOUS
<1>r. \A k \in 1 .. n : ixRows[k] \in IxRowType
  OBVIOUS
<1>1. \A k \in 1 .. n : ixRows[k].act \in {"I", "U"}
  BY <1>r DEF IxRowType
<1>2. Count("I") = Cardinality(ins) /\ Count("U") = Cardinality(rem)
  BY <1>n, Zenon DEF Count
<1> HIDE DEF n
<1>3. IsFiniteSet(1 .. n) /\ Cardinality(1 .. n) = n
  BY <1>n, FS_Interval
<1>4. /\ ins \subseteq 1 .. n /\ rem \subseteq 1 .. n
      /\ ins \cup rem = 1 .. n /\ ins \cap rem = {}
  BY <1>1
<1> HIDE DEF ins, rem
<1>5. IsFiniteSet(ins) /\ IsFiniteSet(rem)
  BY <1>3, <1>4, FS_Subset
<1>6. Cardinality(ins) \in Nat /\ Cardinality(rem) \in Nat
  BY <1>5, FS_CardinalityType
<1>7. Cardinality(ins \cup rem)
        = Cardinality(ins) + Cardinality(rem) - Cardinality(ins \cap rem)
  BY <1>5, FS_Union
<1>8. n = Cardinality(ins) + Cardinality(rem)
  <2>1. Cardinality(ins \cap rem) = 0
    BY <1>4, FS_EmptySet
  <2>2. Cardinality(ins \cup rem) = n
    BY <1>3, <1>4
  <2> QED
    BY <1>n, <1>6, <1>7, <2>1, <2>2
<1> QED
  BY <1>2, <1>6, <1>8 DEF n

(***************************************************************************)
(* IndexExact, for every file and any size of inst1: I.txt or C.txt        *)
(* becomes the table inst1 row for row, if the second byte behind the      *)
(* block it was read into is not a comma.                                  *)
(***************************************************************************)
THEOREM IndexRead == IxSpec => []IndexExact
<1>1. IxInv => IndexExact
  <2> SUFFICES ASSUME IxInv, Last(ixBuf) # Comma
               PROVE  /\ ixState # "crash"
                      /\ IsPrefix(ixInst, ixRows)
                      /\ Len(ixInst) > IxLimit => Len(ixRows) > IxLimit
                      /\ ixState = "done" =>
                           /\ ixInst = ixRows
                           /\ ixFlag <=> 2 * Cardinality({k \in DOMAIN ixRows :
                                                            ixRows[k].act = "U"})
                                         > Len(ixRows)
    BY Zenon DEF IndexExact
  <2>1. FileLoaded /\ RowsRead
    BY DEF IxInv
  <2> DEFINE m == Len(ixInst)
             n == Len(ixRows)
  <2>2. /\ ixInst \in Seq(IxRowType) /\ ixRows \in Seq(IxRowType)
        /\ m \in Nat /\ n \in Nat /\ m <= n
        /\ \A k \in 1 .. m : ixInst[k] = ixRows[k]
    BY <2>1 DEF FileLoaded, RowsRead
  <2>3. ixState # "crash"
    BY <2>1 DEF RowsRead
  <2>4. m > IxLimit => n > IxLimit
    BY <2>2, IndexAssumption
  <2>5. IsPrefix(ixInst, ixRows)
    <3>1. Len(ixInst) <= Len(ixRows) /\ \A k \in 1 .. Len(ixInst) : ixInst[k] = ixRows[k]
      BY <2>2
    <3> QED
      BY <2>2, <3>1, PrefixMeans
  <2>6. ASSUME ixState = "done"
        PROVE  /\ ixInst = ixRows
               /\ ixFlag <=> 2 * Cardinality({k \in DOMAIN ixRows : ixRows[k].act = "U"})
                             > Len(ixRows)
    <3>1. m = n
      BY <2>1, <2>6 DEF RowsRead
    <3>2. ixInst = ixRows
      BY <2>2, <3>1, SeqEqual
    <3>3. ixFlag = (Count("I") < Count("U"))
      BY <2>1, <2>6, Zenon DEF RowsRead
    <3>4. Count("I") < Count("U") <=> 2 * Count("U") > Len(ixRows)
      BY <2>2, <3>2, FlagMeans
    <3>5. Count("U") = Cardinality({k \in DOMAIN ixRows : ixRows[k].act = "U"})
      BY <3>2, Zenon DEF Count
    <3> QED
      BY <3>2, <3>3, <3>4, <3>5, Zenon
  <2> QED
    BY <2>3, <2>4, <2>5, <2>6, Zenon
<1> QED
  BY <1>1, IxInitInv, RowsReadKept, PTL DEF IxSpec

(************* The list of students: from MySQL and back ********************)

\* What a text of MySQL, and the buffer while it is taken apart, consist of.
Codes == SlChars \cup {Sep, Nul, Dot}

\* Three pieces, one after the other.
LEMMA ThreePieces ==
  ASSUME NEW S, NEW u \in Seq(S), NEW v \in Seq(S), NEW w \in Seq(S)
  PROVE  /\ u \o v \o w \in Seq(S)
         /\ Len(u \o v \o w) = Len(u) + Len(v) + Len(w)
         /\ \A i \in 1 .. Len(u) : (u \o v \o w)[i] = u[i]
         /\ \A i \in 1 .. Len(v) : (u \o v \o w)[Len(u) + i] = v[i]
         /\ \A i \in 1 .. Len(w) : (u \o v \o w)[Len(u) + Len(v) + i] = w[i]
<1> DEFINE uv == u \o v
           t == uv \o w
<1>1. Len(u) \in Nat /\ Len(v) \in Nat /\ Len(w) \in Nat
  OBVIOUS
<1>2. /\ uv \in Seq(S) /\ Len(uv) = Len(u) + Len(v)
      /\ \A i \in 1 .. Len(u) + Len(v) : uv[i] = IF i <= Len(u) THEN u[i] ELSE v[i - Len(u)]
  BY ConcatProperties
<1>s. uv \in Seq(S)
  BY ConcatProperties
<1> HIDE DEF uv
<1>3. /\ t \in Seq(S) /\ Len(t) = Len(uv) + Len(w)
      /\ \A i \in 1 .. Len(uv) + Len(w) : t[i] = IF i <= Len(uv) THEN uv[i] ELSE w[i - Len(uv)]
  BY <1>s, ConcatProperties
<1> HIDE DEF t
<1>4. ASSUME NEW i \in 1 .. Len(u) PROVE t[i] = u[i]
  BY <1>1, <1>2, <1>3
<1>5. ASSUME NEW i \in 1 .. Len(v) PROVE t[Len(u) + i] = v[i]
  <2>1. /\ Len(u) + i \in 1 .. Len(u) + Len(v) /\ Len(u) + i \in 1 .. Len(uv) + Len(w)
        /\ ~(Len(u) + i <= Len(u)) /\ Len(u) + i <= Len(uv) /\ (Len(u) + i) - Len(u) = i
    BY <1>1, <1>2
  <2> QED
    BY <1>2, <1>3, <2>1
<1>6. ASSUME NEW i \in 1 .. Len(w) PROVE t[Len(u) + Len(v) + i] = w[i]
  <2>1. /\ Len(u) + Len(v) + i \in 1 .. Len(uv) + Len(w)
        /\ ~(Len(u) + Len(v) + i <= Len(uv)) /\ (Len(u) + Len(v) + i) - Len(uv) = i
    BY <1>1, <1>2
  <2> QED
    BY <1>3, <2>1
<1> QED
  BY <1>1, <1>2, <1>3, <1>4, <1>5, <1>6 DEF t, uv

\* The separators are three different codes, and none is in a number or name.
LEMMA Students ==
  /\ Sep # Dot /\ Sep # Nul /\ Nul # Dot
  /\ \A r \in SlRow : /\ r.sid \in Seq(SlChars) /\ r.name \in Seq(SlChars)
                      /\ r.sid \in Seq(Codes) /\ r.name \in Seq(Codes)
                      /\ \A i \in 1 .. Len(r.sid) : r.sid[i] # Sep /\ r.sid[i] # Dot
                      /\ \A i \in 1 .. Len(r.name) : r.name[i] # Sep
<1>1. Sep # Dot /\ Sep # Nul /\ Nul # Dot
  BY Zenon DEF Sep, Nul, Dot
<1>2. ASSUME NEW r \in SlRow
      PROVE  /\ r.sid \in Seq(SlChars) /\ r.name \in Seq(SlChars)
             /\ r.sid \in Seq(Codes) /\ r.name \in Seq(Codes)
             /\ \A i \in 1 .. Len(r.sid) : r.sid[i] # Sep /\ r.sid[i] # Dot
             /\ \A i \in 1 .. Len(r.name) : r.name[i] # Sep
  <2>1. r.sid \in Seq(SlChars \ {Dot}) /\ r.name \in Seq(SlChars) /\ Sep \notin SlChars
    BY StudentsAssumption DEF SlRow
  <2>2. /\ \A i \in 1 .. Len(r.sid) : r.sid[i] \in SlChars /\ r.sid[i] # Dot
        /\ \A i \in 1 .. Len(r.name) : r.name[i] \in SlChars
    BY <2>1
  <2>3. SlChars \ {Dot} \subseteq SlChars /\ SlChars \subseteq Codes
    BY DEF Codes
  <2>4. r.sid \in Seq(SlChars) /\ r.sid \in Seq(Codes) /\ r.name \in Seq(Codes)
    BY <2>1, <2>3
  <2> QED
    BY <2>1, <2>2, <2>4
<1> QED
  BY <1>1, <1>2

\* A row as SelectData writes it.
LEMMA FieldsChars ==
  ASSUME NEW r \in SlRow
  PROVE  LET a == Len(r.sid)
             c == Len(r.name)
             f == Fields(r)
         IN  /\ f \in Seq(Codes) /\ Len(f) = a + c + 3
             /\ a \in Nat /\ c \in Nat
             /\ \A i \in 1 .. a : f[i] = r.sid[i]
             /\ f[a + 1] = Sep
             /\ \A i \in 1 .. c : f[a + 1 + i] = r.name[i]
             /\ f[a + c + 2] = Sep /\ f[a + c + 3] = Sep
<1> DEFINE a == Len(r.sid)
           c == Len(r.name)
           u == r.sid
           w == r.name
           e == <<Sep>>
           x == u \o e \o w
           f == x \o e \o e
<1>1. u \in Seq(Codes) /\ r.name \in Seq(Codes) /\ a \in Nat /\ c \in Nat
  BY Students
<1>2. e \in Seq(Codes) /\ Len(e) = 1 /\ e[1] = Sep
  BY DEF Codes
<1>s. u \in Seq(Codes) /\ w \in Seq(Codes) /\ e \in Seq(Codes)
  BY <1>1, <1>2
<1> HIDE DEF e, u, w
<1>p. /\ x \in Seq(Codes) /\ Len(x) = Len(u) + Len(e) + Len(w)
      /\ \A i \in 1 .. Len(u) : x[i] = u[i]
      /\ \A i \in 1 .. Len(e) : x[Len(u) + i] = e[i]
      /\ \A i \in 1 .. Len(w) : x[Len(u) + Len(e) + i] = w[i]
  BY <1>s, ThreePieces
<1>3. /\ x \in Seq(Codes) /\ Len(x) = a + Len(e) + c
      /\ \A i \in 1 .. a : x[i] = u[i]
      /\ \A i \in 1 .. Len(e) : x[a + i] = e[i]
      /\ \A i \in 1 .. c : x[a + Len(e) + i] = r.name[i]
  BY <1>p DEF u, w
<1>t. x \in Seq(Codes) /\ e \in Seq(Codes)
  BY <1>s, <1>3
<1> HIDE DEF x
<1>4. /\ f \in Seq(Codes) /\ Len(f) = Len(x) + Len(e) + Len(e)
      /\ \A i \in 1 .. Len(x) : f[i] = x[i]
      /\ \A i \in 1 .. Len(e) : f[Len(x) + i] = e[i]
      /\ \A i \in 1 .. Len(e) : f[Len(x) + Len(e) + i] = e[i]
  BY <1>t, ThreePieces
<1>5. f = Fields(r)
  BY DEF Fields, x, e, u, w
<1> HIDE DEF f, a, c, u
<1>6. Len(x) = a + c + 1 /\ Len(f) = a + c + 3 /\ 1 \in 1 .. Len(e)
  BY <1>1, <1>2, <1>3, <1>4
<1>7. \A i \in 1 .. a : f[i] = u[i]
  BY <1>1, <1>3, <1>4, <1>6
<1>8. f[a + 1] = Sep
  <2>1. x[a + 1] = Sep
    BY <1>2, <1>3, <1>6
  <2>2. a + 1 \in 1 .. Len(x)
    BY <1>1, <1>6
  <2> QED
    BY <1>4, <2>1, <2>2
<1>9. \A i \in 1 .. c : f[a + 1 + i] = r.name[i]
  <2> TAKE i \in 1 .. c
  <2>1. a + 1 + i \in 1 .. Len(x)
    BY <1>1, <1>6
  <2>2. x[a + 1 + i] = r.name[i]
    BY <1>2, <1>3, Zenon
  <2> QED
    BY <1>4, <2>1, <2>2, Zenon
<1>10. f[a + c + 2] = Sep /\ f[a + c + 3] = Sep
  <2>1. Len(x) + 1 = a + c + 2 /\ Len(x) + Len(e) + 1 = a + c + 3
    BY <1>1, <1>2, <1>6
  <2>2. f[Len(x) + 1] = Sep /\ f[Len(x) + Len(e) + 1] = Sep
    BY <1>2, <1>4, <1>6
  <2> QED
    BY <2>1, <2>2
<1> QED
  BY <1>1, <1>4, <1>5, <1>6, <1>7, <1>8, <1>9, <1>10 DEF a, c, u

\* An entry of the list.
LEMMA EntryChars ==
  ASSUME NEW r \in SlRow
  PROVE  LET a == Len(r.sid)
             c == Len(r.name)
             e == Entry(r)
         IN  /\ e \in Seq(Codes) /\ Len(e) = a + 1 + c
             /\ a \in Nat /\ c \in Nat
             /\ \A i \in 1 .. a : e[i] = r.sid[i]
             /\ e[a + 1] = Dot
             /\ \A i \in 1 .. c : e[a + 1 + i] = r.name[i]
<1> DEFINE a == Len(r.sid)
           c == Len(r.name)
           u == r.sid
           w == r.name
           d == <<Dot>>
           x == u \o d \o w
<1>1. r.sid \in Seq(Codes) /\ r.name \in Seq(Codes) /\ a \in Nat /\ c \in Nat
  BY Students
<1>2. d \in Seq(Codes) /\ Len(d) = 1 /\ d[1] = Dot
  BY DEF Codes
<1>s. u \in Seq(Codes) /\ w \in Seq(Codes) /\ d \in Seq(Codes)
  BY <1>1, <1>2
<1> HIDE DEF d, u, w
<1>p. /\ x \in Seq(Codes) /\ Len(x) = Len(u) + Len(d) + Len(w)
      /\ \A i \in 1 .. Len(u) : x[i] = u[i]
      /\ \A i \in 1 .. Len(d) : x[Len(u) + i] = d[i]
      /\ \A i \in 1 .. Len(w) : x[Len(u) + Len(d) + i] = w[i]
  BY <1>s, ThreePieces
<1>3. /\ x \in Seq(Codes) /\ Len(x) = a + Len(d) + c
      /\ \A i \in 1 .. a : x[i] = r.sid[i]
      /\ \A i \in 1 .. Len(d) : x[a + i] = d[i]
      /\ \A i \in 1 .. c : x[a + Len(d) + i] = r.name[i]
  BY <1>p DEF u, w
<1>4. x = Entry(r)
  BY DEF Entry, d, u, w
<1> HIDE DEF x, a, c
<1>5. Len(x) = a + 1 + c /\ 1 \in 1 .. Len(d)
  BY <1>1, <1>2, <1>3
<1>6. x[a + 1] = Dot /\ \A i \in 1 .. c : x[a + 1 + i] = r.name[i]
  BY <1>2, <1>3, <1>5
<1> QED
  BY <1>1, <1>3, <1>4, <1>5, <1>6 DEF a, c

\* The text of k rows is that of k - 1, and row k.
LEMMA PackedStep ==
  ASSUME NEW rows \in Seq(SlRow)
  PROVE  /\ Packed(rows) \in [0 .. Len(rows) -> Seq(Codes)]
         /\ Len(Packed(rows)[0]) = 0
         /\ \A k \in 1 .. Len(rows) :
              Packed(rows)[k] = Packed(rows)[k - 1] \o Fields(rows[k])
<1> DEFINE m == Len(rows)
           parts == [k \in 1 .. m |-> Fields(rows[k])]
           Body(f) == [k \in 0 .. m |-> IF k = 0 THEN <<>> ELSE f[k - 1] \o Fields(rows[k])]
<1>m. m \in Nat /\ \A k \in 1 .. m : rows[k] \in SlRow
  OBVIOUS
<1> HIDE DEF m
<1>1. \A k \in 1 .. m : Fields(rows[k]) \in Seq(Codes)
  BY <1>m, FieldsChars, Zenon
<1>2. parts \in [1 .. m -> Seq(Codes)] /\ \A k \in 1 .. m : parts[k] = Fields(rows[k])
  BY <1>1
<1> HIDE DEF parts
<1>3. \A f : Joined(f, parts, m) <=> f = Body(f)
  <2>1. \A k \in 0 .. m : k # 0 => parts[k] = Fields(rows[k])
    BY <1>m, <1>2
  <2>2. ASSUME NEW f
        PROVE  Body(f) = [k \in 0 .. m |-> IF k = 0 THEN <<>> ELSE f[k - 1] \o parts[k]]
    BY <2>1, Zenon
  <2> QED
    BY <2>2, Zenon DEF Joined
<1>4. \E f : f = Body(f)
  <2>1. \E f \in [0 .. m -> Seq(Codes)] : Joined(f, parts, m)
    BY <1>m, <1>2, JoinedExists
  <2> QED
    BY <1>3, <2>1, Zenon
<1> DEFINE g == Packed(rows)
<1>5. g = Body(g)
  <2>1. g = CHOOSE f : f = Body(f)
    BY Zenon DEF Packed, m
  <2> HIDE DEF Body, g
  <2> QED
    BY <1>4, <2>1, Zenon
<1>6. Joined(g, parts, m)
  BY <1>3, <1>5, Zenon
<1> HIDE DEF g
<1>7. /\ g \in [0 .. m -> Seq(Codes)] /\ Len(g[0]) = 0
      /\ \A k \in 1 .. m : g[k] = g[k - 1] \o parts[k]
  <2>1. parts \in [1 .. m -> Seq(Codes)]
    BY <1>2
  <2>2. m \in Nat
    BY <1>m
  <2>3. g \in [0 .. m -> Seq(Codes)]
    BY <1>6, <2>1, <2>2, JoinedType
  <2>4. Len(g[0]) = 0 /\ \A k \in 1 .. m : g[k] = g[k - 1] \o parts[k]
    BY <1>6, <2>2, JoinedSteps
  <2> QED
    BY <2>3, <2>4
<1> QED
  BY <1>2, <1>7 DEF g, m

\* Row k + 1 stands behind the first k, and stays where it is.
LEMMA RowPlace ==
  ASSUME NEW rows \in Seq(SlRow), NEW k \in Nat, k < Len(rows)
  PROVE  LET t == Selected(rows)
             o == Len(Packed(rows)[k])
             f == Fields(rows[k + 1])
         IN  /\ o \in Nat /\ Len(f) \in Nat
             /\ Len(Packed(rows)[k + 1]) = o + Len(f)
             /\ o + Len(f) <= Len(t)
             /\ \A i \in 1 .. Len(f) : t[o + i] = f[i]
<1> DEFINE n == Len(rows)
           P == Packed(rows)
           o == Len(P[k])
           f == Fields(rows[k + 1])
           S == {d \in Nat : k + 1 + d <= n =>
                   /\ Len(P[k + 1]) <= Len(P[k + 1 + d])
                   /\ \A i \in 1 .. Len(P[k + 1]) : P[k + 1 + d][i] = P[k + 1][i]}
<1>1. n \in Nat /\ k + 1 \in 1 .. n /\ (k + 1) - 1 = k /\ k \in 0 .. n
  OBVIOUS
<1>r. \A j \in 1 .. n : rows[j] \in SlRow
  OBVIOUS
<1>2. P \in [0 .. n -> Seq(Codes)] /\ \A j \in 1 .. n : P[j] = P[j - 1] \o Fields(rows[j])
  BY PackedStep
<1> HIDE DEF P, n
<1>3. \A j \in 1 .. n : Fields(rows[j]) \in Seq(Codes)
  BY <1>r, FieldsChars
<1>4. \A j \in 0 .. n : P[j] \in Seq(Codes) /\ Len(P[j]) \in Nat
  BY <1>2
<1>5. ASSUME NEW j \in 1 .. n
      PROVE  /\ Len(P[j]) = Len(P[j - 1]) + Len(Fields(rows[j]))
             /\ \A i \in 1 .. Len(P[j - 1]) : P[j][i] = P[j - 1][i]
             /\ \A i \in 1 .. Len(Fields(rows[j])) :
                  P[j][Len(P[j - 1]) + i] = Fields(rows[j])[i]
  <2> DEFINE u == P[j - 1]
             v == Fields(rows[j])
  <2>1. u \in Seq(Codes) /\ v \in Seq(Codes) /\ P[j] = u \o v
    <3>1. j - 1 \in 0 .. n
      BY <1>1
    <3>2. u \in Seq(Codes)
      BY <1>4, <3>1, Zenon
    <3>3. v \in Seq(Codes)
      BY <1>3, Zenon
    <3>4. P[j] = u \o v
      BY <1>2, Zenon
    <3> QED
      BY <3>2, <3>3, <3>4
  <2> HIDE DEF u, v
  <2>2. /\ Len(u \o v) = Len(u) + Len(v)
        /\ \A i \in 1 .. Len(u) + Len(v) : (u \o v)[i] = IF i <= Len(u) THEN u[i] ELSE v[i - Len(u)]
    BY <2>1, ConcatProperties
  <2>3. Len(u) \in Nat /\ Len(v) \in Nat
    BY <2>1
  <2>4. \A i \in 1 .. Len(u) : (u \o v)[i] = u[i]
    BY <2>2, <2>3
  <2>5. ASSUME NEW i \in 1 .. Len(v) PROVE (u \o v)[Len(u) + i] = v[i]
    <3>1. /\ Len(u) + i \in 1 .. Len(u) + Len(v) /\ ~(Len(u) + i <= Len(u))
          /\ (Len(u) + i) - Len(u) = i
      BY <2>3
    <3> QED
      BY <2>2, <3>1
  <2> QED
    BY <2>1, <2>2, <2>4, <2>5 DEF u, v
<1>6. 0 \in S
  <2>1. k + 1 + 0 = k + 1
    BY <1>1
  <2>2. Len(P[k + 1]) \in Nat
    BY <1>1, <1>4
  <2> QED
    BY <2>1, <2>2
<1>7. ASSUME NEW d \in Nat, d \in S PROVE d + 1 \in S
  <2> DEFINE j == k + 1 + d
  <2>1. SUFFICES ASSUME k + 1 + (d + 1) <= n
                 PROVE  /\ Len(P[k + 1]) <= Len(P[k + 1 + (d + 1)])
                        /\ \A i \in 1 .. Len(P[k + 1]) : P[k + 1 + (d + 1)][i] = P[k + 1][i]
    OBVIOUS
  <2>2. j \in Nat /\ j <= n /\ k + 1 + (d + 1) = j + 1 /\ j + 1 \in 1 .. n /\ (j + 1) - 1 = j
        /\ j \in 0 .. n
    BY <1>1, <2>1
  <2>3. Len(P[k + 1]) <= Len(P[j]) /\ \A i \in 1 .. Len(P[k + 1]) : P[j][i] = P[k + 1][i]
    BY <1>7, <2>2
  <2> HIDE DEF j
  <2>4. /\ Len(P[j + 1]) = Len(P[j]) + Len(Fields(rows[j + 1]))
        /\ \A i \in 1 .. Len(P[j]) : P[j + 1][i] = P[j][i]
    BY <1>5, <2>2
  <2>5. Len(P[j]) \in Nat /\ Len(P[k + 1]) \in Nat /\ Len(Fields(rows[j + 1])) \in Nat
    BY <1>1, <1>3, <1>4, <2>2
  <2>6. Len(P[k + 1]) <= Len(P[j + 1])
    <3>1. Len(P[k + 1]) <= Len(P[j])
      BY <2>3, Zenon
    <3>2. Len(P[j + 1]) = Len(P[j]) + Len(Fields(rows[j + 1]))
      BY <2>4, Zenon
    <3>3. \A x, y, z, w \in Nat : x <= y /\ z = y + w => x <= z
      OBVIOUS
    <3>4. Len(P[j + 1]) \in Nat
      BY <1>1, <1>4, <2>2
    <3> QED
      BY <2>5, <3>1, <3>2, <3>3, <3>4, Zenon
  <2>7. ASSUME NEW i \in 1 .. Len(P[k + 1]) PROVE P[j + 1][i] = P[k + 1][i]
    <3>1. i \in 1 .. Len(P[j])
      BY <2>3, <2>5
    <3> QED
      BY <2>3, <2>4, <3>1
  <2> QED
    BY <2>2, <2>6, <2>7, Zenon
<1>8. Len(P[k + 1]) <= Len(P[n]) /\ \A i \in 1 .. Len(P[k + 1]) : P[n][i] = P[k + 1][i]
  <2> HIDE DEF S
  <2>1. Nat \subseteq S
    BY <1>6, <1>7, InductionOver
  <2>2. n - k - 1 \in Nat /\ k + 1 + (n - k - 1) = n
    BY <1>1
  <2> DEFINE d == n - k - 1
  <2>3. d \in S
    BY <2>1, <2>2
  <2>4. k + 1 + d <= n
    BY <1>1, <2>2
  <2> HIDE DEF d
  <2>5. k + 1 + d = n
    BY <2>2 DEF d
  <2>6. /\ Len(P[k + 1]) <= Len(P[k + 1 + d])
        /\ \A i \in 1 .. Len(P[k + 1]) : P[k + 1 + d][i] = P[k + 1][i]
    BY <2>3, <2>4, Zenon DEF S
  <2> QED
    BY <2>5, <2>6, Zenon
<1>9. /\ Len(P[k + 1]) = Len(P[k]) + Len(f)
      /\ \A i \in 1 .. Len(f) : P[k + 1][Len(P[k]) + i] = f[i]
  BY <1>1, <1>5
<1>10. Len(P[k]) \in Nat /\ Len(f) \in Nat
  BY <1>1, <1>3, <1>4
<1> HIDE DEF f
<1>11. ASSUME NEW i \in 1 .. Len(f) PROVE P[n][Len(P[k]) + i] = f[i]
  <2>1. Len(P[k]) + i \in 1 .. Len(P[k + 1])
    BY <1>9, <1>10
  <2> QED
    BY <1>8, <1>9, <2>1, Zenon
<1> QED
  BY <1>8, <1>9, <1>10, <1>11 DEF Selected, P, n, f

-----------------------------------------------------------------------------
\* Where the text of row t + 1 begins.
Begin(t) == Len(Packed(slRows)[t]) + 1

\* The loop has come to row t + 1: it is within it, and the text from the
\* start of the row on is still that of MySQL.
InRow(t) ==
  /\ slJ = Begin(t) /\ slJ <= slI
  /\ t < Len(slRows) =>
       slI <= slJ + Len(slRows[t + 1].sid) + Len(slRows[t + 1].name) + 1
  /\ t = Len(slRows) => slI = slJ
  /\ \A p \in slJ .. Len(slBuf) : slBuf[p] = Selected(slRows)[p]

SlTyped ==
  /\ slRows \in Seq(SlRow)
  /\ \A k, l \in 1 .. Len(slRows) : slRows[k].sid = slRows[l].sid => k = l
  /\ slFound \in 0 .. Len(slRows)
  /\ slBuf \in Seq(Codes) /\ Len(slBuf) = Len(Selected(slRows))
  /\ slI \in Nat \ {0} /\ slJ \in Nat \ {0}
  /\ slState \in {"scan", "find", "selected", "read"}

RowsListed ==
  LET t == Len(slItems)
  IN  /\ slItems \in Seq(Seq(Codes)) /\ t <= Len(slRows)
      /\ \A k \in 1 .. t : slItems[k] = Entry(slRows[k])
      /\ slState = "scan" => InRow(t)
      /\ slState # "scan" => t = Len(slRows)
      /\ slState \in {"selected", "read"} => slSel = slFound
      /\ slState = "read" => slFound # 0 /\ slUser = slRows[slFound].name

SlInv == SlTyped /\ (AllNamed => RowsListed)

\* The whole text is one of MySQL's codes.
LEMMA SelectedType ==
  ASSUME NEW rows \in Seq(SlRow)
  PROVE  Selected(rows) \in Seq(Codes) /\ Len(Packed(rows)[0]) = 0
<1>1. Packed(rows) \in [0 .. Len(rows) -> Seq(Codes)] /\ Len(Packed(rows)[0]) = 0
  BY PackedStep
<1>2. Len(rows) \in 0 .. Len(rows)
  OBVIOUS
<1> QED
  BY <1>1, <1>2 DEF Selected

\* The start: the text is as MySQL gave it, and the loop at its beginning.
LEMMA SlInitInv == SlInit => SlInv
<1> SUFFICES ASSUME SlInit PROVE SlInv
  OBVIOUS
<1>1. slRows \in Seq(SlRow)
  <2>1. slRows \in BoundedSeq(SlRow, SlMaxRows)
    BY DEF SlInit
  <2>2. SlMaxRows \in Nat
    BY StudentsAssumption
  <2> QED
    BY <2>1, <2>2 DEF BoundedSeq, SeqOf
<1>2. /\ DOMAIN slRows = 1 .. Len(slRows) /\ Len(slRows) \in Nat
  BY <1>1
<1>3. /\ \A k, l \in DOMAIN slRows : slRows[k].sid = slRows[l].sid => k = l
      /\ slFound \in 0 .. Len(slRows) /\ slI = 1 /\ slJ = 1 /\ slBuf = Selected(slRows)
      /\ slState = "scan"
  BY DEF SlInit
<1>4. SlTyped
  BY <1>1, <1>2, <1>3, SelectedType DEF SlTyped
<1> DEFINE e == <<>>
<1>5. slItems = e /\ e \in Seq(Seq(Codes)) /\ Len(e) = 0
  BY EmptySeq DEF SlInit
<1> HIDE DEF e
<1>6. Begin(0) = 1
  BY <1>1, SelectedType DEF Begin
<1>7. InRow(0)
  <2>1. ASSUME 0 < Len(slRows)
        PROVE  slI <= slJ + Len(slRows[0 + 1].sid) + Len(slRows[0 + 1].name) + 1
    <3>1. slRows[1] \in SlRow
      BY <1>1, <1>2, <2>1
    <3>2. Len(slRows[1].sid) \in Nat /\ Len(slRows[1].name) \in Nat
      BY <3>1, EntryChars
    <3> DEFINE a == Len(slRows[1].sid)
               c == Len(slRows[1].name)
    <3>3. a \in Nat /\ c \in Nat
      BY <3>2
    <3> HIDE DEF a, c
    <3>4. slI <= slJ + a + c + 1
      BY <1>3, <3>3
    <3>5. 0 + 1 = 1
      OBVIOUS
    <3> QED
      BY <3>4, <3>5, Zenon DEF a, c
  <2>2. slJ = Begin(0) /\ slJ <= slI /\ slI = slJ
    BY <1>3, <1>6
  <2>3. \A p \in slJ .. Len(slBuf) : slBuf[p] = Selected(slRows)[p]
    BY <1>3, Zenon
  <2> QED
    BY <2>1, <2>2, <2>3, Zenon DEF InRow
<1>8. RowsListed
  BY <1>2, <1>3, <1>5, <1>7 DEF RowsListed
<1> QED
  BY <1>4, <1>8 DEF SlInv

\* Only the two separators that close a row are seen as its end, and the entry
\* is then the number, a dot and the name.
LEMMA RowEnd ==
  ASSUME SlTyped, AllNamed, NEW t \in Nat, t < Len(slRows), InRow(t)
  PROVE  LET end == slJ + Len(slRows[t + 1].sid) + Len(slRows[t + 1].name) + 1
         IN  /\ slI <= Len(slBuf) /\ end \in Nat
             /\ RowEnds <=> slI = end
             /\ slI = end => [k \in 1 .. slI - slJ |-> Dotted(slBuf[slJ + k - 1])]
                               = Entry(slRows[t + 1])
             /\ Begin(t + 1) = end + 2
<1> DEFINE r == slRows[t + 1]
           a == Len(r.sid)
           c == Len(r.name)
           f == Fields(r)
           o == Len(Packed(slRows)[t])
           m == Len(slBuf)
           i == slI - o
<1>1. /\ t + 1 \in 1 .. Len(slRows) /\ t + 1 \in DOMAIN slRows /\ r \in SlRow
      /\ slRows \in Seq(SlRow) /\ r.name # <<>>
  BY DEF SlTyped, AllNamed
<1>2. /\ f \in Seq(Codes) /\ Len(f) = a + c + 3 /\ a \in Nat /\ c \in Nat
      /\ \A j \in 1 .. a : f[j] = r.sid[j]
      /\ f[a + 1] = Sep
      /\ \A j \in 1 .. c : f[a + 1 + j] = r.name[j]
      /\ f[a + c + 2] = Sep /\ f[a + c + 3] = Sep
  BY <1>1, FieldsChars
<1>3. /\ \A j \in 1 .. a : r.sid[j] # Sep
      /\ \A j \in 1 .. c : r.name[j] # Sep
      /\ r.name \in Seq(SlChars)
  BY <1>1, Students
<1>4. c > 0
  BY <1>1, <1>2, <1>3, EmptySeq
<1>5. /\ o \in Nat /\ Len(Packed(slRows)[t + 1]) = o + Len(f) /\ o + Len(f) <= Len(Selected(slRows))
      /\ \A j \in 1 .. Len(f) : Selected(slRows)[o + j] = f[j]
  BY <1>1, RowPlace
<1>6. /\ slI \in Nat /\ slJ = o + 1 /\ slJ <= slI /\ slI <= slJ + a + c + 1
      /\ m = Len(Selected(slRows)) /\ m \in Nat
  <2>1. slI \in Nat /\ m = Len(Selected(slRows)) /\ m \in Nat
    BY DEF SlTyped
  <2>2. slJ = o + 1 /\ slJ <= slI /\ slI <= slJ + a + c + 1
    BY Zenon DEF InRow, Begin
  <2> QED
    BY <2>1, <2>2
<1>7. \A p \in slJ .. m : slBuf[p] = Selected(slRows)[p]
  BY DEF InRow
<1> HIDE DEF r, a, c, f, o, m
<1>n. /\ a \in Nat /\ c \in Nat /\ o \in Nat /\ m \in Nat /\ slI \in Nat
      /\ slJ = o + 1 /\ slJ <= slI /\ slI <= slJ + a + c + 1 /\ o + (a + c + 3) <= m
  BY <1>2, <1>5, <1>6, Zenon
<1>8. /\ slI = o + i /\ i \in 1 .. a + c + 2 /\ m >= o + a + c + 3 /\ slI < m
      /\ i + 1 \in 1 .. a + c + 3 /\ slI + 1 = o + (i + 1)
  BY <1>n
<1>9. ASSUME NEW j \in 1 .. a + c + 3 PROVE slBuf[o + j] = f[j]
  <2>1. o + j \in slJ .. m /\ j \in 1 .. Len(f)
    BY <1>2, <1>5, <1>6, <1>8
  <2> QED
    BY <1>5, <1>7, <2>1, Zenon
<1> HIDE DEF i
<1>10. slBuf[slI] = f[i] /\ slBuf[slI + 1] = f[i + 1]
  <2>1. i \in 1 .. a + c + 3
    BY <1>2, <1>8
  <2> QED
    BY <1>8, <1>9, <2>1
<1>11. f[i] = Sep /\ f[i + 1] = Sep <=> i = a + c + 2
  <2>1. CASE i <= a
    <3>1. i \in 1 .. a /\ i # a + c + 2
      BY <1>2, <1>8, <2>1
    <3> QED
      BY <1>2, <1>3, <3>1
  <2>2. CASE i = a + 1
    <3>1. i + 1 = a + 1 + 1 /\ 1 \in 1 .. c /\ i # a + c + 2
      BY <1>2, <1>4, <2>2
    <3>2. f[i + 1] = r.name[1] /\ r.name[1] # Sep
      BY <1>2, <1>3, <3>1
    <3> QED
      BY <3>1, <3>2
  <2>3. CASE a + 1 < i /\ i <= a + 1 + c
    <3> DEFINE j == i - a - 1
    <3>1. j \in 1 .. c /\ i = a + 1 + j /\ i # a + c + 2
      BY <1>2, <1>8, <2>3
    <3> HIDE DEF j
    <3>2. f[a + 1 + j] = r.name[j] /\ r.name[j] # Sep
      BY <1>2, <1>3, <3>1
    <3> QED
      BY <3>1, <3>2
  <2>4. CASE i = a + c + 2
    <3>1. i + 1 = a + c + 3
      BY <1>2, <2>4
    <3> QED
      BY <1>2, <2>4, <3>1
  <2>5. i <= a \/ i = a + 1 \/ (a + 1 < i /\ i <= a + 1 + c) \/ i = a + c + 2
    BY <1>2, <1>8
  <2> QED
    BY <2>1, <2>2, <2>3, <2>4, <2>5
<1>12. RowEnds <=> slI = slJ + a + c + 1
  <2>1. i = a + c + 2 <=> slI = slJ + a + c + 1
    BY <1>2, <1>5, <1>6, <1>8
  <2>2. RowEnds <=> f[i] = Sep /\ f[i + 1] = Sep
    BY <1>8, <1>10 DEF RowEnds, m
  <2> QED
    BY <1>11, <2>1, <2>2
<1>13. ASSUME slI = slJ + a + c + 1
       PROVE  [k \in 1 .. slI - slJ |-> Dotted(slBuf[slJ + k - 1])] = Entry(r)
  <2> DEFINE e == Entry(r)
             l == a + 1 + c
             g == [k \in 1 .. slI - slJ |-> Dotted(slBuf[slJ + k - 1])]
  <2>1. /\ e \in Seq(Codes) /\ Len(e) = l
        /\ \A j \in 1 .. a : e[j] = r.sid[j]
        /\ e[a + 1] = Dot
        /\ \A j \in 1 .. c : e[a + 1 + j] = r.name[j]
    BY <1>1, EntryChars DEF a, c, r
  <2>2. slI - slJ = l /\ l \in Nat
    BY <1>2, <1>5, <1>6, <1>13
  <2> HIDE DEF e
  <2>3. ASSUME NEW k \in 1 .. l PROVE Dotted(slBuf[slJ + k - 1]) = e[k]
    <3>1. slJ + k - 1 = o + k /\ k \in 1 .. a + c + 3
      BY <1>2, <1>5, <1>6
    <3>2. slBuf[slJ + k - 1] = f[k]
      BY <1>9, <3>1
    <3>3. CASE k <= a
      <4>1. k \in 1 .. a
        BY <1>2, <3>3
      <4> QED
        BY <1>2, <1>3, <2>1, <3>2, <4>1 DEF Dotted
    <3>4. CASE k = a + 1
      BY <1>2, <2>1, <3>2, <3>4 DEF Dotted
    <3>5. CASE k > a + 1
      <4> DEFINE j == k - a - 1
      <4>1. j \in 1 .. c /\ k = a + 1 + j
        BY <1>2, <3>5
      <4> HIDE DEF j
      <4>2. f[a + 1 + j] = r.name[j] /\ r.name[j] # Sep /\ e[a + 1 + j] = r.name[j]
        BY <1>2, <1>3, <2>1, <4>1
      <4> QED
        BY <3>2, <4>1, <4>2 DEF Dotted
    <3> QED
      BY <1>2, <3>3, <3>4, <3>5
  <2>4. g = [k \in 1 .. l |-> e[k]]
    BY <2>2, <2>3
  <2>5. e = [k \in 1 .. Len(e) |-> e[k]]
    BY <2>1
  <2> QED
    BY <2>1, <2>4, <2>5 DEF e
<1>14. Begin(t + 1) = slJ + a + c + 1 + 2
  <2>1. Begin(t + 1) = Len(Packed(slRows)[t + 1]) + 1
    BY DEF Begin
  <2>2. Begin(t + 1) = o + (a + c + 3) + 1
    BY <1>2, <1>5, <2>1, Zenon
  <2> QED
    BY <1>n, <2>2
<1>15. slI <= m /\ slJ + a + c + 1 \in Nat
  BY <1>n, <1>8
<1> QED
  BY <1>12, <1>13, <1>14, <1>15 DEF r, a, c, m

\* A round of the loop that takes GetAllUser_from_MySQL through the text.
LEMMA ScanKept ==
  ASSUME SlTyped, AllNamed, RowsListed, ScanEnd \/ ScanOn,
         NEW t \in Nat, t = Len(slItems), NEW n \in Nat, n = Len(slRows)
  PROVE  RowsListed'
<1>1. /\ slState = "scan" /\ UNCHANGED <<slRows, slFound, slSel, slUser>>
  BY DEF ScanEnd, ScanOn
<1>2. /\ slItems \in Seq(Seq(Codes)) /\ t \in Nat /\ t <= n /\ n \in Nat /\ InRow(t)
      /\ \A k \in 1 .. t : slItems[k] = Entry(slRows[k])
  BY <1>1 DEF SlTyped, RowsListed
<1>3. /\ slBuf \in Seq(Codes) /\ Len(slBuf) \in Nat /\ slI \in Nat \ {0} /\ slJ \in Nat \ {0}
      /\ slRows \in Seq(SlRow)
  BY DEF SlTyped
<1>4. CASE t = n
  <2>1. slI = Len(slBuf) + 1
    <3>1. slI = Begin(n)
      BY <1>4, <1>2, Zenon DEF InRow
    <3>2. Begin(n) = Len(Selected(slRows)) + 1
      BY DEF Begin, Selected
    <3> QED
      BY <3>1, <3>2 DEF SlTyped
  <2>2. ~(slI <= Len(slBuf))
    BY <1>3, <2>1
  <2>3. slState' = "find" /\ UNCHANGED slItems
    BY <2>2 DEF ScanEnd, ScanOn
  <2>4. Len(slItems') = Len(slRows')
    BY <1>1, <1>4, <2>3
  <2> QED
    BY <1>1, <1>2, <2>3, <2>4 DEF RowsListed
<1>5. CASE t # n
  <2> DEFINE r == slRows[t + 1]
             end == slJ + Len(r.sid) + Len(r.name) + 1
  <2>1. t < n /\ t + 1 \in 1 .. n
    BY <1>2, <1>5
  <2>2. /\ slI <= Len(slBuf) /\ end \in Nat
        /\ RowEnds <=> slI = end
        /\ slI = end => [k \in 1 .. slI - slJ |-> Dotted(slBuf[slJ + k - 1])] = Entry(r)
        /\ Begin(t + 1) = end + 2
    BY <1>2, <2>1, RowEnd
  <2>3. r \in SlRow
    BY <1>3, <2>1
  <2>4. /\ slJ = Begin(t) /\ slJ <= slI /\ slI <= end
        /\ \A p \in slJ .. Len(slBuf) : slBuf[p] = Selected(slRows)[p]
    BY <1>2, <2>1, Zenon DEF InRow
  <2>5. CASE ScanEnd
    <3>1. /\ RowEnds
          /\ slItems' = Append(slItems, [k \in 1 .. slI - slJ |-> Dotted(slBuf[slJ + k - 1])])
          /\ slBuf' = [slBuf EXCEPT ![slI] = Nul]
          /\ slJ' = slI + 2 /\ slI' = slI + 2 /\ slState' = "scan"
      BY <1>1, <2>5, Zenon DEF ScanEnd
    <3>2. slI = end /\ slItems' = Append(slItems, Entry(r))
      BY <2>2, <3>1, Zenon
    <3>3. Entry(r) \in Seq(Codes)
      BY <2>3, EntryChars
    <3>4. /\ slItems' \in Seq(Seq(Codes)) /\ Len(slItems') = t + 1
          /\ \A k \in 1 .. t : slItems'[k] = slItems[k]
          /\ slItems'[t + 1] = Entry(r)
      BY <1>2, <3>2, <3>3, AppendProperties
    <3>5. ASSUME NEW k \in 1 .. t + 1 PROVE slItems'[k] = Entry(slRows'[k])
      <4>1. CASE k \in 1 .. t
        BY <1>1, <1>2, <3>4, <4>1
      <4>2. CASE k = t + 1
        BY <1>1, <3>4, <4>2
      <4> QED
        BY <1>2, <4>1, <4>2
    <3>6. Len(slBuf') = Len(slBuf) /\ \A p \in slJ' .. Len(slBuf) : slBuf'[p] = slBuf[p]
      BY <1>3, <3>1
    <3>7. Begin(t + 1)' = Begin(t + 1)
      BY <1>1 DEF Begin
    <3>8. InRow(t + 1)'
      <4>1. slJ' = Begin(t + 1) /\ slI' = slJ'
        BY <2>2, <3>1, <3>2
      <4>2. ASSUME t + 1 < n
            PROVE  slI' <= slJ' + Len(slRows[t + 1 + 1].sid) + Len(slRows[t + 1 + 1].name) + 1
        <5> DEFINE q == slRows[t + 1 + 1]
                   a == Len(q.sid)
                   c == Len(q.name)
        <5>1. q \in SlRow
          BY <1>2, <1>3, <4>2
        <5>2. a \in Nat /\ c \in Nat
          BY <5>1, EntryChars
        <5> HIDE DEF a, c
        <5>3. slI' <= slJ' + a + c + 1
          BY <1>3, <3>1, <5>2
        <5> QED
          BY <5>3 DEF a, c
      <4>3. ASSUME NEW p \in slJ' .. Len(slBuf') PROVE slBuf'[p] = Selected(slRows)[p]
        <5>1. p \in slJ .. Len(slBuf) /\ p \in slJ' .. Len(slBuf)
          BY <1>3, <2>4, <3>1, <3>6
        <5> QED
          BY <2>4, <3>6, <5>1
      <4>4. slJ' = Begin(t + 1)' /\ slRows' = slRows /\ slJ' <= slI'
        BY <1>1, <1>3, <3>1, <3>7, <4>1
      <4>5. Selected(slRows') = Selected(slRows)
        BY <4>4, Zenon
      <4> QED
        BY <1>2, <4>1, <4>2, <4>3, <4>4, <4>5, Zenon DEF InRow
    <3>9. t + 1 <= Len(slRows')
      BY <1>1, <2>1, <1>2
    <3>10. slState' = "scan"
      BY <3>1
    <3> QED
      BY <3>4, <3>5, <3>8, <3>9, <3>10 DEF RowsListed
  <2>6. CASE ScanOn
    <3>1. /\ ~RowEnds /\ slI' = slI + 1 /\ slState' = "scan" /\ UNCHANGED <<slJ, slBuf, slItems>>
      BY <1>1, <1>3, <2>2, <2>6 DEF ScanOn
    <3>2. slI # end
      BY <2>2, <3>1
    <3>3. slI' <= end /\ slJ <= slI'
      BY <1>3, <2>2, <2>4, <3>1, <3>2
    <3>4. InRow(t)'
      <4>1. Begin(t)' = Begin(t)
        BY <1>1 DEF Begin
      <4>2. slRows' = slRows /\ slJ' = slJ /\ slBuf' = slBuf
        BY <1>1, <3>1
      <4> QED
        BY <2>1, <1>5, <2>4, <3>3, <4>1, <4>2, Zenon DEF InRow
    <3> QED
      BY <1>1, <1>2, <3>1, <3>4 DEF RowsListed
  <2> QED
    BY <2>5, <2>6
<1> QED
  BY <1>4, <1>5

\* The first of several places.
LEMMA ForemostIs ==
  ASSUME NEW H, NEW x \in H, H \subseteq Nat, \A h \in H : x <= h
  PROVE  Foremost(H) = x
<1> DEFINE y == Foremost(H)
<1>1. y \in H /\ \A h \in H : y <= h
  BY DEF Foremost
<1> HIDE DEF y
<1>2. y <= x /\ x <= y /\ y \in Nat /\ x \in Nat
  BY <1>1
<1>3. y = x
  BY <1>2
<1> QED
  BY <1>3 DEF y

\* An entry that begins with another has its number: a number has no dot.
LEMMA OneNumber ==
  ASSUME NEW r \in SlRow, NEW q \in SlRow, IsPrefix(Entry(r), Entry(q))
  PROVE  q.sid = r.sid
<1> DEFINE a == Len(r.sid)
           b == Len(q.sid)
           e == Entry(r)
           d == Entry(q)
<1>1. /\ e \in Seq(Codes) /\ Len(e) = a + 1 + Len(r.name) /\ a \in Nat /\ Len(r.name) \in Nat
      /\ \A i \in 1 .. a : e[i] = r.sid[i]
      /\ e[a + 1] = Dot
  BY EntryChars
<1>2. /\ d \in Seq(Codes) /\ Len(d) = b + 1 + Len(q.name) /\ b \in Nat /\ Len(q.name) \in Nat
      /\ \A i \in 1 .. b : d[i] = q.sid[i]
      /\ d[b + 1] = Dot
  BY EntryChars
<1>3. /\ \A i \in 1 .. a : r.sid[i] # Dot
      /\ \A i \in 1 .. b : q.sid[i] # Dot
      /\ r.sid \in Seq(SlChars) /\ q.sid \in Seq(SlChars)
  BY Students
<1>e. e \in Seq(Codes) /\ d \in Seq(Codes) /\ IsPrefix(e, d)
  BY <1>1, <1>2
<1> HIDE DEF e, d
<1>4. \A k \in 1 .. Len(e) : e[k] = d[k]
  BY <1>e, PrefixMeans
<1> HIDE DEF a, b
<1>l. /\ Len(e) \in Nat /\ a \in Nat /\ b \in Nat /\ a + 1 <= Len(e) /\ Len(e) <= Len(d)
      /\ b + 1 <= Len(d)
  <2> DEFINE x == Len(r.name)
             y == Len(q.name)
  <2>1. x \in Nat /\ y \in Nat /\ Len(e) = a + 1 + x /\ Len(d) = b + 1 + y
    BY <1>1, <1>2
  <2>2. Len(e) <= Len(d) /\ a \in Nat /\ b \in Nat
    BY <1>1, <1>2, <1>e, PrefixMeans
  <2> HIDE DEF x, y
  <2> QED
    BY <2>1, <2>2
<1>5. ~(a < b)
  <2> SUFFICES ASSUME a < b PROVE FALSE
    OBVIOUS
  <2>1. a + 1 \in 1 .. Len(e) /\ a + 1 \in 1 .. b
    BY <1>l
  <2> QED
    BY <1>1, <1>2, <1>3, <1>4, <2>1, Zenon
<1>6. ~(b < a)
  <2> SUFFICES ASSUME b < a PROVE FALSE
    OBVIOUS
  <2>1. b + 1 \in 1 .. Len(e) /\ b + 1 \in 1 .. a
    BY <1>l
  <2> QED
    BY <1>1, <1>2, <1>3, <1>4, <2>1, Zenon
<1>7. a = b
  BY <1>1, <1>2, <1>5, <1>6
<1>8. \A i \in 1 .. a : i \in 1 .. Len(e)
  BY <1>1
<1>9. \A i \in 1 .. a : q.sid[i] = r.sid[i]
  BY <1>1, <1>2, <1>4, <1>7, <1>8, Zenon
<1> QED
  BY <1>3, <1>7, <1>9, SeqEqual DEF a, b

\* Behind the first dot of an entry stands the name.
LEMMA NameCut == \A r \in SlRow : Cut(Entry(r)) = r.name
<1> SUFFICES ASSUME NEW r \in SlRow PROVE Cut(Entry(r)) = r.name
  OBVIOUS
<1> DEFINE a == Len(r.sid)
           c == Len(r.name)
           e == Entry(r)
           dots == {k \in DOMAIN e : e[k] = Dot}
           p == SubSeq(e, a + 2, a + 1 + c)
<1>1. /\ e \in Seq(Codes) /\ Len(e) = a + 1 + c /\ a \in Nat /\ c \in Nat
      /\ \A i \in 1 .. a : e[i] = r.sid[i]
      /\ e[a + 1] = Dot
      /\ \A i \in 1 .. c : e[a + 1 + i] = r.name[i]
  BY EntryChars
<1>2. /\ \A i \in 1 .. a : r.sid[i] # Dot
      /\ r.name \in Seq(Codes)
  BY Students
<1> HIDE DEF e, a, c
<1>3. DOMAIN e = 1 .. a + 1 + c
  BY <1>1
<1>4. a + 1 \in dots /\ dots \subseteq Nat
  BY <1>1, <1>3
<1>5. ASSUME NEW h \in dots PROVE a + 1 <= h
  <2>1. h \in 1 .. a + 1 + c /\ e[h] = Dot
    BY <1>3, <1>5
  <2>2. ~(h \in 1 .. a)
    BY <1>1, <1>2, <2>1
  <2> QED
    BY <1>1, <2>1, <2>2
<1> HIDE DEF dots
<1>6. Foremost(dots) = a + 1 /\ dots # {}
  BY <1>4, <1>5, ForemostIs
<1>7. Cut(e) = p
  <2>1. Cut(e) = SubSeq(e, a + 1 + 1, Len(e))
    BY <1>6 DEF Cut, dots
  <2>2. a + 1 + 1 = a + 2
    BY <1>1
  <2> QED
    BY <1>1, <2>1, <2>2
<1>8. /\ p \in Seq(Codes) /\ Len(p) = c
      /\ \A i \in 1 .. c : p[i] = r.name[i]
  <2>1. a + 2 \in Int /\ a + 1 + c \in Int /\ (a + 1 + c) - (a + 2) + 1 = c
    BY <1>1
  <2>2. \A i \in a + 2 .. a + 1 + c : e[i] \in Codes
    BY <1>1
  <2> DEFINE m == a + 2
             n == a + 1 + c
  <2>3. m \in Int /\ n \in Int /\ \A i \in m .. n : e[i] \in Codes
    BY <2>1, <2>2
  <2> HIDE DEF m, n
  <2>4. /\ SubSeq(e, m, n) \in Seq(Codes)
        /\ Len(SubSeq(e, m, n)) = (IF m <= n THEN n - m + 1 ELSE 0)
        /\ \A i \in 1 .. n - m + 1 : SubSeq(e, m, n)[i] = e[m + i - 1]
    BY <2>3, SubSeqProperties
  <2>5. p = SubSeq(e, m, n) /\ n - m + 1 = c /\ (m <= n <=> 1 <= c) /\ m = a + 2
    BY <1>1, <2>1 DEF m, n
  <2> HIDE DEF p
  <2>6. p \in Seq(Codes) /\ Len(p) = c /\ \A i \in 1 .. c : p[i] = e[m + i - 1]
    BY <1>1, <2>4, <2>5
  <2>7. \A i \in 1 .. c : m + i - 1 = a + 1 + i
    BY <1>1, <2>5
  <2> QED
    BY <1>1, <2>6, <2>7
<1> HIDE DEF p
<1>9. p = r.name
  BY <1>2, <1>8, SeqEqual DEF c
<1> QED
  BY <1>7, <1>9 DEF e

\* Only the entry of the student who was found begins with his entry.
LEMMA FoundOnly ==
  ASSUME SlTyped, slFound # 0, slItems \in Seq(Seq(Codes)), Len(slItems) = Len(slRows),
         \A k \in 1 .. Len(slItems) : slItems[k] = Entry(slRows[k])
  PROVE  FindString(Wanted) = slFound
<1> DEFINE n == Len(slRows)
           x == slFound
           hits == {k \in DOMAIN slItems : IsPrefix(Wanted, slItems[k])}
           behind == {k \in hits : k > 2}
<1>1. /\ x \in 1 .. n /\ n \in Nat /\ DOMAIN slItems = 1 .. n
      /\ \A k \in 1 .. n : slRows[k] \in SlRow /\ slItems[k] = Entry(slRows[k])
      /\ \A k, l \in 1 .. n : slRows[k].sid = slRows[l].sid => k = l
  BY DEF SlTyped
<1>2. Wanted = Entry(slRows[x])
  BY DEF Wanted
<1> HIDE DEF x, n
<1>3. x \in hits
  <2>1. IsPrefix(Wanted, slItems[x])
    BY <1>1, <1>2 DEF IsPrefix
  <2> QED
    BY <1>1, <2>1
<1>4. \A k \in hits : k = x
  <2> TAKE k \in hits
  <2>1. k \in 1 .. n /\ IsPrefix(Entry(slRows[x]), Entry(slRows[k]))
    BY <1>1, <1>2
  <2>2. slRows[k].sid = slRows[x].sid
    BY <1>1, <2>1, OneNumber
  <2> QED
    BY <1>1, <2>1, <2>2
<1>5. FindString(Wanted) = IF hits = {} THEN 0
                           ELSE Foremost(IF behind # {} THEN behind ELSE hits)
  BY DEF FindString
<1> HIDE DEF hits
<1>6. hits = {x} /\ (behind # {} => behind = {x})
  BY <1>3, <1>4
<1> HIDE DEF behind
<1>7. Foremost({x}) = x
  <2> DEFINE H == {x}
  <2>1. x \in H /\ H \subseteq Nat /\ \A h \in H : x <= h
    BY <1>1
  <2> HIDE DEF H
  <2>2. Foremost(H) = x
    BY <2>1, ForemostIs
  <2> QED
    BY <2>2 DEF H
<1>8. FindString(Wanted) = x
  BY <1>5, <1>6, <1>7
<1> QED
  BY <1>8 DEF x

\* No step leaves the types of the list's variables or makes the text longer.
LEMMA SlTypedKept == SlTyped /\ [SlNext]_slVars => SlTyped'
<1> SUFFICES ASSUME SlTyped, [SlNext]_slVars PROVE SlTyped'
  OBVIOUS
<1>1. CASE ScanEnd
  <2>1. /\ slBuf' = [slBuf EXCEPT ![slI] = Nul] /\ slI' = slI + 2 /\ slJ' = slI + 2
        /\ slState' = "scan" /\ UNCHANGED <<slRows, slFound>>
    BY <1>1 DEF ScanEnd
  <2>2. slBuf \in Seq(Codes) /\ slI \in Nat \ {0} /\ Nul \in Codes
    BY DEF SlTyped, Codes
  <2>3. slBuf' \in Seq(Codes) /\ Len(slBuf') = Len(slBuf)
    <3> DEFINE z == Nul
    <3>1. slBuf \in Seq(Codes) /\ z \in Codes /\ slBuf' = [slBuf EXCEPT ![slI] = z]
      BY <2>1, <2>2
    <3> HIDE DEF z
    <3> DEFINE m == Len(slBuf)
    <3>2. m \in Nat /\ slBuf \in [1 .. m -> Codes]
      BY <3>1
    <3> HIDE DEF m
    <3>3. slBuf' \in [1 .. m -> Codes]
      BY <3>1, <3>2
    <3>4. slBuf' \in Seq(Codes)
      BY <3>2, <3>3, SeqDef
    <3>5. DOMAIN slBuf' = 1 .. m
      BY <3>3
    <3> QED
      BY <3>2, <3>4, <3>5 DEF m
  <2>4. slI' \in Nat \ {0} /\ slJ' \in Nat \ {0}
    BY <2>1, <2>2
  <2> QED
    BY <2>1, <2>3, <2>4 DEF SlTyped
<1>2. CASE ScanOn
  BY <1>2 DEF ScanOn, SlTyped
<1>3. CASE Find
  BY <1>3 DEF Find, SlTyped
<1>4. CASE ReadUser
  BY <1>4 DEF ReadUser, SlTyped
<1>5. CASE UNCHANGED slVars
  BY <1>5 DEF slVars, SlTyped
<1> QED
  BY <1>1, <1>2, <1>3, <1>4, <1>5 DEF SlNext

\* Every step keeps the list in step with the rows.
LEMMA RowsListedKept ==
  ASSUME SlTyped, AllNamed, RowsListed, [SlNext]_slVars
  PROVE  RowsListed'
<1> DEFINE n == Len(slRows)
<1>0. Len(slItems) \in Nat /\ Len(slRows) \in Nat
  BY DEF RowsListed, SlTyped
<1>1. CASE ScanEnd \/ ScanOn
  <2>1. PICK t \in Nat, m \in Nat : t = Len(slItems) /\ m = Len(slRows)
    BY <1>0
  <2> QED
    BY <1>1, <2>1, ScanKept
<1>2. CASE Find
  <2>1. /\ slState = "find" /\ slState' = "selected"
        /\ slSel' = (IF slFound = 0 THEN 0 ELSE FindString(Wanted))
        /\ UNCHANGED <<slRows, slFound, slItems>>
    BY <1>2 DEF Find
  <2>2. /\ slItems \in Seq(Seq(Codes)) /\ Len(slItems) = Len(slRows)
        /\ \A k \in 1 .. Len(slItems) : slItems[k] = Entry(slRows[k])
    BY <2>1 DEF RowsListed
  <2>3. slSel' = slFound
    BY <2>1, <2>2, FoundOnly
  <2> QED
    BY <1>0, <2>1, <2>2, <2>3 DEF RowsListed
<1>3. CASE ReadUser
  <2>1. /\ slState = "selected" /\ slSel # 0 /\ slState' = "read"
        /\ slUser' = Cut(slItems[slSel])
        /\ UNCHANGED <<slRows, slFound, slItems, slSel>>
    BY <1>3 DEF ReadUser
  <2>2. /\ slItems \in Seq(Seq(Codes)) /\ Len(slItems) = Len(slRows)
        /\ \A k \in 1 .. Len(slItems) : slItems[k] = Entry(slRows[k])
        /\ slSel = slFound
    BY <2>1 DEF RowsListed
  <2>3. slFound \in 1 .. Len(slItems) /\ slRows[slFound] \in SlRow
    BY <1>0, <2>1, <2>2 DEF SlTyped
  <2>4. slUser' = slRows[slFound].name
    BY <2>1, <2>2, <2>3, NameCut, Zenon
  <2> QED
    BY <1>0, <2>1, <2>2, <2>3, <2>4 DEF RowsListed
<1>4. CASE UNCHANGED slVars
  BY <1>4 DEF slVars, RowsListed, InRow, Begin
<1> QED
  BY <1>1, <1>2, <1>3, <1>4 DEF SlNext

\* In every reachable state the loop stands within the row that follows the
\* entries already made.
LEMMA SlAlways == SlSpec => []SlInv
<1>1. SlInv /\ [SlNext]_slVars => SlInv'
  <2> SUFFICES ASSUME SlInv, [SlNext]_slVars PROVE SlInv'
    OBVIOUS
  <2>1. SlTyped'
    BY SlTypedKept DEF SlInv
  <2>2. AllNamed' <=> AllNamed
    <3>1. slRows' = slRows
      BY DEF SlNext, ScanEnd, ScanOn, Find, ReadUser, slVars
    <3> QED
      BY <3>1 DEF AllNamed
  <2>3. AllNamed => RowsListed'
    BY RowsListedKept DEF SlInv
  <2> QED
    BY <2>1, <2>2, <2>3 DEF SlInv
<1> QED
  BY <1>1, SlInitInv, PTL DEF SlSpec

(***************************************************************************)
(* If every student has a name, the list shows each of them once, in the   *)
(* order of the table, whatever the numbers and names are made of and      *)
(* however many there are (GetAllUser_from_MySQL).                         *)
(***************************************************************************)
THEOREM ListShown == SlSpec => []ListExact
<1>1. SlInv => ListExact
  <2> SUFFICES ASSUME SlInv, AllNamed
               PROVE  /\ Len(slItems) <= Len(slRows)
                      /\ \A k \in DOMAIN slItems : slItems[k] = Entry(slRows[k])
                      /\ slState # "scan" => Len(slItems) = Len(slRows)
    BY DEF ListExact
  <2>1. RowsListed
    BY DEF SlInv
  <2> QED
    BY <2>1 DEF RowsListed
<1> QED
  BY <1>1, SlAlways, PTL

(***************************************************************************)
(* The student that was found is the one selected, and the worker gets     *)
(* back his name: the numbers are different and have no dots, so no other  *)
(* entry begins with the one looked for (TimerProc1, Install_process).     *)
(***************************************************************************)
THEOREM SelectionKept == SlSpec => []SelectionRight
<1>1. SlInv => SelectionRight
  BY DEF SlInv, RowsListed, SelectionRight
<1> QED
  BY <1>1, SlAlways, PTL

(************** The nodes of a text: TokenPos::ParseNode ********************)

\* What ParseNode keeps while it is within a node, and a node found.
Types == {"bad", "white", "text", "element", "end", "pi", "comment", "cdata", "doctype"}
Marks == {"<", ">", "?", "-", "]"}
Flags == {"open", "bang", "dash", "bracket", "doctype", "textorws",
          "inS", "inD", "equals", "noquote"}
Last2 == Character \cup {"0"}
Progress == [start : Nat \ {0}, type : Types, end : Seq(Marks), flags : SUBSET Flags,
             name : Nat, minus1 : Last2, minus2 : Last2, empty : BOOLEAN]
Found == [type : Types, from : Nat \ {0}, to : Nat, empty : BOOLEAN]

TTyped ==
  /\ tText \in Seq(Character) /\ tD \in Nat \ {0} /\ tD <= Len(tText) + 1
  /\ tN \in Progress /\ tN.start <= tD /\ tNodes \in Seq(Found)

\* The node at hand begins where the last one ends; before its first character
\* nothing is known of it; at the end there is none.
AtHand ==
  /\ tN.start = IF Len(tNodes) = 0 THEN 1 ELSE tNodes[Len(tNodes)].to + 1
  /\ tN.start = tD => tN.flags = {} /\ Len(tN.end) = 0
  /\ tPhase # "nodes" => tN.start = tD /\ tD = Len(tText) + 1

Chain ==
  \A k \in 1 .. Len(tNodes) :
    /\ tNodes[k].to >= tNodes[k].from
    /\ tNodes[k].from = IF k = 1 THEN 1 ELSE tNodes[k - 1].to + 1

TokenInv == TTyped /\ AtHand /\ Chain

(* A step of ParseNode takes a character into the node, ends the node in front
   of or behind it, or takes it for the end of a name. *)

Takes == tD <= Len(tText) /\ \E n \in Progress : n.start = tN.start /\ Go(n)
Cuts  == \E n \in Progress, p \in Nat :
           n.start = tN.start /\ tN.start < p /\ p <= Len(tText) + 1 /\ Finish(n, p)
Named == \E n \in Progress :
           /\ n.start = tN.start /\ n.flags = tN.flags /\ n.end = tN.end /\ tN' = n
           /\ UNCHANGED <<tPieces, tText, tD, tNodes, tA, tPhase>>
Leaves == /\ tPhase = "nodes" => tD > Len(tText) /\ tN.start = tD
          /\ UNCHANGED <<tText, tD, tN, tNodes>>
          /\ tPhase' # "nodes"

\* The end of the text ends the node at hand, or there is none.
LEMMA EndOfTextStep == ASSUME TTyped, EndOfText PROVE Cuts \/ Leaves
<1> DEFINE n == [tN EXCEPT !.type = IF @ \in {"white", "text"} THEN @ ELSE "bad"]
<1>1. tN \in Progress /\ tD \in Nat /\ tN.start <= tD /\ tD <= Len(tText) + 1 /\ Len(tText) \in Nat
  BY DEF TTyped
<1>2. n \in Progress /\ n.start = tN.start
  BY <1>1 DEF Progress, Types
<1> HIDE DEF n
<1>3. CASE tN.start = tD
  BY <1>3 DEF EndOfText, Leaves
<1>4. CASE tN.start # tD
  <2>1. Finish(n, tD)
    BY <1>4 DEF EndOfText, n
  <2>2. tN.start < tD
    BY <1>1, <1>4 DEF Progress
  <2> QED
    BY <1>1, <1>2, <2>1, <2>2 DEF Cuts
<1> QED
  BY <1>3, <1>4

\* A character that may not stand in a name ends it; it is looked at again.
LEMMA InNameStep == ASSUME TTyped, InName PROVE Takes \/ Named
<1> DEFINE n == [tN EXCEPT !.name = 0, !.minus1 = "0", !.minus2 = "0"]
<1>1. tN \in Progress
  BY DEF TTyped
<1>2. n \in Progress /\ n.start = tN.start /\ n.flags = tN.flags /\ n.end = tN.end
  BY <1>1 DEF Progress, Last2
<1>3. CASE Char \in EndName
  BY <1>2, <1>3 DEF InName, Named
<1>4. CASE Char \notin EndName
  BY <1>1, <1>4 DEF InName, Takes, Reading
<1> QED
  BY <1>3, <1>4

\* The end of a tag that is not in quotes ends its node.
LEMMA TagEndStep == ASSUME TTyped, TagEnd PROVE Takes \/ Cuts
<1> PICK n \in Progress :
      /\ n.start = tN.start
      /\ Finish(n, tD + 1) \/ Go(n)
  <2> DEFINE empty == tN.type = "element" /\ tN.minus1 = "/" /\ ~SlashOfValue
             m == [tN EXCEPT !.flags = @ \ {"noquote"},
                             !.end = IF Ends THEN <<>> ELSE @,
                             !.empty = @ \/ (Len(tN.end) = 1 /\ empty)]
  <2>1. tN \in Progress
    BY DEF TTyped
  <2>2. m \in Progress /\ m.start = tN.start
    <3> DEFINE e == IF Ends THEN <<>> ELSE tN.end
               b == tN.empty \/ (Len(tN.end) = 1 /\ empty)
    <3>1. e \in Seq(Marks) /\ b \in BOOLEAN
      BY <2>1, EmptySeq DEF Progress
    <3>2. m = [tN EXCEPT !.flags = @ \ {"noquote"}, !.end = e, !.empty = b]
      OBVIOUS
    <3> HIDE DEF e, b, m
    <3> QED
      BY <2>1, <3>1, <3>2 DEF Progress
  <2>3. Finish(m, tD + 1) \/ Go(m)
    BY Zenon DEF TagEnd
  <2> HIDE DEF m
  <2> QED
    BY <2>2, <2>3
<1>1. tD <= Len(tText) /\ tD \in Nat /\ tN.start <= tD /\ Len(tText) \in Nat /\ tN.start \in Nat
  BY DEF TTyped, TagEnd, Ending, Reading, Progress
<1>2. tN.start < tD + 1 /\ tD + 1 \in Nat /\ tD + 1 <= Len(tText) + 1
  BY <1>1
<1> QED
  BY <1>1, <1>2 DEF Takes, Cuts

\* The '<' behind a text or white space is the next node's.
LEMMA TextEndStep == ASSUME TTyped, AtHand, TextEnd PROVE Cuts
<1>1. tD <= Len(tText) /\ tD \in Nat /\ tN.start <= tD /\ Len(tText) \in Nat /\ tN.start \in Nat
      /\ tN \in Progress /\ tN.end # <<>>
  BY DEF TTyped, TextEnd, Ending, Reading, Progress
<1>2. tN.start # tD
  <2>1. tN.end \in Seq(Marks)
    BY <1>1 DEF Progress
  <2> QED
    BY <1>1, <2>1, EmptySeq DEF AtHand
<1>3. tN.start < tD /\ tD <= Len(tText) + 1
  BY <1>1, <1>2
<1> QED
  BY <1>1, <1>3 DEF TextEnd, Cuts

\* What is between the ends of a tag changes the flags only.
LEMMA InTagStep == ASSUME TTyped, InTag PROVE Takes
<1>1. tD <= Len(tText) /\ tN \in Progress /\ Char \in Character
  BY DEF TTyped, InTag, Ending, Reading, Char
<1>2. QuoteFlags \in SUBSET Flags
  BY <1>1, Zenon DEF QuoteFlags, Progress, Flags
<1> DEFINE a == [tN EXCEPT !.flags = QuoteFlags, !.minus2 = tN.minus1, !.minus1 = Char]
           b == [tN EXCEPT !.flags = Toggle(@, "inD")]
           c == [tN EXCEPT !.flags = Toggle(@, "inS")]
<1>3. a \in Progress /\ b \in Progress /\ c \in Progress
      /\ a.start = tN.start /\ b.start = tN.start /\ c.start = tN.start
  BY <1>1, <1>2 DEF Progress, Toggle, Flags, Last2
<1>4. Go(a) \/ Go(b) \/ Go(c) \/ Go(tN)
  BY Zenon DEF InTag
<1> HIDE DEF a, b, c
<1> QED
  BY <1>1, <1>3, <1>4 DEF Takes

\* The end looked for, and what is then known of the node, are of their types.
LEMMA FoundTypes ==
  ASSUME NEW n \in Progress, NEW e \in Seq(Marks), NEW t \in Types, NEW at \in Nat
  PROVE  /\ FindType(n, e, t) \in Progress /\ FindType(n, e, t).start = n.start
         /\ FindName(n, e, t, at) \in Progress /\ FindName(n, e, t, at).start = n.start
<1>1. FindType(n, e, t) = [n EXCEPT !.end = e, !.type = t]
  BY DEF FindType
<1>2. FindName(n, e, t, at) = [FindType(n, e, t) EXCEPT !.name = at]
  BY DEF FindName
<1>3. FindType(n, e, t) \in Progress /\ FindType(n, e, t).start = n.start
  BY <1>1 DEF Progress
<1>4. FindName(n, e, t, at) \in Progress /\ FindName(n, e, t, at).start = n.start
  BY <1>2, <1>3 DEF Progress
<1> QED
  BY <1>3, <1>4

\* The ends there are.
LEMMA EndTypes ==
  /\ <<">">> \in Seq(Marks) /\ <<"<">> \in Seq(Marks) /\ <<"?", ">">> \in Seq(Marks)
  /\ <<"-", "-", ">">> \in Seq(Marks) /\ <<"]", "]", ">">> \in Seq(Marks)
  BY DEF Marks

\* A flag may be set and cleared.
LEMMA FlagTypes ==
  ASSUME NEW n \in Progress, NEW f \in Flags, NEW g \in Flags
  PROVE  /\ [n EXCEPT !.flags = @ \ {f}] \in Progress
         /\ [n EXCEPT !.flags = @ \ {f}].start = n.start
         /\ [n EXCEPT !.flags = @ \cup {g}] \in Progress
         /\ [n EXCEPT !.flags = @ \cup {g}].start = n.start
  BY DEF Progress

\* White space becomes text with the first other character.
LEMMA TextOrSpaceStep == ASSUME TTyped, AtHand, TextOrSpace PROVE Takes \/ Cuts
<1>1. tD <= Len(tText) /\ tD \in Nat /\ tN.start <= tD /\ Len(tText) \in Nat /\ tN.start \in Nat
      /\ tN \in Progress /\ tN.flags # {}
  BY DEF TTyped, TextOrSpace, Starting, Reading, Has, Progress
<1>2. tN.start < tD /\ tD <= Len(tText) + 1
  BY <1>1 DEF AtHand
<1> DEFINE w == [tN EXCEPT !.type = "white"]
           m == [tN EXCEPT !.flags = @ \ {"textorws"}]
           t == FindType(m, <<"<">>, "text")
<1>3. w \in Progress /\ w.start = tN.start
  BY <1>1 DEF Progress, Types
<1>4. m \in Progress /\ m.start = tN.start
  BY <1>1, FlagTypes DEF Flags
<1>5. t \in Progress /\ t.start = tN.start
  <2> HIDE DEF m
  <2> QED
    BY <1>4, EndTypes, FoundTypes DEF Types
<1>6. Finish(w, tD) \/ Go(tN) \/ Go(t)
  BY Zenon DEF TextOrSpace
<1> HIDE DEF w, t
<1> QED
  BY <1>1, <1>2, <1>3, <1>5, <1>6 DEF Takes, Cuts

\* The second character tells the kind of a tag.
LEMMA OpenTagStep == ASSUME TTyped, OpenTag PROVE Takes
<1>1. tD <= Len(tText) /\ tD \in Nat /\ tN \in Progress
  BY DEF TTyped, OpenTag, Starting, Reading
<1> DEFINE n == [tN EXCEPT !.flags = @ \ {"open"}]
           b == [n EXCEPT !.flags = @ \cup {"bang"}]
<1>2. n \in Progress /\ n.start = tN.start
  BY <1>1, FlagTypes DEF Flags
<1>3. Go(FindName(n, <<">">>, "element", tD)) \/ Go(FindName(n, <<">">>, "end", tD + 1))
      \/ Go(b) \/ Go(FindName(n, <<"?", ">">>, "pi", tD + 1)) \/ Go(FindBad(n))
  BY Zenon DEF OpenTag
<1>4. FindBad(n) = FindType(n, <<">">>, "bad")
  BY DEF FindBad
<1> HIDE DEF n
<1>5. b \in Progress /\ b.start = tN.start
  BY <1>2, FlagTypes DEF Flags
<1> HIDE DEF b
<1>6. \E m \in Progress : m.start = tN.start /\ Go(m)
  <2> DEFINE c == <<">">>
             q == <<"?", ">">>
  <2>1. tD \in Nat /\ tD + 1 \in Nat /\ "element" \in Types /\ "end" \in Types /\ "pi" \in Types
        /\ "bad" \in Types
    BY <1>1 DEF Types
  <2>2. c \in Seq(Marks) /\ q \in Seq(Marks)
    BY EndTypes
  <2>3. \/ Go(FindName(n, c, "element", tD)) \/ Go(FindName(n, c, "end", tD + 1))
        \/ Go(b) \/ Go(FindName(n, q, "pi", tD + 1)) \/ Go(FindType(n, c, "bad"))
    BY <1>3, <1>4
  <2> HIDE DEF c, q
  <2>4. \A t \in Types, at \in Nat :
          /\ FindName(n, c, t, at) \in Progress /\ FindName(n, c, t, at).start = tN.start
          /\ FindName(n, q, t, at) \in Progress /\ FindName(n, q, t, at).start = tN.start
          /\ FindType(n, c, t) \in Progress /\ FindType(n, c, t).start = tN.start
    BY <1>2, <2>2, FoundTypes
  <2> QED
    BY <1>5, <2>1, <2>3, <2>4, Zenon
<1> QED
  BY <1>1, <1>6 DEF Takes

\* A node found to be bad, or of a type that needs no name.
LEMMA FoundGo ==
  ASSUME NEW n \in Progress, n.start = tN.start,
         NEW f \in Flags, NEW e \in Seq(Marks), NEW t \in Types,
         Go([n EXCEPT !.flags = @ \cup {f}]) \/ Go(FindType(n, e, t)) \/ Go(FindBad(n))
  PROVE  \E m \in Progress : m.start = tN.start /\ Go(m)
<1>1. /\ [n EXCEPT !.flags = @ \cup {f}] \in Progress
      /\ [n EXCEPT !.flags = @ \cup {f}].start = tN.start
  BY FlagTypes
<1>2. FindType(n, e, t) \in Progress /\ FindType(n, e, t).start = tN.start
  BY FoundTypes
<1>3. FindBad(n) \in Progress /\ FindBad(n).start = tN.start
  BY EndTypes, FoundTypes DEF FindBad, Types
<1> QED
  BY <1>1, <1>2, <1>3, Zenon

\* What may follow "<!".
LEMMA BangStep == ASSUME TTyped, Bang PROVE Takes
<1>1. tD <= Len(tText) /\ tN \in Progress
  BY DEF TTyped, Bang, Starting, Reading
<1> DEFINE n == [tN EXCEPT !.flags = @ \ {"bang"}]
<1>2. n \in Progress /\ n.start = tN.start
  BY <1>1, FlagTypes DEF Flags
<1>3. \/ Go([n EXCEPT !.flags = @ \cup {"dash"}])
      \/ Go([n EXCEPT !.flags = @ \cup {"bracket"}])
      \/ Go([n EXCEPT !.flags = @ \cup {"doctype"}])
      \/ Go(FindType(n, <<">">>, "doctype"))
      \/ Go(FindBad(n))
  BY Zenon DEF Bang
<1> HIDE DEF n
<1>4. {"dash", "bracket", "doctype"} \subseteq Flags /\ "doctype" \in Types
  BY DEF Flags, Types
<1>5. \E m \in Progress : m.start = tN.start /\ Go(m)
  BY <1>2, <1>3, <1>4, EndTypes, FoundGo
<1> QED
  BY <1>1, <1>5 DEF Takes

\* A comment and a CDATA section are known by their second mark.
LEMMA DashOrBracketStep == ASSUME TTyped, DashOrBracket PROVE Takes
<1>1. tD <= Len(tText) /\ tN \in Progress
  BY DEF TTyped, DashOrBracket, Starting, Reading
<1> DEFINE n == [tN EXCEPT !.flags = @ \ {"dash"}]
           m == [tN EXCEPT !.flags = @ \ {"bracket"}]
<1>2. n \in Progress /\ n.start = tN.start /\ m \in Progress /\ m.start = tN.start
  BY <1>1, FlagTypes DEF Flags
<1>3. \/ Go(FindType(n, <<"-", "-", ">">>, "comment")) \/ Go(FindBad(n))
      \/ Go(FindType(m, <<"]", "]", ">">>, "cdata")) \/ Go(FindBad(m))
  BY Zenon DEF DashOrBracket
<1> HIDE DEF n, m
<1>4. "comment" \in Types /\ "cdata" \in Types /\ "dash" \in Flags
  BY DEF Flags, Types
<1>5. \E l \in Progress : l.start = tN.start /\ Go(l)
  BY <1>2, <1>3, <1>4, EndTypes, FoundGo
<1> QED
  BY <1>1, <1>5 DEF Takes

\* A document type ends with its own '>'.
LEMMA DoctypeStep == ASSUME TTyped, Doctype PROVE Takes \/ Cuts
<1>1. tD <= Len(tText) /\ tD \in Nat /\ tN.start <= tD /\ Len(tText) \in Nat /\ tN.start \in Nat
      /\ tN \in Progress
  BY DEF TTyped, Doctype, Starting, Reading, Progress
<1> DEFINE o == [tN EXCEPT !.flags = @ \cup {"open"}]
           d == [tN EXCEPT !.type = "doctype"]
<1>2. o \in Progress /\ o.start = tN.start
  BY <1>1, FlagTypes DEF Flags
<1>3. d \in Progress /\ d.start = tN.start
  BY <1>1 DEF Progress, Types
<1>4. Go(o) \/ Finish(d, tD + 1) \/ Go(tN)
  BY Zenon DEF Doctype
<1> HIDE DEF o, d
<1>5. tN.start < tD + 1 /\ tD + 1 \in Nat /\ tD + 1 <= Len(tText) + 1
  BY <1>1
<1> QED
  BY <1>1, <1>2, <1>3, <1>4, <1>5 DEF Takes, Cuts

\* The first character of a node.
LEMMA FirstStep == ASSUME TTyped, First PROVE Takes
<1>1. tD <= Len(tText) /\ tN \in Progress
  BY DEF TTyped, First, Starting, Reading
<1> DEFINE o == [tN EXCEPT !.flags = {"open"}]
           w == [tN EXCEPT !.flags = {"textorws"}, !.type = "white"]
           t == FindType(tN, <<"<">>, "text")
<1>2. o \in Progress /\ o.start = tN.start /\ w \in Progress /\ w.start = tN.start
  BY <1>1 DEF Progress, Types, Flags
<1>3. t \in Progress /\ t.start = tN.start
  BY <1>1, EndTypes, FoundTypes DEF Types
<1>4. Go(o) \/ Go(w) \/ Go(t)
  BY Zenon DEF First
<1> HIDE DEF o, w, t
<1> QED
  BY <1>1, <1>2, <1>3, <1>4 DEF Takes

\* The attributes are looked for when all nodes are there, and nothing of them
\* is changed.
LEMMA SearchStep == ASSUME GetAttribName \/ FindAttrib PROVE Leaves /\ tPhase # "nodes"
<1>1. CASE GetAttribName
  BY <1>1 DEF GetAttribName, Leaves
<1>2. CASE FindAttrib
  <2>1. tPhase # "nodes" /\ UNCHANGED <<tPieces, tText, tD, tN, tNodes>>
    BY <1>2, Zenon DEF FindAttrib
  <2>2. tPhase' \in {tPhase, "none", "value", "got"}
    BY <1>2, Zenon DEF FindAttrib
  <2> QED
    BY <2>1, <2>2 DEF Leaves
<1> QED
  BY <1>1, <1>2

\* Before its first character.
LEMMA NodeAtType ==
  ASSUME NEW p \in Nat \ {0}
  PROVE  /\ NodeAt(p) \in Progress /\ NodeAt(p).start = p /\ NodeAt(p).flags = {}
         /\ Len(NodeAt(p).end) = 0
<1> DEFINE e == <<>>
           z == "0"
<1>1. e \in Seq(Marks) /\ Len(e) = 0 /\ z \in Last2 /\ "bad" \in Types
  BY EmptySeq DEF Last2, Types
<1>2. NodeAt(p) = [start |-> p, type |-> "bad", end |-> e, flags |-> {}, name |-> 0,
                   minus1 |-> z, minus2 |-> z, empty |-> FALSE]
  BY DEF NodeAt
<1> HIDE DEF e, z
<1> QED
  BY <1>1, <1>2 DEF Progress

\* The text made of pieces.
LEMMA WrittenType ==
  ASSUME NEW pieces \in Seq(TPieces)
  PROVE  Written(pieces)[Len(pieces)] \in Seq(Character)
<1> DEFINE m == Len(pieces)
           parts == [k \in 1 .. m |-> pieces[k].text]
           Body(f) == [k \in 0 .. m |-> IF k = 0 THEN <<>> ELSE f[k - 1] \o pieces[k].text]
<1>1. m \in Nat /\ parts \in [1 .. m -> Seq(Character)]
  BY TokenAssumption
<1>2. ASSUME NEW f PROVE Body(f) = [k \in 0 .. m |-> IF k = 0 THEN <<>> ELSE f[k - 1] \o parts[k]]
  <2>1. \A k \in 0 .. m : k # 0 => parts[k] = pieces[k].text
    BY <1>1
  <2> HIDE DEF parts, m
  <2> QED
    BY <2>1, Zenon
<1> HIDE DEF parts
<1>3. \A f : Joined(f, parts, m) <=> f = Body(f)
  BY <1>2, Zenon DEF Joined
<1>4. \E f : f = Body(f)
  <2>1. \E f \in [0 .. m -> Seq(Character)] : Joined(f, parts, m)
    BY <1>1, JoinedExists
  <2> QED
    BY <1>3, <2>1, Zenon
<1>5. Written(pieces) = Body(Written(pieces))
  <2>1. Written(pieces) = CHOOSE f : f = Body(f)
    BY Zenon DEF Written
  <2> HIDE DEF Body
  <2> QED
    BY <1>4, <2>1, Zenon
<1> DEFINE g == Written(pieces)
<1>6. Joined(g, parts, m)
  BY <1>3, <1>5, Zenon
<1> HIDE DEF g, m
<1>7. g \in [0 .. m -> Seq(Character)]
  BY <1>1, <1>6, JoinedType
<1>8. g[m] \in Seq(Character)
  BY <1>1, <1>7
<1> QED
  BY <1>8 DEF g, m

\* At first nothing is read.
LEMMA TokenInit == TInit => TokenInv
<1> SUFFICES ASSUME TInit PROVE TokenInv
  OBVIOUS
<1>1. tText \in Seq(Character)
  <2>1. CASE tPieces \in BoundedSeq(TPieces, TMaxPieces) /\ tText = Written(tPieces)[Len(tPieces)]
    <3>1. tPieces \in Seq(TPieces)
      BY <2>1, TokenAssumption DEF BoundedSeq, SeqOf
    <3> QED
      BY <2>1, <3>1, WrittenType
  <2>2. CASE tText \in BoundedSeq(TChars, TMaxChars)
    <3>1. tText \in Seq(TChars)
      BY <2>2, TokenAssumption DEF BoundedSeq, SeqOf
    <3> QED
      BY <3>1, TokenAssumption
  <2> QED
    BY <2>1, <2>2 DEF TInit
<1>2. NodeAt(1) \in Progress /\ NodeAt(1).start = 1 /\ NodeAt(1).flags = {} /\ Len(NodeAt(1).end) = 0
  BY NodeAtType
<1> DEFINE e == <<>>
<1>3. e \in Seq(Found) /\ Len(e) = 0
  BY EmptySeq
<1>4. tD = 1 /\ tN = NodeAt(1) /\ tNodes = e /\ tPhase = "nodes"
  BY DEF TInit
<1> HIDE DEF e
<1>5. Len(tText) \in Nat
  BY <1>1
<1> QED
  BY <1>1, <1>2, <1>3, <1>4, <1>5 DEF TokenInv, TTyped, AtHand, Chain

\* Every step keeps the nodes together.
LEMMA TokenInductive == TokenInv /\ [TNext]_tVars => TokenInv'
<1> SUFFICES ASSUME TokenInv, [TNext]_tVars PROVE TokenInv'
  OBVIOUS
<1>0. /\ TTyped /\ AtHand /\ Chain
      /\ tText \in Seq(Character) /\ Len(tText) \in Nat
      /\ tD \in Nat \ {0} /\ tD <= Len(tText) + 1 /\ tN \in Progress /\ tN.start <= tD
      /\ tN.start \in Nat \ {0} /\ tNodes \in Seq(Found) /\ Len(tNodes) \in Nat
  BY DEF TokenInv, TTyped, Progress
<1>1. CASE Takes
  <2>1. PICK n \in Progress : n.start = tN.start /\ Go(n)
    BY <1>1 DEF Takes
  <2>2. /\ tN' = n /\ tD' = tD + 1 /\ UNCHANGED <<tText, tNodes, tPhase>> /\ tD <= Len(tText)
    BY <1>1, <2>1 DEF Go, Takes
  <2>3. tN.start < tD' /\ tD' \in Nat \ {0} /\ tD' <= Len(tText) + 1 /\ tD # Len(tText) + 1
    BY <1>0, <2>2
  <2>4. TTyped'
    BY <1>0, <2>1, <2>2, <2>3 DEF TTyped
  <2>5. AtHand'
    BY <1>0, <2>1, <2>2, <2>3 DEF AtHand
  <2>6. Chain'
    BY <1>0, <2>2 DEF Chain
  <2> QED
    BY <2>4, <2>5, <2>6 DEF TokenInv
<1>2. CASE Cuts
  <2>1. PICK n \in Progress, p \in Nat :
          n.start = tN.start /\ tN.start < p /\ p <= Len(tText) + 1 /\ Finish(n, p)
    BY <1>2 DEF Cuts
  <2> DEFINE r == [type |-> n.type, from |-> n.start, to |-> p - 1, empty |-> n.empty]
             k == Len(tNodes)
  <2>2. /\ tNodes' = Append(tNodes, r) /\ tN' = NodeAt(p) /\ tD' = p
        /\ UNCHANGED <<tText, tPhase>>
    BY <2>1 DEF Finish
  <2>3. r \in Found /\ r.from = tN.start /\ r.to + 1 = p /\ r.to >= r.from /\ p \in Nat \ {0}
    BY <1>0, <2>1 DEF Found, Progress
  <2> HIDE DEF r
  <2>4. /\ tNodes' \in Seq(Found) /\ Len(tNodes') = k + 1
        /\ \A j \in 1 .. k : tNodes'[j] = tNodes[j]
        /\ tNodes'[k + 1] = r
    BY <1>0, <2>2, <2>3, AppendProperties
  <2>5. NodeAt(p) \in Progress /\ NodeAt(p).start = p /\ NodeAt(p).flags = {} /\ Len(NodeAt(p).end) = 0
    BY <2>3, NodeAtType
  <2>6. TTyped'
    BY <1>0, <2>1, <2>2, <2>3, <2>4, <2>5 DEF TTyped
  <2>7. AtHand'
    <3>1. tPhase = "nodes"
      BY <1>0, <2>1 DEF AtHand
    <3>2. Len(tNodes') # 0 /\ tNodes'[Len(tNodes')] = r
      BY <1>0, <2>4
    <3> QED
      BY <2>2, <2>3, <2>5, <3>1, <3>2 DEF AtHand
  <2>8. Chain'
    <3> SUFFICES ASSUME NEW j \in 1 .. k + 1
                 PROVE  /\ tNodes'[j].to >= tNodes'[j].from
                        /\ tNodes'[j].from = IF j = 1 THEN 1 ELSE tNodes'[j - 1].to + 1
      BY <2>4 DEF Chain
    <3>1. CASE j \in 1 .. k
      <4>1. j # 1 => j - 1 \in 1 .. k
        BY <1>0, <3>1
      <4> QED
        BY <1>0, <2>4, <3>1, <4>1 DEF Chain
    <3>2. CASE j = k + 1
      <4>1. j # 1 => k \in 1 .. k /\ j - 1 = k /\ k # 0
        BY <1>0, <3>2
      <4>2. j = 1 => k = 0
        BY <1>0, <3>2
      <4> QED
        BY <1>0, <2>3, <2>4, <3>2, <4>1, <4>2 DEF AtHand
    <3> QED
      BY <1>0, <3>1, <3>2
  <2> QED
    BY <2>6, <2>7, <2>8 DEF TokenInv
<1>3. CASE Named
  <2>1. /\ tN' \in Progress /\ tN'.start = tN.start /\ tN'.flags = tN.flags /\ tN'.end = tN.end
        /\ UNCHANGED <<tText, tD, tNodes, tPhase>>
    BY <1>3 DEF Named
  <2> QED
    BY <1>0, <2>1 DEF TokenInv, TTyped, AtHand, Chain
<1>4. CASE Leaves
  <2>1. UNCHANGED <<tText, tD, tN, tNodes>> /\ tN.start = tD /\ tD = Len(tText) + 1
    BY <1>0, <1>4 DEF Leaves, AtHand
  <2> QED
    BY <1>0, <2>1 DEF TokenInv, TTyped, AtHand, Chain
<1>5. CASE UNCHANGED tVars
  BY <1>0, <1>5 DEF tVars, TokenInv, TTyped, AtHand, Chain
<1>6. TNext => Takes \/ Cuts \/ Named \/ Leaves
  BY <1>0, EndOfTextStep, InNameStep, TagEndStep, TextEndStep, InTagStep, TextOrSpaceStep,
     OpenTagStep, BangStep, DashOrBracketStep, DoctypeStep, FirstStep, SearchStep DEF TNext
<1> QED
  BY <1>1, <1>2, <1>3, <1>4, <1>5, <1>6

(***************************************************************************)
(* However broken a text is, ParseNode cuts it into nodes that follow on   *)
(* one another: no character is left out or read twice, and no node is     *)
(* empty, so that a parser that goes from node to node comes to an end.    *)
(***************************************************************************)
THEOREM TextCovered == TSpec => []Covered
<1>1. TokenInv => Covered
  <2> SUFFICES ASSUME TokenInv PROVE Covered
    OBVIOUS
  <2>0. /\ tText \in Seq(Character) /\ Len(tText) \in Nat /\ tNodes \in Seq(Found)
        /\ Len(tNodes) \in Nat
    BY DEF TokenInv, TTyped
  <2>1. \A k \in DOMAIN tNodes :
          /\ tNodes[k].to >= tNodes[k].from
          /\ tNodes[k].from = IF k = 1 THEN 1 ELSE tNodes[k - 1].to + 1
    BY <2>0 DEF TokenInv, Chain
  <2>2. ASSUME NodesDone
        PROVE  IF tNodes = <<>> THEN tText = <<>> ELSE Last(tNodes).to = Len(tText)
    <3>1. Len(tText) + 1 = IF Len(tNodes) = 0 THEN 1 ELSE tNodes[Len(tNodes)].to + 1
      BY <2>2 DEF TokenInv, AtHand, NodesDone
    <3>2. CASE Len(tNodes) = 0
      <4>1. Len(tText) = 0
        BY <2>0, <3>1, <3>2
      <4> QED
        BY <2>0, <3>2, <4>1, EmptySeq
    <3>3. CASE Len(tNodes) # 0
      <4>1. Len(tNodes) \in 1 .. Len(tNodes) /\ tNodes[Len(tNodes)] \in Found
        BY <2>0, <3>3
      <4>2. tNodes[Len(tNodes)].to = Len(tText)
        BY <2>0, <3>1, <3>3, <4>1 DEF Found
      <4>3. tNodes # <<>>
        BY <2>0, <3>3, EmptySeq
      <4> QED
        BY <4>2, <4>3 DEF Last
    <3> QED
      BY <3>2, <3>3
  <2> QED
    BY <2>1, <2>2 DEF Covered
<1> QED
  BY <1>1, TokenInit, TokenInductive, PTL DEF TSpec

-----------------------------------------------------------------------------
(****************** The tree of elements: CMarkup::x_ParseElem **************)

ElemFlags == {"first", "illformed", "illdata", "nonended"}
Element == [parent : Nat, child : Nat, next : Nat, prev : Nat, start : Nat, length : Nat,
            flags : SUBSET ElemFlags]

\* x is the least of S; 0 if there is none.
Least(S, x) == IF S = {} THEN x = 0 ELSE x \in S /\ \A k \in S : x <= k

Children(e, n) == {m \in DOMAIN e \ {0} : e[m].parent = n}
Behind(e, m) == {k \in Children(e, e[m].parent) : m < k}

\* The links say who is whose child, in the order of the indexes.
Linked(e) ==
  /\ \A n \in DOMAIN e : Least(Children(e, n), e[n].child)
  /\ \A m \in DOMAIN e \ {0} : e[m].parent \in DOMAIN e /\ e[m].parent < m
                               /\ Least(Behind(e, m), e[m].next)

Tree(e, n) == n \in Nat /\ e \in [0 .. n -> Element] /\ Linked(e)

End(e, m) == e[m].start + e[m].length

\* Elements are numbered as they begin in the text, and end before it does.
TextOrder(e, len) ==
  /\ \A m \in DOMAIN e \ {0} : e[m].start <= len /\ End(e, m) <= len + 1
  /\ \A m, k \in DOMAIN e \ {0} : m < k => e[m].start < e[k].start

\* The first child says which is the last.
LastKnown(e, n) ==
  Children(e, n) # {} =>
    LET l == e[e[n].child].prev
    IN  l \in Children(e, n) /\ \A k \in Children(e, n) : k <= l

\* w goes from ELEM(0) to the open element, always by the last child.
Way(w, e, d, pos) ==
  /\ w \in [0 .. d -> DOMAIN e] /\ w[0] = 0 /\ w[d] = pos
  /\ \A k \in 1 .. d : /\ w[k] \in Children(e, w[k - 1])
                       /\ \A c \in Children(e, w[k - 1]) : c <= w[k]
  /\ \A j, k \in 0 .. d : j < k => w[j] < w[k]

Known(w, e, g) == \A k \in 0 .. g : LastKnown(e, w[k])
Within(e, n) == \A k \in Children(e, n) : End(e, k) <= End(e, n)
\* What is not open lies within its parent.
Closed(w, e, d) == \A n \in DOMAIN e \ {0} : (\A k \in 0 .. d : w[k] # n) => Within(e, n)

ElemCount == Cardinality(Elems)

MTyped ==
  /\ mDoc \in Seq(MNodes) /\ mStack \in Seq(MTags)
  /\ mPhase \in {"nodes", "close", "end", "find", "over"}
  /\ Tree(mElem, ElemCount)

\* While the document is read: the last child is known of the elements that stay
\* open, and an end tag sets the length of the one at level, which it closes.
Parsing(w, e, len, d, pos, phase, level) ==
  /\ Way(w, e, d, pos) /\ Closed(w, e, d)
  /\ Known(w, e, IF phase = "nodes" THEN d ELSE level - 1)
  /\ phase # "nodes" => level \in Nat /\ level <= d
  /\ phase = "close" => level # 0 /\ End(e, w[level]) = len + 1

TreeInv ==
  /\ MTyped /\ TextOrder(mElem, Len(mDoc))
  /\ ~Parsed => \E w : Parsing(w, mElem, Len(mDoc), Len(mStack), mPos, mPhase, mMatch)
  /\ Parsed => \A n \in DOMAIN mElem \ {0} : Within(mElem, n)

\* A set of numbers with a bound has a greatest.
LEMMA Greatest ==
  ASSUME NEW m \in Nat, NEW S \in SUBSET (0 .. m), S # {}
  PROVE  \E k \in S : \A l \in S : l <= k
<1> DEFINE R == OpToRel(<, Nat)
           D == {j \in 0 .. m : m - j \in S}
<1>1. \A x, y \in Nat : <<x, y>> \in R <=> x < y
  BY DEF OpToRel
<1>2. IsWellFoundedOn(R, Nat)
  BY NatLessThanWellFounded
<1>3. D # {} /\ D \subseteq Nat
  <2> PICK s \in S : TRUE
    OBVIOUS
  <2>1. m - s \in 0 .. m /\ m - (m - s) = s
    OBVIOUS
  <2> QED
    BY <2>1
<1> HIDE DEF R
<1>4. PICK x \in D : \A y \in D : <<y, x>> \notin R
  <2> HIDE DEF D
  <2> QED
    BY <1>2, <1>3, WFMin, Zenon
<1>5. \A l \in S : l <= m - x
  <2> TAKE l \in S
  <2>1. m - l \in D
    <3>1. m - l \in 0 .. m /\ m - (m - l) = l
      OBVIOUS
    <3> QED
      BY <3>1
  <2>2. ~(m - l < x)
    BY <1>1, <1>3, <1>4, <2>1
  <2> QED
    BY <2>2
<1> QED
  BY <1>5

\* Elements with the same links are as well linked.
Same(e, f) ==
  DOMAIN e = DOMAIN f
    /\ \A m \in DOMAIN e : /\ e[m].parent = f[m].parent /\ e[m].child = f[m].child
                           /\ e[m].next = f[m].next /\ e[m].prev = f[m].prev
                           /\ e[m].start = f[m].start

\* They have the same children.
LEMMA SameChildren ==
  ASSUME NEW e, NEW f, Same(e, f)
  PROVE  \A n : Children(e, n) = Children(f, n)
  BY DEF Same, Children

\* They are linked when the others are.
LEMMA SameLinked ==
  ASSUME NEW e, NEW f, Same(e, f), Linked(e)
  PROVE  Linked(f)
<1>1. \A n : Children(e, n) = Children(f, n)
  BY SameChildren
<1>2. \A n \in DOMAIN f : Least(Children(f, n), f[n].child)
  BY <1>1 DEF Linked, Same
<1>3. ASSUME NEW m \in DOMAIN f \ {0}
      PROVE  f[m].parent \in DOMAIN f /\ f[m].parent < m /\ Least(Behind(f, m), f[m].next)
  <2>1. Behind(e, m) = Behind(f, m)
    BY <1>1 DEF Same, Behind
  <2>2. e[m].parent \in DOMAIN e /\ e[m].parent < m /\ Least(Behind(e, m), e[m].next)
    BY DEF Linked, Same
  <2> QED
    BY <2>1, <2>2 DEF Same
<1> QED
  BY <1>2, <1>3 DEF Linked

\* The same is the way to the open element, and the last children are known
\* as before.
LEMMA SameWay ==
  ASSUME NEW e, NEW f, Same(e, f), Linked(e)
  PROVE  /\ \A w, d, pos : Way(w, e, d, pos) => Way(w, f, d, pos)
         /\ \A n \in DOMAIN e : LastKnown(e, n) => LastKnown(f, n)
<1>1. \A n : Children(e, n) = Children(f, n)
  BY SameChildren
<1>2. \A w, d, pos : Way(w, e, d, pos) => Way(w, f, d, pos)
  BY <1>1 DEF Way, Same
<1>3. ASSUME NEW n \in DOMAIN e, LastKnown(e, n) PROVE LastKnown(f, n)
  <2>1. Children(e, n) # {} => e[n].child \in DOMAIN e
    BY DEF Linked, Least, Children
  <2> QED
    BY <1>1, <1>3, <2>1 DEF LastKnown, Same
<1> QED
  BY <1>2, <1>3

\* f[k] is the child behind k others, 0 if there is none.
KidChain(f, e, p, m) ==
  f = [k \in 0 .. m |-> IF k = 0 THEN e[p].child
                        ELSE IF f[k - 1] = 0 THEN 0 ELSE e[f[k - 1]].next]

\* Where a tree's links lead.
LEMMA Links ==
  ASSUME NEW n, NEW e, Tree(e, n)
  PROVE  /\ n \in Nat /\ e \in [0 .. n -> Element] /\ Linked(e)
         /\ \A p : Children(e, p) \subseteq 1 .. n
         /\ \A p \in 0 .. n : /\ e[p].child \in 0 .. n
                              /\ Least(Children(e, p), e[p].child)
         /\ \A m \in 1 .. n : /\ e[m].next \in 0 .. n
                              /\ e[m].parent \in 0 .. n /\ e[m].parent < m
                              /\ m \in Children(e, e[m].parent)
                              /\ Least(Behind(e, m), e[m].next)
<1>1. n \in Nat /\ e \in [0 .. n -> Element] /\ Linked(e) /\ DOMAIN e = 0 .. n
  BY DEF Tree
<1>2. \A p : Children(e, p) \subseteq 1 .. n
  BY <1>1 DEF Children
<1>3. \A p \in 0 .. n : e[p].child \in 0 .. n /\ Least(Children(e, p), e[p].child)
  BY <1>1, <1>2 DEF Linked, Least
<1>4. ASSUME NEW m \in 1 .. n
      PROVE  /\ e[m].next \in 0 .. n /\ e[m].parent \in 0 .. n /\ e[m].parent < m
             /\ m \in Children(e, e[m].parent) /\ Least(Behind(e, m), e[m].next)
  <2>1. m \in DOMAIN e \ {0}
    BY <1>1
  <2>2. e[m].parent \in 0 .. n /\ e[m].parent < m /\ Least(Behind(e, m), e[m].next)
    BY <1>1, <2>1 DEF Linked
  <2>3. Behind(e, m) \subseteq 1 .. n
    BY <1>2 DEF Behind
  <2>4. e[m].next \in 0 .. n
    BY <1>1, <2>2, <2>3 DEF Least
  <2> QED
    BY <2>1, <2>2, <2>4 DEF Children
<1> QED
  BY <1>1, <1>2, <1>3, <1>4

\* The way along the children exists.
LEMMA ChainExists ==
  ASSUME NEW n, NEW e, Tree(e, n), NEW p \in 0 .. n
  PROVE  \E f \in [0 .. n + 1 -> 0 .. n] : KidChain(f, e, p, n + 1)
<1> DEFINE S == 0 .. n
           m == n + 1
           b == e[p].child
           on == [q \in S |-> IF q = 0 THEN 0 ELSE e[q].next]
           step == [k \in 1 .. m |-> on]
<1>1. m \in Nat /\ b \in S /\ \A q \in S : q # 0 => e[q].next \in S
  BY Links
<1>2. step \in [1 .. m -> [S -> S]]
  BY <1>1, Links
<1>3. \A k \in 1 .. m, q \in S : step[k][q] = IF q = 0 THEN 0 ELSE e[q].next
  OBVIOUS
<1>d. \A k \in 0 .. m : k # 0 => k \in 1 .. m /\ k - 1 \in 0 .. m
  BY <1>1
<1> HIDE DEF S, m, b, step
<1>4. PICK f \in [0 .. m -> S] : Stepwise(f, b, step, m)
  BY <1>1, <1>2, StepwiseExists
<1>5. \A k \in 0 .. m : k # 0 => step[k][f[k - 1]] = IF f[k - 1] = 0 THEN 0 ELSE e[f[k - 1]].next
  BY <1>3, <1>d
<1>6. f = [k \in 0 .. m |-> IF k = 0 THEN b ELSE step[k][f[k - 1]]]
  BY <1>4, Zenon DEF Stepwise
<1>7. \A k \in 0 .. m :
        f[k] = IF k = 0 THEN b ELSE IF f[k - 1] = 0 THEN 0 ELSE e[f[k - 1]].next
  BY <1>5, <1>6, Zenon
<1>8. f = [k \in 0 .. m |-> IF k = 0 THEN b ELSE IF f[k - 1] = 0 THEN 0 ELSE e[f[k - 1]].next]
  BY <1>7
<1> QED
  BY <1>8 DEF KidChain, S, m, b

\* It meets the children one after the other, and all of them.
LEMMA ChainMeets ==
  ASSUME NEW n, NEW e, Tree(e, n), NEW p \in 0 .. n, NEW f, KidChain(f, e, p, n + 1)
  PROVE  /\ \A k \in 0 .. n + 1 : f[k] = 0 \/ f[k] \in Children(e, p)
         /\ \A j, k \in 0 .. n + 1 : j < k /\ f[k] # 0 => f[j] # 0 /\ f[j] < f[k]
         /\ \A m \in Children(e, p) : \E k \in 0 .. n : f[k] = m
<1> DEFINE C == Children(e, p)
<1>0. n \in Nat /\ C \subseteq 1 .. n /\ Least(C, e[p].child)
  BY Links
<1>c. \A m \in C : m \in Nat /\ 0 < m /\ m <= n
  BY <1>0
<1>1. f[0] = e[p].child
  BY <1>0 DEF KidChain
<1>2. ASSUME NEW k \in 0 .. n
      PROVE  f[k + 1] = IF f[k] = 0 THEN 0 ELSE e[f[k]].next
  <2>1. k + 1 \in 0 .. n + 1 /\ k + 1 # 0 /\ (k + 1) - 1 = k
    BY <1>0
  <2>2. f[k + 1] = IF k + 1 = 0 THEN e[p].child
                   ELSE IF f[(k + 1) - 1] = 0 THEN 0 ELSE e[f[(k + 1) - 1]].next
    BY <2>1, Zenon DEF KidChain
  <2> QED
    BY <2>1, <2>2
\* The next child is behind the last one met.
<1>3. ASSUME NEW k \in 0 .. n, f[k] \in C
      PROVE  /\ f[k + 1] = 0 \/ (f[k + 1] \in C /\ f[k] < f[k + 1])
             /\ \A m \in C : f[k] < m => f[k + 1] # 0 /\ f[k + 1] <= m
  <2>1. f[k] \in 1 .. n /\ e[f[k]].parent = p
    BY <1>0, <1>3 DEF Children
  <2>2. f[k + 1] = e[f[k]].next /\ Least(Behind(e, f[k]), e[f[k]].next)
    BY <1>2, <2>1, Links
  <2>3. Behind(e, f[k]) = {m \in C : f[k] < m}
    BY <2>1 DEF Behind
  <2> HIDE DEF C
  <2>4. Least({m \in C : f[k] < m}, f[k + 1])
    BY <2>2, <2>3
  <2> QED
    BY <1>0, <2>1, <2>4 DEF Least
<1> HIDE DEF C
<1> DEFINE T == {k \in Nat : k <= n + 1 =>
                   /\ f[k] = 0 \/ (f[k] \in C /\ k < f[k])
                   /\ f[k] # 0 => \A j \in 0 .. k : j < k => f[j] \in C /\ f[j] < f[k]
                   /\ \A m \in C : (\E j \in 0 .. k : f[j] = m) \/ (f[k] # 0 /\ f[k] < m)}
<1>4. 0 \in T
  <2>1. f[0] = 0 \/ (f[0] \in C /\ 0 < f[0])
    BY <1>0, <1>c, <1>1 DEF Least
  <2>2. \A m \in C : f[0] = m \/ (f[0] # 0 /\ f[0] < m)
    <3> TAKE m \in C
    <3>1. f[0] \in C /\ f[0] <= m
      BY <1>0, <1>1 DEF Least
    <3> QED
      BY <1>c, <3>1
  <2> QED
    BY <2>1, <2>2
<1>5. ASSUME NEW k \in Nat, k \in T PROVE k + 1 \in T
  <2> SUFFICES ASSUME k + 1 <= n + 1
               PROVE  /\ f[k + 1] = 0 \/ (f[k + 1] \in C /\ k + 1 < f[k + 1])
                      /\ f[k + 1] # 0 => \A j \in 0 .. k + 1 : j < k + 1 => f[j] \in C /\ f[j] < f[k + 1]
                      /\ \A m \in C : (\E j \in 0 .. k + 1 : f[j] = m)
                                      \/ (f[k + 1] # 0 /\ f[k + 1] < m)
    OBVIOUS
  <2>0. k \in 0 .. n /\ k <= n + 1 /\ k + 1 \in 0 .. k + 1
    BY <1>0
  <2>1. /\ f[k] = 0 \/ (f[k] \in C /\ k < f[k])
        /\ f[k] # 0 => \A j \in 0 .. k : j < k => f[j] \in C /\ f[j] < f[k]
        /\ \A m \in C : (\E j \in 0 .. k : f[j] = m) \/ (f[k] # 0 /\ f[k] < m)
    BY <1>5, <2>0
  <2>k. \A j \in 0 .. k : j \in 0 .. k + 1
    OBVIOUS
  <2> HIDE DEF T
  <2>2. CASE f[k] = 0
    <3>1. f[k + 1] = 0
      BY <1>2, <2>0, <2>2
    <3>2. \A m \in C : \E j \in 0 .. k + 1 : f[j] = m
      BY <2>1, <2>2, <2>k, Zenon
    <3> QED
      BY <3>1, <3>2
  <2>3. CASE f[k] # 0
    <3>1. f[k] \in C /\ f[k] \in Nat /\ k < f[k]
      BY <1>c, <2>1, <2>3
    <3>2. /\ f[k + 1] = 0 \/ (f[k + 1] \in C /\ f[k] < f[k + 1])
          /\ \A m \in C : f[k] < m => f[k + 1] # 0 /\ f[k + 1] <= m
      BY <1>3, <2>0, <3>1
    <3>3. f[k + 1] = 0 \/ (f[k + 1] \in C /\ k + 1 < f[k + 1])
      <4>1. ASSUME f[k + 1] # 0 PROVE f[k + 1] \in C /\ k + 1 < f[k + 1]
        <5>1. f[k + 1] \in C /\ f[k + 1] \in Nat /\ f[k] < f[k + 1]
          BY <1>c, <3>2, <4>1
        <5> QED
          BY <3>1, <5>1
      <4> QED
        BY <4>1
    <3>4. ASSUME f[k + 1] # 0, NEW j \in 0 .. k + 1, j < k + 1
          PROVE  f[j] \in C /\ f[j] < f[k + 1]
      <4>1. f[k + 1] \in Nat /\ f[k] < f[k + 1]
        BY <1>c, <3>2, <3>4
      <4>2. CASE j = k
        BY <3>1, <4>1, <4>2
      <4>3. CASE j # k
        <5>1. j \in 0 .. k /\ j < k
          BY <3>4, <4>3
        <5>2. f[j] \in C /\ f[j] < f[k]
          BY <2>1, <2>3, <5>1
        <5>3. f[j] \in Nat
          BY <1>c, <5>2
        <5> QED
          BY <3>1, <4>1, <5>2, <5>3
      <4> QED
        BY <4>2, <4>3
    <3>5. ASSUME NEW m \in C
          PROVE  (\E j \in 0 .. k + 1 : f[j] = m) \/ (f[k + 1] # 0 /\ f[k + 1] < m)
      <4>1. m \in Nat
        BY <1>0
      <4>2. CASE \E j \in 0 .. k : f[j] = m
        BY <2>k, <4>2
      <4>3. CASE f[k] # 0 /\ f[k] < m
        <5>1. f[k + 1] # 0 /\ f[k + 1] <= m /\ f[k + 1] \in Nat
          BY <1>c, <3>2, <4>3
        <5> QED
          BY <2>0, <4>1, <5>1
      <4> QED
        BY <2>1, <4>2, <4>3
    <3> QED
      BY <3>3, <3>4, <3>5
  <2> QED
    BY <2>2, <2>3
<1>6. \A k \in 0 .. n + 1 :
        /\ f[k] = 0 \/ (f[k] \in C /\ k < f[k])
        /\ f[k] # 0 => \A j \in 0 .. k : j < k => f[j] \in C /\ f[j] < f[k]
        /\ \A m \in C : (\E j \in 0 .. k : f[j] = m) \/ (f[k] # 0 /\ f[k] < m)
  <2> HIDE DEF T
  <2>1. Nat \subseteq T
    BY <1>4, <1>5, InductionOver
  <2> QED
    BY <1>0, <2>1 DEF T
<1>7. \A j, k \in 0 .. n + 1 : j < k /\ f[k] # 0 => f[j] # 0 /\ f[j] < f[k]
  <2> TAKE j, k \in 0 .. n + 1
  <2>1. j < k => j \in 0 .. k
    BY <1>0
  <2>2. \A i \in C : i # 0
    BY <1>0
  <2> QED
    BY <1>6, <2>1, <2>2
<1>8. ASSUME NEW m \in C PROVE \E k \in 0 .. n : f[k] = m
  <2>1. n \in 0 .. n + 1 /\ m <= n /\ m \in Nat
    BY <1>0
  <2>2. f[n] = 0 \/ n < f[n]
    BY <1>6, <2>1
  <2>3. f[n] # 0 => f[n] \in Nat
    BY <1>c, <1>6, <2>1
  <2> QED
    BY <1>0, <1>6, <2>1, <2>2, <2>3
<1> QED
  BY <1>6, <1>7, <1>8 DEF C

\* The children along next: all of them, each once, in the order of their numbers.
LEMMA KidsAre ==
  ASSUME NEW n, NEW e, Tree(e, n), NEW p \in 0 .. n
  PROVE  LET kids == Kids(e, p)
         IN  /\ ToSet(kids) = Children(e, p)
             /\ \A i, j \in DOMAIN kids : i < j => kids[i] < kids[j]
             /\ DOMAIN kids \subseteq Nat /\ kids = [i \in DOMAIN kids |-> kids[i]]
             /\ \A j \in DOMAIN kids : \A i \in 1 .. j : i \in DOMAIN kids
<1>0. n \in Nat /\ DOMAIN e = 0 .. n
  BY Links
<1>1. Cardinality(DOMAIN e) = n + 1
  <2>1. 0 \in Int /\ n \in Int
    BY <1>0
  <2>2. Cardinality(0 .. n) = IF 0 > n THEN 0 ELSE n - 0 + 1
    BY <2>1, FS_Interval
  <2> QED
    BY <1>0, <2>2
<1> DEFINE N == Cardinality(DOMAIN e)
           f == CHOOSE g : KidChain(g, e, p, N)
           K == {i \in 1 .. N : f[i - 1] # 0}
           kids == [k \in K |-> f[k - 1]]
<1>2. Kids(e, p) = kids
  BY Zenon DEF Kids, KidChain
<1>3. KidChain(f, e, p, n + 1)
  BY <1>1, ChainExists
<1> HIDE DEF f
<1>4. /\ \A k \in 0 .. n + 1 : f[k] = 0 \/ f[k] \in Children(e, p)
      /\ \A j, k \in 0 .. n + 1 : j < k /\ f[k] # 0 => f[j] # 0 /\ f[j] < f[k]
      /\ \A m \in Children(e, p) : \E k \in 0 .. n : f[k] = m
  BY <1>3, ChainMeets
<1>5. ToSet(kids) = Children(e, p)
  <2>1. ASSUME NEW m \in Children(e, p) PROVE \E k \in K : kids[k] = m
    <3>1. PICK k \in 0 .. n : f[k] = m
      BY <1>4
    <3>2. k + 1 \in 1 .. N /\ (k + 1) - 1 = k /\ m # 0
      BY <1>0, <1>1 DEF Children
    <3> QED
      BY <3>1, <3>2
  <2>2. ASSUME NEW k \in K PROVE kids[k] \in Children(e, p)
    <3>1. k - 1 \in 0 .. n + 1 /\ f[k - 1] # 0
      BY <1>0, <1>1
    <3> QED
      BY <1>4, <3>1
  <2> HIDE DEF K
  <2> QED
    BY <2>1, <2>2 DEF ToSet
<1>6. \A i, j \in DOMAIN kids : i < j => kids[i] < kids[j]
  <2> TAKE i, j \in DOMAIN kids
  <2>1. i - 1 \in 0 .. n + 1 /\ j - 1 \in 0 .. n + 1 /\ f[j - 1] # 0 /\ (i < j => i - 1 < j - 1)
    BY <1>0, <1>1
  <2> QED
    BY <1>4, <2>1
<1>8. kids = [i \in DOMAIN kids |-> kids[i]]
  OBVIOUS
<1>7. DOMAIN kids \subseteq Nat /\ \A j \in DOMAIN kids : \A i \in 1 .. j : i \in DOMAIN kids
  <2>1. K \subseteq 1 .. n + 1
    BY <1>1
  <2>2. ASSUME NEW j \in K, NEW i \in 1 .. j PROVE i \in K
    <3>1. /\ i \in 1 .. n + 1 /\ i - 1 \in 0 .. n + 1 /\ j - 1 \in 0 .. n + 1
          /\ (i = j \/ i - 1 < j - 1) /\ f[j - 1] # 0
      BY <1>0, <2>1
    <3>2. f[i - 1] # 0
      BY <1>4, <3>1
    <3> QED
      BY <1>1, <3>1, <3>2
  <2> HIDE DEF K
  <2> QED
    BY <1>0, <2>1, <2>2
<1> QED
  BY <1>2, <1>5, <1>6, <1>7, <1>8

\* A new element behind the others.
LEMMA WithOne ==
  ASSUME NEW f, NEW x, NEW r
  PROVE  /\ With(f, x, r)[x] = r
         /\ \A k \in DOMAIN f : k # x => With(f, x, r)[k] = f[k]
  BY DEF With

\* It is a tree's function still.
LEMMA OneMore ==
  ASSUME NEW n \in Nat, NEW S, NEW f \in [0 .. n -> S], NEW r \in S
  PROVE  With(f, n + 1, r) \in [0 .. n + 1 -> S]
<1>1. DOMAIN f \cup {n + 1} = 0 .. n + 1
  OBVIOUS
<1>2. With(f, n + 1, r) = [k \in 0 .. n + 1 |-> IF k = n + 1 THEN r ELSE f[k]]
  BY <1>1 DEF With
<1> QED
  BY <1>2

\* What AddChild makes of the links.
LEMMA AddChildLinks ==
  ASSUME NEW n, NEW e, Tree(e, n), mPos \in 0 .. n, LastKnown(e, mPos),
         NEW rec \in Element, rec.parent = mPos, rec.child = 0, rec.next = 0
  PROVE  LET f == AddChild(e, n + 1, rec)
             none == Children(e, mPos) = {}
             last == e[e[mPos].child].prev
         IN  /\ f \in [0 .. n + 1 -> Element]
             /\ f[n + 1].parent = mPos /\ f[n + 1].child = 0 /\ f[n + 1].next = 0
             /\ f[n + 1].start = rec.start /\ f[n + 1].length = rec.length
             /\ ~none => last \in 1 .. n /\ last \in Children(e, mPos)
                         /\ \A k \in Children(e, mPos) : k <= last
             /\ \A m \in 0 .. n :
                  /\ f[m].parent = e[m].parent
                  /\ f[m].start = e[m].start /\ f[m].length = e[m].length
                  /\ f[m].child = IF none /\ m = mPos THEN n + 1 ELSE e[m].child
                  /\ f[m].next = IF ~none /\ m = last THEN n + 1 ELSE e[m].next
                  /\ ~none /\ m = e[mPos].child => f[m].prev = n + 1
                  /\ none \/ m # e[mPos].child => f[m].prev = e[m].prev
                  /\ m \notin Children(e, mPos) => f[m].prev = e[m].prev
                  /\ f[m].flags = e[m].flags
             /\ f[n + 1].prev = IF none THEN n + 1 ELSE last
<1> DEFINE none == Children(e, mPos) = {}
           first == e[mPos].child
           last == e[first].prev
           new == n + 1
<1>0. /\ n \in Nat /\ e \in [0 .. n -> Element] /\ Children(e, mPos) \subseteq 1 .. n
      /\ first \in 0 .. n /\ Least(Children(e, mPos), first) /\ new \in Nat
      /\ \A m \in 0 .. n : m # new
  BY Links
<1>1. none <=> first = 0
  BY <1>0 DEF Least
<1>2. ~none => /\ last \in Children(e, mPos) /\ last \in 1 .. n
               /\ \A k \in Children(e, mPos) : k <= last
  BY <1>0 DEF LastKnown
<1>3. ~none => first \in Children(e, mPos)
  BY <1>0 DEF Least
<1> HIDE DEF first, last, none
<1>4. CASE none
  <2> DEFINE r == [rec EXCEPT !.prev = new, !.flags = {"first"}]
             g == [e EXCEPT ![mPos].child = new]
             f == With(g, new, r)
  <2>1. AddChild(e, n + 1, rec) = f
    BY <1>1, <1>4, Zenon DEF AddChild, first
  <2>2. /\ r \in Element /\ r.parent = mPos /\ r.child = 0 /\ r.next = 0
        /\ r.start = rec.start /\ r.length = rec.length /\ r.prev = new
    BY <1>0 DEF Element, ElemFlags
  <2>3. /\ g \in [0 .. n -> Element]
        /\ \A m \in 0 .. n : /\ g[m].parent = e[m].parent /\ g[m].next = e[m].next
                             /\ g[m].start = e[m].start /\ g[m].length = e[m].length
                             /\ g[m].prev = e[m].prev /\ g[m].flags = e[m].flags
                             /\ g[m].child = IF m = mPos THEN new ELSE e[m].child
    BY <1>0 DEF Element
  <2> HIDE DEF r, g
  <2>4. f \in [0 .. new -> Element] /\ f[new] = r /\ \A m \in 0 .. n : f[m] = g[m]
    <3>1. n \in Nat /\ g \in [0 .. n -> Element] /\ r \in Element
      BY <1>0, <2>2, <2>3
    <3>2. f \in [0 .. new -> Element]
      BY <3>1, OneMore
    <3>3. DOMAIN g = 0 .. n /\ \A m \in DOMAIN g : m # new
      BY <1>0, <3>1
    <3>4. f[new] = r /\ \A m \in DOMAIN g : m # new => f[m] = g[m]
      BY WithOne
    <3> HIDE DEF f, new
    <3> QED
      BY <3>2, <3>3, <3>4
  <2> HIDE DEF f
  <2>5. \A m \in 0 .. n :
          /\ f[m].parent = e[m].parent /\ f[m].next = e[m].next
          /\ f[m].start = e[m].start /\ f[m].length = e[m].length
          /\ f[m].prev = e[m].prev /\ f[m].flags = e[m].flags
          /\ f[m].child = IF m = mPos THEN new ELSE e[m].child
    BY <2>3, <2>4
  <2> QED
    BY <1>4, <2>1, <2>2, <2>4, <2>5 DEF none
<1>5. CASE ~none
  <2> DEFINE r == [rec EXCEPT !.prev = last]
             h == [e EXCEPT ![last].next = new]
             g == [h EXCEPT ![first].prev = new]
             f == With(g, new, r)
  <2>1. AddChild(e, n + 1, rec) = f
    BY <1>1, <1>5, Zenon DEF AddChild, first, last
  <2>2. /\ r \in Element /\ r.parent = mPos /\ r.child = 0 /\ r.next = 0
        /\ r.start = rec.start /\ r.length = rec.length /\ r.prev = last
    <3>1. last \in Nat
      BY <1>0, <1>2, <1>5
    <3> QED
      BY <3>1 DEF Element
  <2>3. /\ h \in [0 .. n -> Element]
        /\ \A m \in 0 .. n : /\ h[m].parent = e[m].parent /\ h[m].child = e[m].child
                             /\ h[m].start = e[m].start /\ h[m].length = e[m].length
                             /\ h[m].prev = e[m].prev
                             /\ h[m].next = IF m = last THEN new ELSE e[m].next
                             /\ h[m].flags = e[m].flags
    BY <1>0, <1>2, <1>5 DEF Element
  <2> HIDE DEF h
  <2>4. /\ g \in [0 .. n -> Element]
        /\ \A m \in 0 .. n : /\ g[m].parent = h[m].parent /\ g[m].child = h[m].child
                             /\ g[m].start = h[m].start /\ g[m].length = h[m].length
                             /\ g[m].next = h[m].next /\ g[m].flags = h[m].flags
                             /\ g[m].prev = IF m = first THEN new ELSE h[m].prev
    BY <1>0, <2>3 DEF Element
  <2> HIDE DEF r, g
  <2>5. f \in [0 .. new -> Element] /\ f[new] = r /\ \A m \in 0 .. n : f[m] = g[m]
    <3>1. n \in Nat /\ g \in [0 .. n -> Element] /\ r \in Element
      BY <1>0, <2>2, <2>4
    <3>2. f \in [0 .. new -> Element]
      BY <3>1, OneMore
    <3>3. DOMAIN g = 0 .. n /\ \A m \in DOMAIN g : m # new
      BY <1>0, <3>1
    <3>4. f[new] = r /\ \A m \in DOMAIN g : m # new => f[m] = g[m]
      BY WithOne
    <3> HIDE DEF f, new
    <3> QED
      BY <3>2, <3>3, <3>4
  <2> HIDE DEF f
  <2>6. \A m \in 0 .. n :
          /\ f[m].parent = e[m].parent /\ f[m].child = e[m].child
          /\ f[m].start = e[m].start /\ f[m].length = e[m].length
          /\ f[m].next = IF m = last THEN new ELSE e[m].next
          /\ f[m].prev = IF m = first THEN new ELSE e[m].prev
          /\ f[m].flags = e[m].flags
    BY <2>3, <2>4, <2>5
  <2> QED
    BY <1>2, <1>3, <1>5, <2>1, <2>2, <2>5, <2>6 DEF none, first, last
<1> QED
  BY <1>4, <1>5

\* A tree stays one when a last child is added, and its last children stay known.
LEMMA Added ==
  ASSUME NEW n, NEW e, Tree(e, n), mPos \in 0 .. n, LastKnown(e, mPos),
         NEW rec \in Element, rec.parent = mPos, rec.child = 0, rec.next = 0
  PROVE  LET f == AddChild(e, n + 1, rec)
         IN  /\ Tree(f, n + 1)
             /\ \A p \in 0 .. n :
                  Children(f, p) = Children(e, p) \cup (IF p = mPos THEN {n + 1} ELSE {})
             /\ Children(f, n + 1) = {}
             /\ \A p \in 0 .. n : LastKnown(e, p) => LastKnown(f, p)
<1> DEFINE f == AddChild(e, n + 1, rec)
           new == n + 1
           C(p) == Children(e, p)
           none == C(mPos) = {}
           last == e[e[mPos].child].prev
<1>0. /\ n \in Nat /\ e \in [0 .. n -> Element] /\ \A p : C(p) \subseteq 1 .. n
      /\ \A p \in 0 .. n : e[p].child \in 0 .. n /\ Least(C(p), e[p].child)
      /\ \A m \in 1 .. n : /\ e[m].next \in 0 .. n
                           /\ e[m].parent \in 0 .. n /\ e[m].parent < m
                           /\ m \in C(e[m].parent) /\ Least(Behind(e, m), e[m].next)
  BY Links
<1>1. /\ f \in [0 .. new -> Element]
      /\ f[new].parent = mPos /\ f[new].child = 0 /\ f[new].next = 0
      /\ ~none => last \in 1 .. n /\ last \in C(mPos) /\ \A k \in C(mPos) : k <= last
      /\ \A m \in 0 .. n :
           /\ f[m].parent = e[m].parent
           /\ f[m].child = IF none /\ m = mPos THEN new ELSE e[m].child
           /\ f[m].next = IF ~none /\ m = last THEN new ELSE e[m].next
           /\ ~none /\ m = e[mPos].child => f[m].prev = new
           /\ m \notin C(mPos) => f[m].prev = e[m].prev
      /\ none => f[new].prev = new
  BY AddChildLinks
<1> HIDE DEF f
<1>2. new \in Nat /\ DOMAIN f = 0 .. new /\ DOMAIN e = 0 .. n
      /\ (\A m \in 0 .. new : m = new \/ m \in 0 .. n) /\ new \notin 0 .. n /\ new # 0
      /\ (\A m \in 1 .. new : m = new \/ m \in 1 .. n) /\ \A m \in 0 .. n : m < new /\ m \in 0 .. new
  BY <1>0, <1>1
<1>3. ASSUME NEW p \in 0 .. n
      PROVE  Children(f, p) = C(p) \cup (IF p = mPos THEN {new} ELSE {})
  BY <1>1, <1>2 DEF Children
<1>4. Children(f, new) = {}
  <2>1. \A m \in 0 .. n : m # 0 => e[m].parent # new
    BY <1>0, <1>2
  <2> QED
    BY <1>1, <1>2, <2>1 DEF Children
<1>5. \A p \in 0 .. new : Least(Children(f, p), f[p].child)
  <2> TAKE p \in 0 .. new
  <2>1. CASE p = new
    BY <1>1, <1>4, <2>1 DEF Least
  <2>2. CASE p # new /\ p # mPos
    <3>1. p \in 0 .. n /\ Children(f, p) = C(p) /\ f[p].child = e[p].child
      <4>1. p \in 0 .. n
        BY <1>2, <2>2
      <4>2. Children(f, p) = C(p)
        BY <1>3, <2>2, <4>1
      <4>3. f[p].child = e[p].child
        BY <1>1, <2>2, <4>1
      <4> QED
        BY <4>1, <4>2, <4>3
    <3> QED
      BY <1>0, <3>1
  <2>3. CASE p = mPos /\ none
    <3>1. Children(f, p) = {new} /\ f[p].child = new
      BY <1>1, <1>3, <2>3
    <3> QED
      BY <1>2, <3>1 DEF Least
  <2>4. CASE p = mPos /\ ~none
    <3>1. Children(f, p) = C(p) \cup {new} /\ f[p].child = e[p].child /\ C(p) # {}
      BY <1>1, <1>3, <2>4
    <3>2. e[p].child \in C(p) /\ (\A k \in C(p) : e[p].child <= k) /\ e[p].child <= new
      BY <1>0, <1>2, <2>4, <3>1 DEF Least
    <3> QED
      BY <3>1, <3>2 DEF Least
  <2> QED
    BY <1>2, <2>1, <2>2, <2>3, <2>4
<1>6. ASSUME NEW m \in 1 .. new
      PROVE  f[m].parent \in 0 .. new /\ f[m].parent < m /\ Least(Behind(f, m), f[m].next)
  <2>1. CASE m = new
    <3>1. Behind(f, new) = {}
      <4>1. \A k \in Children(f, mPos) : ~(new < k)
        BY <1>0, <1>2, <1>3
      <4> QED
        BY <1>1, <4>1 DEF Behind
    <3> QED
      BY <1>1, <1>2, <2>1, <3>1 DEF Least
  <2>2. CASE m # new /\ e[m].parent # mPos
    <3>1. m \in 1 .. n /\ m \in 0 .. n /\ e[m].parent \in 0 .. n /\ e[m].parent < m
      BY <1>0, <1>2, <2>2
    <3>2. f[m].parent = e[m].parent /\ Children(f, e[m].parent) = C(e[m].parent)
      <4>1. f[m].parent = e[m].parent
        BY <1>1, <3>1
      <4>2. Children(f, e[m].parent) = C(e[m].parent)
        BY <1>3, <2>2, <3>1
      <4> QED
        BY <4>1, <4>2
    <3>3. f[m].next = e[m].next
      <4>1. ~none => m # last
        BY <1>1, <2>2 DEF Children
      <4> QED
        BY <1>1, <3>1, <4>1
    <3>4. Behind(f, m) = Behind(e, m)
      BY <3>2 DEF Behind
    <3> QED
      BY <1>0, <1>2, <3>1, <3>2, <3>3, <3>4
  <2>3. CASE m # new /\ e[m].parent = mPos
    <3>1. m \in 1 .. n /\ m \in 0 .. n /\ e[m].parent \in 0 .. n /\ e[m].parent < m /\ m \in C(mPos)
      BY <1>0, <1>2, <2>3
    <3>2. f[m].parent = mPos /\ Children(f, mPos) = C(mPos) \cup {new} /\ ~none
      BY <1>1, <1>3, <2>3, <3>1
    <3>p. f[m].parent \in 0 .. new /\ f[m].parent < m
      BY <1>2, <2>3, <3>1, <3>2
    <3>3. Behind(f, m) = Behind(e, m) \cup {new}
      BY <1>2, <2>3, <3>1, <3>2 DEF Behind
    <3>4. CASE m = last
      <4>1. Behind(e, m) = {}
        <5>1. \A k \in C(mPos) : ~(m < k)
          BY <1>0, <1>1, <3>1, <3>2, <3>4
        <5> QED
          BY <2>3, <5>1 DEF Behind
      <4>2. f[m].next = new
        BY <1>1, <3>1, <3>2, <3>4
      <4>3. Behind(f, m) = {new} /\ new <= new
        BY <1>2, <3>3, <4>1
      <4>4. Least(Behind(f, m), f[m].next)
        BY <4>2, <4>3 DEF Least
      <4> QED
        BY <3>p, <4>4
    <3>5. CASE m # last
      <4>1. last \in Behind(e, m) /\ f[m].next = e[m].next
        BY <1>0, <1>1, <2>3, <3>1, <3>2, <3>5 DEF Behind
      <4>2. e[m].next \in Behind(e, m) /\ (\A k \in Behind(e, m) : e[m].next <= k)
            /\ e[m].next <= new
        BY <1>0, <1>2, <3>1, <4>1 DEF Least
      <4>3. f[m].next \in Behind(f, m) /\ \A k \in Behind(f, m) : f[m].next <= k
        BY <3>3, <4>1, <4>2
      <4>4. Least(Behind(f, m), f[m].next)
        BY <4>3 DEF Least
      <4> QED
        BY <3>p, <4>4
    <3> QED
      BY <3>4, <3>5
  <2> QED
    BY <2>1, <2>2, <2>3
<1>7. Linked(f)
  <2>1. \A m \in DOMAIN f \ {0} : m \in 1 .. new
    BY <1>2
  <2> QED
    BY <1>2, <1>5, <1>6, <2>1 DEF Linked
<1>8. ASSUME NEW p \in 0 .. n, LastKnown(e, p) PROVE LastKnown(f, p)
  <2>1. CASE p # mPos
    <3>1. Children(f, p) = C(p) /\ f[p].child = e[p].child
      <4>1. Children(f, p) = C(p)
        BY <1>3, <2>1
      <4>2. f[p].child = e[p].child
        BY <1>1, <2>1
      <4> QED
        BY <4>1, <4>2
    <3>2. C(p) # {} => e[p].child \in C(p) /\ e[p].child \in 0 .. n /\ e[p].child \notin C(mPos)
      BY <1>0, <2>1 DEF Least, Children
    <3>3. C(p) # {} => f[e[p].child].prev = e[e[p].child].prev
      BY <1>1, <3>2
    <3> QED
      BY <1>8, <3>1, <3>3 DEF LastKnown
  <2>2. CASE p = mPos
    <3>1. Children(f, p) = C(p) \cup {new} /\ \A k \in Children(f, p) : k <= new
      BY <1>0, <1>2, <1>3, <2>2
    <3>2. f[f[p].child].prev = new
      <4>1. CASE none
        BY <1>1, <2>2, <4>1
      <4>2. CASE ~none
        <5>1. f[p].child = e[p].child /\ e[p].child \in 0 .. n
          BY <1>0, <1>1, <2>2, <4>2
        <5> QED
          BY <1>1, <2>2, <4>2, <5>1
      <4> QED
        BY <4>1, <4>2
    <3> QED
      BY <3>1, <3>2 DEF LastKnown
  <2> QED
    BY <2>1, <2>2
<1> QED
  BY <1>1, <1>2, <1>3, <1>4, <1>7, <1>8 DEF Tree, f

\* An element left unended: its children are handed to its parent.
LeftUnended(e, q, flags) ==
  [Hand(e, q) EXCEPT ![q] = [@ EXCEPT !.flags = flags, !.child = 0, !.length = 1,
                                      !.next = Hand(e, q)[q].child]]

\* What that makes of the links.
LEMMA UnendedLinks ==
  ASSUME NEW n, NEW e, Tree(e, n), NEW q \in 1 .. n, NEW flags \in SUBSET ElemFlags
  PROVE  LET f == LeftUnended(e, q, flags)
         IN  /\ f \in [0 .. n -> Element]
             /\ \A m \in 0 .. n :
                  /\ f[m].parent = IF m \in Children(e, q) THEN e[q].parent ELSE e[m].parent
                  /\ f[m].child = IF m = q THEN 0 ELSE e[m].child
                  /\ f[m].next = IF m = q THEN e[q].child ELSE e[m].next
                  /\ f[m].length = IF m = q THEN 1 ELSE e[m].length
                  /\ f[m].start = e[m].start
                  /\ m \notin Children(e, q) => f[m].prev = e[m].prev
<1> DEFINE K == Children(e, q)
           h == [m \in 0 .. n |->
                  IF m \in K
                  THEN [e[m] EXCEPT !.parent = e[q].parent, !.prev = IF m = e[q].child THEN q ELSE @]
                  ELSE e[m]]
           f == [h EXCEPT ![q] = [@ EXCEPT !.flags = flags, !.child = 0, !.length = 1,
                                           !.next = h[q].child]]
<1>0. n \in Nat /\ e \in [0 .. n -> Element] /\ DOMAIN e = 0 .. n /\ q \in 0 .. n /\ q \in Nat
  BY Links
<1>1. ToSet(Kids(e, q)) = K
  BY <1>0, KidsAre
<1>2. Hand(e, q) = h
  BY <1>0, <1>1, Zenon DEF Hand
<1>3. LeftUnended(e, q, flags) = f
  BY <1>2, Zenon DEF LeftUnended
<1>4. \A m \in 0 .. n : e[m] \in Element
  BY <1>0
<1>5. q \notin K
  BY Links DEF Children
<1> HIDE DEF K
<1>6. ASSUME NEW m \in 0 .. n
      PROVE  /\ h[m] \in Element
             /\ h[m].parent = IF m \in K THEN e[q].parent ELSE e[m].parent
             /\ h[m].child = e[m].child /\ h[m].next = e[m].next
             /\ h[m].length = e[m].length /\ h[m].start = e[m].start
             /\ m \notin K => h[m].prev = e[m].prev
  <2>1. e[m] \in Element /\ e[q].parent \in Nat
    BY <1>0, <1>4 DEF Element
  <2>2. CASE m \in K
    <3> DEFINE a == IF m = e[q].child THEN q ELSE e[m].prev
               r == [e[m] EXCEPT !.parent = e[q].parent, !.prev = a]
    <3>1. h[m] = r
      BY <2>2
    <3>2. a \in Nat
      BY <1>0, <2>1 DEF Element
    <3> HIDE DEF h, a
    <3> QED
      BY <2>1, <2>2, <3>1, <3>2 DEF Element
  <2>3. CASE m \notin K
    <3>1. h[m] = e[m]
      BY <2>3
    <3> QED
      BY <2>1, <2>3, <3>1
  <2> QED
    BY <2>2, <2>3
<1>7. h \in [0 .. n -> Element]
  <2>1. \A m \in 0 .. n : h[m] \in Element
    BY <1>6
  <2> QED
    BY <2>1
<1> HIDE DEF h
<1>8. \A m \in 0 .. n : m # q => f[m] = h[m]
  BY <1>7
<1>9. /\ f \in [0 .. n -> Element] /\ f[q].child = 0 /\ f[q].next = h[q].child
      /\ f[q].length = 1 /\ f[q].start = h[q].start /\ f[q].parent = h[q].parent
      /\ f[q].prev = h[q].prev
  <2>1. h[q] \in Element /\ h[q].child \in Nat
    BY <1>0, <1>7 DEF Element
  <2> DEFINE r == [h[q] EXCEPT !.flags = flags, !.child = 0, !.length = 1, !.next = h[q].child]
  <2>2. /\ r \in Element /\ r.child = 0 /\ r.next = h[q].child /\ r.length = 1
        /\ r.start = h[q].start /\ r.parent = h[q].parent /\ r.prev = h[q].prev
    BY <2>1 DEF Element
  <2>3. f = [h EXCEPT ![q] = r]
    OBVIOUS
  <2> HIDE DEF f, r
  <2> QED
    BY <1>0, <1>7, <2>2, <2>3
<1> HIDE DEF f
<1>10. \A m \in 0 .. n :
         /\ f[m].parent = IF m \in K THEN e[q].parent ELSE e[m].parent
         /\ f[m].child = IF m = q THEN 0 ELSE e[m].child
         /\ f[m].next = IF m = q THEN e[q].child ELSE e[m].next
         /\ f[m].length = IF m = q THEN 1 ELSE e[m].length
         /\ f[m].start = e[m].start
         /\ m \notin K => f[m].prev = e[m].prev
  <2> TAKE m \in 0 .. n
  <2>1. CASE m = q
    BY <1>0, <1>5, <1>6, <1>9, <2>1
  <2>2. CASE m # q
    BY <1>6, <1>8, <2>2
  <2> QED
    BY <2>1, <2>2
<1> QED
  BY <1>3, <1>9, <1>10 DEF K

\* A tree stays one when the children of the last child of an element are
\* handed to that element.
LEMMA Handed ==
  ASSUME NEW n, NEW e, Tree(e, n), NEW q \in 1 .. n, NEW flags \in SUBSET ElemFlags,
         \A c \in Children(e, e[q].parent) : c <= q
  PROVE  LET f == LeftUnended(e, q, flags)
             o == e[q].parent
         IN  /\ Tree(f, n)
             /\ \A p \in 0 .. n : Children(f, p) = IF p = q THEN {} ELSE
                                  IF p = o THEN Children(e, o) \cup Children(e, q)
                                  ELSE Children(e, p)
             /\ \A p \in 0 .. n : p # q /\ p # o /\ LastKnown(e, p) => LastKnown(f, p)
<1> DEFINE f == LeftUnended(e, q, flags)
           o == e[q].parent
           C(p) == Children(e, p)
           K == C(q)
<1>0. /\ n \in Nat /\ e \in [0 .. n -> Element] /\ \A p : C(p) \subseteq 1 .. n
      /\ \A p \in 0 .. n : e[p].child \in 0 .. n /\ Least(C(p), e[p].child)
      /\ \A m \in 1 .. n : /\ e[m].next \in 0 .. n
                           /\ e[m].parent \in 0 .. n /\ e[m].parent < m
                           /\ m \in C(e[m].parent) /\ Least(Behind(e, m), e[m].next)
  BY Links
<1>1. /\ f \in [0 .. n -> Element]
      /\ \A m \in 0 .. n :
           /\ f[m].parent = IF m \in K THEN o ELSE e[m].parent
           /\ f[m].child = IF m = q THEN 0 ELSE e[m].child
           /\ f[m].next = IF m = q THEN e[q].child ELSE e[m].next
           /\ m \notin K => f[m].prev = e[m].prev
  BY UnendedLinks
<1> HIDE DEF f
<1>2. /\ DOMAIN f = 0 .. n /\ DOMAIN e = 0 .. n /\ o \in 0 .. n /\ o < q /\ q \in 0 .. n
      /\ o # q /\ q \in C(o) /\ \A m \in 1 .. n : m \in 0 .. n /\ m # 0
  BY <1>0, <1>1
<1>3. \A m \in 1 .. n : m \in K <=> e[m].parent = q
  BY <1>2 DEF Children
<1>k. \A k \in K : k \in 1 .. n /\ q < k /\ k \notin C(o)
  <2> TAKE k \in K
  <2>1. k \in 1 .. n /\ e[k].parent = q
    BY <1>0, <1>3
  <2> QED
    BY <1>0, <1>2, <2>1 DEF Children
<1>4. ASSUME NEW p \in 0 .. n
      PROVE  Children(f, p) = IF p = q THEN {} ELSE IF p = o THEN C(o) \cup K ELSE C(p)
  <2>1. \A m \in 1 .. n : f[m].parent = IF m \in K THEN o ELSE e[m].parent
    BY <1>1, <1>2
  <2>2. \A m : m \in Children(f, p) <=> m \in 1 .. n /\ f[m].parent = p
    BY <1>2 DEF Children
  <2>3. \A r, m : m \in C(r) <=> m \in 1 .. n /\ e[m].parent = r
    BY <1>2 DEF Children
  <2> HIDE DEF C, K
  <2>4. CASE p = q
    <3>1. \A m : m \notin Children(f, p)
      BY <1>2, <1>3, <2>1, <2>2, <2>4
    <3> QED
      BY <2>4, <3>1
  <2>5. CASE p = o
    <3>1. \A m : m \in Children(f, p) <=> m \in C(o) \cup K
      BY <1>2, <1>3, <1>k, <2>1, <2>2, <2>3, <2>5
    <3> QED
      BY <1>2, <2>5, <3>1
  <2>6. CASE p # q /\ p # o
    <3>1. \A m : m \in Children(f, p) <=> m \in C(p)
      BY <1>3, <2>1, <2>2, <2>3, <2>6
    <3> QED
      BY <2>6, <3>1
  <2> QED
    BY <2>4, <2>5, <2>6
<1>5. \A p \in 0 .. n : Least(Children(f, p), f[p].child)
  <2> TAKE p \in 0 .. n
  <2>1. CASE p = q
    BY <1>1, <1>4, <2>1 DEF Least
  <2>2. CASE p = o
    <3>1. Children(f, p) = C(o) \cup K /\ f[p].child = e[o].child
      BY <1>1, <1>2, <1>4, <2>2
    <3>2. e[o].child \in C(o) /\ \A k \in C(o) : e[o].child <= k
      BY <1>0, <1>2 DEF Least
    <3>3. \A k \in K : e[o].child <= k
      <4>1. e[o].child <= q /\ e[o].child \in 0 .. n
        BY <1>0, <1>2, <3>2
      <4> QED
        BY <1>0, <1>k, <4>1
    <3>4. f[p].child \in Children(f, p) /\ \A k \in Children(f, p) : f[p].child <= k
      BY <3>1, <3>2, <3>3
    <3> QED
      BY <3>4 DEF Least
  <2>3. CASE p # q /\ p # o
    <3>1. Children(f, p) = C(p) /\ f[p].child = e[p].child
      BY <1>1, <1>4, <2>3
    <3> QED
      BY <1>0, <3>1
  <2> QED
    BY <2>1, <2>2, <2>3
<1>6. ASSUME NEW m \in 1 .. n
      PROVE  f[m].parent \in 0 .. n /\ f[m].parent < m /\ Least(Behind(f, m), f[m].next)
  <2>0. m \in 0 .. n /\ m \in Nat
    BY <1>2
  <2>1. CASE m = q
    <3>1. f[q].parent = o /\ f[q].next = e[q].child /\ Children(f, o) = C(o) \cup K
      BY <1>1, <1>2, <1>3, <1>4
    <3>2. \A k \in C(o) : ~(q < k)
      BY <1>0, <1>2
    <3>3. Behind(f, q) = K
      BY <1>k, <3>1, <3>2 DEF Behind
    <3>4. Least(K, e[q].child)
      BY <1>0, <1>2
    <3> QED
      BY <1>2, <2>1, <3>1, <3>3, <3>4
  <2>2. CASE m \in K
    <3>1. f[m].parent = o /\ f[m].next = e[m].next /\ Children(f, o) = C(o) \cup K
      BY <1>1, <1>2, <1>4, <1>k, <2>0, <2>2
    <3>2. e[m].parent = q /\ q < m /\ q \in Nat
      BY <1>2, <1>3, <1>k, <2>2
    <3>3. \A k \in C(o) : ~(m < k)
      <4> TAKE k \in C(o)
      <4>1. k <= q /\ k \in 1 .. n
        BY <1>0
      <4> QED
        BY <2>0, <3>2, <4>1
    <3>4. Behind(f, m) = Behind(e, m)
      BY <3>1, <3>2, <3>3 DEF Behind
    <3>5. o < m
      BY <1>2, <2>0, <3>2
    <3> QED
      BY <1>0, <1>2, <3>1, <3>4, <3>5
  <2>3. CASE m # q /\ m \notin K
    <3>1. f[m].parent = e[m].parent /\ f[m].next = e[m].next /\ e[m].parent # q
      BY <1>1, <1>3, <2>0, <2>3
    <3>2. CASE e[m].parent # o
      <4>1. Children(f, e[m].parent) = C(e[m].parent)
        BY <1>0, <1>4, <3>1, <3>2
      <4>2. Behind(f, m) = Behind(e, m)
        BY <3>1, <4>1 DEF Behind
      <4> QED
        BY <1>0, <3>1, <4>2
    <3>3. CASE e[m].parent = o
      <4>1. m \in C(o) /\ Children(f, o) = C(o) \cup K /\ m < q
        <5>1. m \in C(o)
          BY <1>0, <3>3
        <5>2. m <= q
          BY <5>1
        <5> QED
          BY <1>2, <1>4, <2>0, <2>3, <5>1, <5>2
      <4>2. q \in Behind(e, m)
        BY <1>2, <3>3, <4>1 DEF Behind
      <4>3. e[m].next \in Behind(e, m) /\ \A k \in Behind(e, m) : e[m].next <= k
        BY <1>0, <4>2 DEF Least
      <4>4. e[m].next <= q /\ e[m].next \in 0 .. n
        BY <1>0, <4>2, <4>3
      <4>5. Behind(f, m) = Behind(e, m) \cup K
        <5>1. \A k \in K : m < k
          BY <1>0, <1>k, <2>0, <4>1
        <5> QED
          BY <3>1, <3>3, <4>1, <5>1 DEF Behind
      <4>6. \A k \in K : e[m].next <= k
        BY <1>0, <1>k, <4>4
      <4>7. f[m].next \in Behind(f, m) /\ \A k \in Behind(f, m) : f[m].next <= k
        BY <3>1, <4>3, <4>5, <4>6
      <4>8. Least(Behind(f, m), f[m].next)
        BY <4>7 DEF Least
      <4> QED
        BY <1>0, <3>1, <4>8
    <3> QED
      BY <3>2, <3>3
  <2> QED
    BY <2>1, <2>2, <2>3
<1>7. Linked(f)
  <2>1. \A m \in DOMAIN f \ {0} : m \in 1 .. n
    BY <1>2
  <2> QED
    BY <1>2, <1>5, <1>6, <2>1 DEF Linked
<1>8. ASSUME NEW p \in 0 .. n, p # q, p # o, LastKnown(e, p) PROVE LastKnown(f, p)
  <2>1. Children(f, p) = C(p) /\ f[p].child = e[p].child
    BY <1>1, <1>4, <1>8
  <2>2. C(p) # {} => e[p].child \in C(p) /\ e[p].child \in 1 .. n /\ e[p].child \notin K
    BY <1>0, <1>8 DEF Least, Children
  <2>3. C(p) # {} => f[e[p].child].prev = e[e[p].child].prev
    BY <1>1, <1>2, <2>2
  <2> QED
    BY <1>8, <2>1, <2>3 DEF LastKnown
<1> QED
  BY <1>0, <1>1, <1>4, <1>7, <1>8 DEF Tree, f

\* The way without its last step.
Shorter(w, d) == [k \in 0 .. d - 1 |-> w[k]]

\* It leads to the parent of what was open.
LEMMA WayShorter ==
  ASSUME NEW n, NEW e, Tree(e, n), NEW d \in Nat \ {0}, NEW w, NEW pos, Way(w, e, d, pos)
  PROVE  /\ pos \in 1 .. n /\ e[pos].parent = w[d - 1] /\ w[d - 1] \in 0 .. n
         /\ \A c \in Children(e, e[pos].parent) : c <= pos
         /\ Way(Shorter(w, d), e, d - 1, w[d - 1])
         /\ \A k \in 0 .. d - 1 : Shorter(w, d)[k] = w[k] /\ k \in 0 .. d
<1>0. /\ n \in Nat /\ e \in [0 .. n -> Element] /\ DOMAIN e = 0 .. n
      /\ \A p : Children(e, p) \subseteq 1 .. n
  BY Links
<1>1. d \in 1 .. d /\ d - 1 \in 0 .. d - 1 /\ d - 1 \in Nat /\ \A k \in 0 .. d - 1 : k \in 0 .. d
  OBVIOUS
<1>2. \A k \in 0 .. d - 1 : Shorter(w, d)[k] = w[k] /\ k \in 0 .. d
  BY <1>1 DEF Shorter
<1>3. pos \in Children(e, w[d - 1]) /\ (\A c \in Children(e, w[d - 1]) : c <= pos)
      /\ w[d - 1] \in 0 .. n
  BY <1>0, <1>1 DEF Way
<1>4. pos \in 1 .. n /\ e[pos].parent = w[d - 1]
  BY <1>0, <1>3 DEF Children
<1>5. Way(Shorter(w, d), e, d - 1, w[d - 1])
  <2>1. Shorter(w, d) \in [0 .. d - 1 -> DOMAIN e]
    BY <1>1 DEF Way, Shorter
  <2>2. \A k \in 1 .. d - 1 : k \in 1 .. d /\ k \in 0 .. d - 1 /\ k - 1 \in 0 .. d - 1
    OBVIOUS
  <2>3. \A k \in 1 .. d - 1 : /\ Shorter(w, d)[k] \in Children(e, Shorter(w, d)[k - 1])
                              /\ \A c \in Children(e, Shorter(w, d)[k - 1]) : c <= Shorter(w, d)[k]
    BY <1>2, <2>2 DEF Way
  <2>4. \A j, k \in 0 .. d - 1 : j < k => Shorter(w, d)[j] < Shorter(w, d)[k]
    BY <1>2 DEF Way
  <2>5. Shorter(w, d)[0] = 0 /\ Shorter(w, d)[d - 1] = w[d - 1]
    BY <1>1, <1>2 DEF Way
  <2> QED
    BY <2>1, <2>3, <2>4, <2>5 DEF Way
<1> QED
  BY <1>2, <1>3, <1>4, <1>5

\* The way with one step more.
Longer(w, d, new) == [k \in 0 .. d + 1 |-> IF k = d + 1 THEN new ELSE w[k]]

\* An element begins.
LEMMA ElementAdded ==
  ASSUME NEW n, NEW e, Tree(e, n), NEW len \in Nat, TextOrder(e, len),
         NEW d \in Nat, NEW w, Way(w, e, d, mPos), Known(w, e, d), Closed(w, e, d),
         NEW rec \in Element, rec.parent = mPos, rec.child = 0, rec.next = 0,
         rec.start = len + 1, rec.length = 1
  PROVE  LET f == AddChild(e, n + 1, rec)
             v == Longer(w, d, n + 1)
         IN  /\ Tree(f, n + 1) /\ TextOrder(f, len + 1)
             /\ Way(w, f, d, mPos) /\ Known(w, f, d) /\ Closed(w, f, d)
             /\ Way(v, f, d + 1, n + 1) /\ Known(v, f, d + 1) /\ Closed(v, f, d + 1)
<1> DEFINE f == AddChild(e, n + 1, rec)
           new == n + 1
           v == Longer(w, d, new)
<1>0. /\ n \in Nat /\ e \in [0 .. n -> Element] /\ DOMAIN e = 0 .. n
      /\ \A p : Children(e, p) \subseteq 1 .. n
  BY Links
<1>1. /\ w \in [0 .. d -> 0 .. n] /\ w[0] = 0 /\ w[d] = mPos /\ mPos \in 0 .. n /\ d \in 0 .. d
      /\ \A j, k \in 0 .. d : j < k => w[j] < w[k]
      /\ \A k \in 1 .. d : /\ w[k] \in Children(e, w[k - 1])
                           /\ \A c \in Children(e, w[k - 1]) : c <= w[k]
  BY <1>0 DEF Way
<1>2. LastKnown(e, mPos)
  BY <1>1 DEF Known
<1>3. /\ Tree(f, new)
      /\ \A p \in 0 .. n :
           Children(f, p) = Children(e, p) \cup (IF p = mPos THEN {new} ELSE {})
      /\ Children(f, new) = {}
      /\ \A p \in 0 .. n : LastKnown(e, p) => LastKnown(f, p)
  BY <1>1, <1>2, Added
<1>4. /\ f \in [0 .. new -> Element] /\ f[new].start = len + 1 /\ f[new].length = 1
      /\ f[new].parent = mPos
      /\ \A m \in 0 .. n : /\ f[m].start = e[m].start /\ f[m].length = e[m].length
                           /\ f[m].parent = e[m].parent
  BY <1>1, <1>2, AddChildLinks
<1> HIDE DEF f
<1>5. /\ new \in Nat /\ DOMAIN f = 0 .. new /\ new # 0 /\ new \in DOMAIN f
      /\ (\A m \in 0 .. n : m < new /\ m # new /\ m \in DOMAIN f)
      /\ \A m \in DOMAIN f : m # new => m \in 0 .. n
  BY <1>0, <1>4
<1>e. \A m \in 0 .. n : e[m].start \in Nat /\ e[m].length \in Nat /\ f[m] \in Element
  BY <1>0, <1>4, <1>5 DEF Element
<1>6. TextOrder(f, len + 1)
  <2>1. ASSUME NEW m \in DOMAIN f \ {0}
        PROVE  f[m].start <= len + 1 /\ End(f, m) <= (len + 1) + 1
    <3>1. CASE m = new
      BY <1>4, <3>1 DEF End
    <3>2. CASE m # new
      <4>1. m \in DOMAIN e \ {0} /\ m \in 0 .. n
        BY <1>0, <1>5, <3>2
      <4>2. e[m].start <= len /\ e[m].start + e[m].length <= len + 1
        BY <4>1 DEF TextOrder, End
      <4> QED
        BY <1>4, <1>e, <4>1, <4>2 DEF End
    <3> QED
      BY <3>1, <3>2
  <2>2. ASSUME NEW m \in DOMAIN f \ {0}, NEW k \in DOMAIN f \ {0}, m < k
        PROVE  f[m].start < f[k].start
    <3>1. m \in 0 .. n /\ m \in DOMAIN e \ {0}
      BY <1>0, <1>5, <2>2
    <3>2. CASE k = new
      BY <1>4, <1>e, <3>1, <3>2 DEF TextOrder
    <3>3. CASE k # new
      <4>1. k \in 0 .. n /\ k \in DOMAIN e \ {0}
        BY <1>0, <1>5, <3>3
      <4> QED
        BY <1>4, <2>2, <3>1, <4>1 DEF TextOrder
    <3> QED
      BY <3>2, <3>3
  <2> QED
    BY <2>1, <2>2 DEF TextOrder
<1>7. ASSUME NEW k \in 1 .. d
      PROVE  /\ w[k] \in Children(f, w[k - 1]) /\ \A c \in Children(f, w[k - 1]) : c <= w[k]
             /\ k - 1 \in 0 .. d /\ k \in 0 .. d
  <2>1. k - 1 \in 0 .. d /\ k \in 0 .. d /\ k - 1 < d
    OBVIOUS
  <2>2. w[k - 1] \in 0 .. n /\ w[k - 1] < mPos
    BY <1>1, <2>1
  <2>x. w[k - 1] # mPos
    <3>1. mPos \in 0 .. n /\ w[k - 1] \in 0 .. n /\ w[k - 1] < mPos
      BY <1>1, <2>2
    <3> QED
      BY <3>1
  <2>3. Children(f, w[k - 1]) = Children(e, w[k - 1])
    BY <1>3, <2>2, <2>x
  <2> QED
    BY <1>1, <2>1, <2>3
<1>8. Way(w, f, d, mPos)
  <2>1. w \in [0 .. d -> DOMAIN f]
    BY <1>1, <1>5
  <2> QED
    BY <1>1, <1>7, <2>1 DEF Way
<1>9. Known(w, f, d)
  <2> SUFFICES ASSUME NEW k \in 0 .. d PROVE LastKnown(f, w[k])
    BY DEF Known
  <2>1. w[k] \in 0 .. n /\ LastKnown(e, w[k])
    BY <1>1 DEF Known
  <2> QED
    BY <1>3, <2>1
<1>10. ASSUME NEW x \in DOMAIN f \ {0}, x # mPos, x \in 0 .. n => Within(e, x)
       PROVE  Within(f, x)
  <2>1. CASE x = new
    BY <1>3, <2>1 DEF Within
  <2>2. CASE x # new
    <3>1. x \in 0 .. n /\ Children(f, x) = Children(e, x)
      BY <1>3, <1>5, <1>10, <2>2
    <3>2. Within(e, x)
      BY <1>10, <3>1
    <3>3. \A k \in Children(e, x) : k \in 0 .. n
      BY <1>0
    <3> QED
      BY <1>4, <3>1, <3>2, <3>3 DEF Within, End
  <2> QED
    BY <2>1, <2>2
<1>11. Closed(w, f, d)
  <2> SUFFICES ASSUME NEW x \in DOMAIN f \ {0}, \A k \in 0 .. d : w[k] # x
               PROVE  Within(f, x)
    BY DEF Closed
  <2>1. x # mPos
    BY <1>1
  <2>2. x \in 0 .. n => Within(e, x)
    BY <1>0 DEF Closed
  <2> QED
    BY <1>10, <2>1, <2>2
<1>12. /\ \A k \in 0 .. d : v[k] = w[k] /\ k \in 0 .. d + 1
       /\ v[d + 1] = new /\ d + 1 \in 0 .. d + 1 /\ v \in [0 .. d + 1 -> 0 .. new]
       /\ \A k \in 0 .. d + 1 : k = d + 1 \/ k \in 0 .. d
  BY <1>1, <1>5 DEF Longer
<1> HIDE DEF v
<1>13. Way(v, f, d + 1, new)
  <2>1. \A k \in 1 .. d + 1 : /\ v[k] \in Children(f, v[k - 1])
                              /\ \A c \in Children(f, v[k - 1]) : c <= v[k]
    <3> TAKE k \in 1 .. d + 1
    <3>1. CASE k = d + 1
      <4>1. v[k] = new /\ v[k - 1] = mPos
        BY <1>1, <1>12, <3>1
      <4>2. Children(f, mPos) = Children(e, mPos) \cup {new}
        BY <1>1, <1>3
      <4>3. \A c \in Children(e, mPos) : c <= new
        BY <1>0, <1>5
      <4> QED
        BY <1>5, <4>1, <4>2, <4>3
    <3>2. CASE k # d + 1
      <4>1. k \in 1 .. d
        BY <3>2
      <4>2. v[k] = w[k] /\ v[k - 1] = w[k - 1]
        BY <1>7, <1>12, <4>1
      <4> QED
        BY <1>7, <4>1, <4>2
    <3> QED
      BY <3>1, <3>2
  <2>2. \A j, k \in 0 .. d + 1 : j < k => v[j] < v[k]
    <3> TAKE j, k \in 0 .. d + 1
    <3> HAVE j < k
    <3>1. j \in 0 .. d
      OBVIOUS
    <3>2. v[j] = w[j] /\ w[j] < new
      BY <1>1, <1>5, <1>12, <3>1
    <3>3. k = d + 1 \/ (k \in 0 .. d /\ v[k] = w[k])
      BY <1>12
    <3> QED
      BY <1>1, <1>12, <3>1, <3>2, <3>3
  <2>3. v[0] = 0 /\ v \in [0 .. d + 1 -> DOMAIN f]
    BY <1>1, <1>5, <1>12
  <2> QED
    BY <1>12, <2>1, <2>2, <2>3 DEF Way
<1>14. Known(v, f, d + 1)
  <2> SUFFICES ASSUME NEW k \in 0 .. d + 1 PROVE LastKnown(f, v[k])
    BY DEF Known
  <2>1. CASE k = d + 1
    BY <1>3, <1>12, <2>1 DEF LastKnown
  <2>2. CASE k # d + 1
    BY <1>9, <1>12, <2>2 DEF Known
  <2> QED
    BY <2>1, <2>2
<1>15. Closed(v, f, d + 1)
  <2> SUFFICES ASSUME NEW x \in DOMAIN f \ {0}, \A k \in 0 .. d + 1 : v[k] # x
               PROVE  Within(f, x)
    BY DEF Closed
  <2>1. \A k \in 0 .. d : w[k] # x
    BY <1>12
  <2> QED
    BY <1>11, <2>1 DEF Closed
<1> QED
  BY <1>3, <1>6, <1>8, <1>9, <1>11, <1>13, <1>14, <1>15 DEF f, v

\* An end tag sets the length of the element it closes.
Sized(e, p, len) == [e EXCEPT ![p].length = len + 1 - e[p].start + 1]

\* It keeps the tree, and the element reaches up to the end tag.
LEMMA LengthSet ==
  ASSUME NEW n, NEW e, Tree(e, n), NEW len \in Nat, TextOrder(e, len),
         NEW d \in Nat, NEW w, NEW pos, Way(w, e, d, pos), Closed(w, e, d), NEW l \in 1 .. d
  PROVE  LET p == w[l]
             f == Sized(e, p, len)
         IN  /\ Tree(f, n) /\ Same(e, f) /\ TextOrder(f, len + 1) /\ Closed(w, f, d)
             /\ f[p].start + f[p].length = (len + 1) + 1
<1> DEFINE p == w[l]
           f == Sized(e, p, len)
<1>0. n \in Nat /\ e \in [0 .. n -> Element] /\ Linked(e) /\ DOMAIN e = 0 .. n
  BY Links
<1>1. /\ l \in 0 .. d /\ l - 1 \in 0 .. d /\ p \in 1 .. n /\ p \in 0 .. n
      /\ p \in DOMAIN e \ {0} /\ e[p].parent = w[l - 1]
  <2>1. l \in 0 .. d /\ l - 1 \in 0 .. d
    OBVIOUS
  <2>2. p \in Children(e, w[l - 1])
    BY DEF Way
  <2> QED
    BY <1>0, <2>1, <2>2 DEF Children
<1> HIDE DEF p
<1>2. e[p] \in Element /\ e[p].start \in Nat /\ e[p].start <= len
  BY <1>0, <1>1 DEF TextOrder, Element
<1>3. len + 1 - e[p].start + 1 \in Nat
  BY <1>2
<1>4. /\ f \in [0 .. n -> Element]
      /\ \A m \in 0 .. n : /\ f[m].parent = e[m].parent /\ f[m].child = e[m].child
                           /\ f[m].next = e[m].next /\ f[m].prev = e[m].prev
                           /\ f[m].start = e[m].start
                           /\ f[m].length = IF m = p THEN len + 1 - e[p].start + 1
                                            ELSE e[m].length
  BY <1>0, <1>3 DEF Element, Sized
<1> HIDE DEF f
<1>5. Same(e, f) /\ DOMAIN f = 0 .. n
  BY <1>0, <1>4 DEF Same
<1>6. Tree(f, n)
  BY <1>0, <1>4, <1>5, SameLinked DEF Tree
<1>7. f[p].start + f[p].length = (len + 1) + 1
  BY <1>1, <1>2, <1>4
<1>8. \A m \in 0 .. n : e[m].start \in Nat /\ e[m].length \in Nat
  BY <1>0 DEF Element
<1>9. TextOrder(f, len + 1)
  <2>1. ASSUME NEW m \in DOMAIN f \ {0}
        PROVE  f[m].start <= len + 1 /\ End(f, m) <= (len + 1) + 1
    <3>1. m \in 0 .. n /\ m \in DOMAIN e \ {0} /\ e[m].start <= len
          /\ e[m].start + e[m].length <= len + 1
      BY <1>0, <1>5 DEF TextOrder, End
    <3>2. CASE m = p
      BY <1>4, <1>7, <1>8, <3>1, <3>2 DEF End
    <3>3. CASE m # p
      BY <1>4, <1>8, <3>1, <3>3 DEF End
    <3> QED
      BY <3>2, <3>3
  <2>2. ASSUME NEW m \in DOMAIN f \ {0}, NEW k \in DOMAIN f \ {0}, m < k
        PROVE  f[m].start < f[k].start
    BY <1>0, <1>4, <1>5, <2>2 DEF TextOrder
  <2> QED
    BY <2>1, <2>2 DEF TextOrder
<1>10. Closed(w, f, d)
  <2> SUFFICES ASSUME NEW x \in DOMAIN f \ {0}, \A k \in 0 .. d : w[k] # x
               PROVE  Within(f, x)
    BY DEF Closed
  <2>1. x \in 0 .. n /\ Within(e, x) /\ x # p /\ x # e[p].parent
    BY <1>0, <1>1, <1>5 DEF Closed, p
  <2>2. Children(f, x) = Children(e, x)
    BY <1>5, SameChildren
  <2>3. \A k \in Children(e, x) : k \in 0 .. n /\ k # p
    BY <1>0, <2>1 DEF Children
  <2> QED
    BY <1>4, <2>1, <2>2, <2>3 DEF Within, End
<1> QED
  BY <1>5, <1>6, <1>7, <1>9, <1>10 DEF f, p

\* A flag moves nothing.
LEMMA Flagged ==
  ASSUME NEW n, NEW e, Tree(e, n), NEW k \in 0 .. n, NEW x \in ElemFlags
  PROVE  LET f == Flag(e, k, x)
         IN  /\ Tree(f, n)
             /\ \A m \in 0 .. n : f[m].start = e[m].start /\ f[m].length = e[m].length
                                  /\ f[m].parent = e[m].parent
             /\ \A len : TextOrder(e, len) => TextOrder(f, len)
             /\ \A w, d, pos : Way(w, e, d, pos) => Way(w, f, d, pos)
             /\ \A m \in 0 .. n : LastKnown(e, m) => LastKnown(f, m)
             /\ \A m \in 0 .. n : Within(e, m) => Within(f, m)
             /\ \A w, d : Closed(w, e, d) => Closed(w, f, d)
<1> DEFINE f == Flag(e, k, x)
<1>0. n \in Nat /\ e \in [0 .. n -> Element] /\ Linked(e) /\ DOMAIN e = 0 .. n
  BY Links
<1>1. f \in [0 .. n -> Element] /\ Same(e, f) /\ \A m \in 0 .. n : f[m].length = e[m].length
  <2> DEFINE h == [e EXCEPT ![k].flags = @ \cup {x}]
  <2>1. /\ h \in [0 .. n -> Element]
        /\ \A m \in 0 .. n : /\ h[m].parent = e[m].parent /\ h[m].child = e[m].child
                             /\ h[m].next = e[m].next /\ h[m].prev = e[m].prev
                             /\ h[m].start = e[m].start /\ h[m].length = e[m].length
    BY <1>0 DEF Element
  <2>2. f = h
    BY DEF Flag
  <2> HIDE DEF f, h
  <2> QED
    BY <1>0, <2>1, <2>2 DEF Same
<1> HIDE DEF f
<1>2. /\ DOMAIN f = 0 .. n
      /\ \A m \in 0 .. n : f[m].start = e[m].start /\ f[m].parent = e[m].parent
      /\ \A m : Children(f, m) = Children(e, m) /\ \A c \in Children(e, m) : c \in 0 .. n
  <2>1. \A m : Children(f, m) = Children(e, m)
    BY <1>1, SameChildren
  <2> QED
    BY <1>0, <1>1, <2>1 DEF Same, Children
<1>3. Tree(f, n)
  BY <1>0, <1>1, SameLinked DEF Tree
<1>4. ASSUME NEW len, TextOrder(e, len) PROVE TextOrder(f, len)
  BY <1>0, <1>1, <1>2, <1>4 DEF TextOrder, End
<1>5. ASSUME NEW m \in 0 .. n, Within(e, m) PROVE Within(f, m)
  BY <1>1, <1>2, <1>5 DEF Within, End
<1>6. ASSUME NEW w, NEW d, Closed(w, e, d) PROVE Closed(w, f, d)
  BY <1>0, <1>2, <1>5, <1>6 DEF Closed
<1>7. /\ \A w, d, pos : Way(w, e, d, pos) => Way(w, f, d, pos)
      /\ \A m \in 0 .. n : LastKnown(e, m) => LastKnown(f, m)
  BY <1>0, <1>1, SameWay
<1> QED
  BY <1>1, <1>2, <1>3, <1>4, <1>5, <1>6, <1>7 DEF f

\* The open element is left unended.
LEMMA ElementUnended ==
  ASSUME NEW n, NEW e, Tree(e, n), NEW len \in Nat, TextOrder(e, len),
         NEW d \in Nat \ {0}, NEW w, NEW q, Way(w, e, d, q),
         NEW g \in Int, g < d - 1, Known(w, e, g), Closed(w, e, d),
         NEW flags \in SUBSET ElemFlags
  PROVE  LET f == LeftUnended(e, q, flags)
             v == Shorter(w, d)
         IN  /\ Tree(f, n) /\ TextOrder(f, len)
             /\ Way(v, f, d - 1, w[d - 1]) /\ Known(v, f, g) /\ Closed(v, f, d - 1)
             /\ \A k \in 1 .. d - 1 : End(f, v[k]) = End(e, w[k])
<1> DEFINE f == LeftUnended(e, q, flags)
           v == Shorter(w, d)
           o == w[d - 1]
<1>0. /\ n \in Nat /\ e \in [0 .. n -> Element] /\ DOMAIN e = 0 .. n
      /\ \A p : Children(e, p) \subseteq 1 .. n
  BY Links
<1>1. /\ q \in 1 .. n /\ e[q].parent = o /\ o \in 0 .. n
      /\ \A c \in Children(e, o) : c <= q
      /\ Way(v, e, d - 1, o)
      /\ \A k \in 0 .. d - 1 : v[k] = w[k] /\ k \in 0 .. d
  BY WayShorter
<1>2. /\ Tree(f, n)
      /\ \A p \in 0 .. n : Children(f, p) = IF p = q THEN {} ELSE
                           IF p = o THEN Children(e, o) \cup Children(e, q)
                           ELSE Children(e, p)
      /\ \A p \in 0 .. n : p # q /\ p # o /\ LastKnown(e, p) => LastKnown(f, p)
  BY <1>1, Handed
<1>3. /\ f \in [0 .. n -> Element]
      /\ \A m \in 0 .. n : /\ f[m].length = IF m = q THEN 1 ELSE e[m].length
                           /\ f[m].start = e[m].start
  BY <1>1, UnendedLinks
<1> HIDE DEF f, v
<1>4. /\ DOMAIN f = 0 .. n /\ \A m \in 0 .. n : e[m].start \in Nat /\ e[m].length \in Nat
      /\ w \in [0 .. d -> 0 .. n] /\ w[d] = q /\ d \in 0 .. d /\ d - 1 \in 0 .. d /\ q \in 0 .. n
      /\ (\A j, k \in 0 .. d : j < k => w[j] < w[k])
      /\ v \in [0 .. d - 1 -> 0 .. n]
  <2>1. w \in [0 .. d -> 0 .. n] /\ w[d] = q /\ \A j, k \in 0 .. d : j < k => w[j] < w[k]
    BY <1>0 DEF Way
  <2>2. v \in [0 .. d - 1 -> 0 .. n]
    BY <1>0, <1>1 DEF Way
  <2>3. DOMAIN f = 0 .. n /\ \A m \in 0 .. n : e[m].start \in Nat /\ e[m].length \in Nat
    BY <1>0, <1>3 DEF Element
  <2>4. d \in 0 .. d /\ d - 1 \in 0 .. d /\ q \in 0 .. n
    BY <1>0, <1>1
  <2> QED
    BY <2>1, <2>2, <2>3, <2>4
<1>5. TextOrder(f, len)
  <2>1. ASSUME NEW m \in DOMAIN f \ {0}
        PROVE  f[m].start <= len /\ End(f, m) <= len + 1
    <3>1. m \in 0 .. n /\ m \in DOMAIN e \ {0} /\ e[m].start <= len
          /\ e[m].start + e[m].length <= len + 1
      BY <1>0, <1>4 DEF TextOrder, End
    <3>2. CASE m = q
      BY <1>3, <1>4, <3>1, <3>2 DEF End
    <3>3. CASE m # q
      BY <1>3, <1>4, <3>1, <3>3 DEF End
    <3> QED
      BY <3>2, <3>3
  <2>2. ASSUME NEW m \in DOMAIN f \ {0}, NEW k \in DOMAIN f \ {0}, m < k
        PROVE  f[m].start < f[k].start
    BY <1>0, <1>3, <1>4, <2>2 DEF TextOrder
  <2> QED
    BY <2>1, <2>2 DEF TextOrder
\* What comes before the parent on the way is not touched.
<1>6. ASSUME NEW k \in 0 .. d, k < d - 1
      PROVE  w[k] \in 0 .. n /\ w[k] # q /\ w[k] # o /\ Children(f, w[k]) = Children(e, w[k])
  <2>1. w[k] \in 0 .. n /\ w[k] < w[d - 1] /\ w[k] < w[d]
    BY <1>4, <1>6
  <2>2. w[d - 1] \in 0 .. n /\ w[d] \in 0 .. n
    BY <1>4
  <2>3. w[k] # q /\ w[k] # o
    BY <1>4, <2>1, <2>2
  <2> QED
    BY <1>2, <2>1, <2>3
<1>7. Way(v, f, d - 1, o)
  <2>1. v \in [0 .. d - 1 -> DOMAIN f]
    BY <1>4
  <2>2. ASSUME NEW k \in 1 .. d - 1
        PROVE  v[k] \in Children(f, v[k - 1]) /\ \A c \in Children(f, v[k - 1]) : c <= v[k]
    <3>1. k - 1 \in 0 .. d - 1 /\ k - 1 \in 0 .. d /\ k - 1 < d - 1
      OBVIOUS
    <3>2. v[k - 1] = w[k - 1]
      BY <1>1, <3>1
    <3>3. Children(f, v[k - 1]) = Children(e, v[k - 1])
      BY <1>6, <3>1, <3>2
    <3> QED
      BY <1>1, <3>3 DEF Way
  <2>3. v[0] = 0 /\ v[d - 1] = o /\ \A j, k \in 0 .. d - 1 : j < k => v[j] < v[k]
    BY <1>1 DEF Way
  <2> QED
    BY <2>1, <2>2, <2>3 DEF Way
<1>8. Known(v, f, g)
  <2> SUFFICES ASSUME NEW k \in 0 .. g PROVE LastKnown(f, v[k])
    BY DEF Known
  <2>1. k \in 0 .. d /\ k \in 0 .. d - 1 /\ k < d - 1
    OBVIOUS
  <2>2. LastKnown(e, w[k]) /\ v[k] = w[k]
    BY <1>1, <2>1 DEF Known
  <2> QED
    BY <1>2, <1>6, <2>1, <2>2
<1>9. Closed(v, f, d - 1)
  <2> SUFFICES ASSUME NEW x \in DOMAIN f \ {0}, \A k \in 0 .. d - 1 : v[k] # x
               PROVE  Within(f, x)
    BY DEF Closed
  <2>1. x \in 0 .. n
    BY <1>4
  <2>2. CASE x = q
    BY <1>2, <2>1, <2>2 DEF Within
  <2>3. CASE x # q
    <3>1. x # o
      <4>1. d - 1 \in 0 .. d - 1
        OBVIOUS
      <4> QED
        BY <1>1, <4>1
    <3>2. \A k \in 0 .. d : w[k] # x
      <4>1. \A k \in 0 .. d : k = d \/ k \in 0 .. d - 1
        OBVIOUS
      <4> QED
        BY <1>1, <1>4, <2>3, <4>1
    <3>3. Within(e, x)
      BY <1>0, <2>1, <3>2 DEF Closed
    <3>4. Children(f, x) = Children(e, x) /\ q \notin Children(e, x)
      BY <1>1, <1>2, <2>1, <2>3, <3>1 DEF Children
    <3>5. \A k \in Children(e, x) : k \in 0 .. n /\ k # q
      BY <1>0, <3>4
    <3> QED
      BY <1>3, <2>1, <2>3, <3>3, <3>4, <3>5 DEF Within, End
  <2> QED
    BY <2>2, <2>3
<1>10. ASSUME NEW k \in 1 .. d - 1 PROVE End(f, v[k]) = End(e, w[k])
  <2>1. k \in 0 .. d - 1 /\ k \in 0 .. d /\ k < d
    OBVIOUS
  <2>2. v[k] = w[k] /\ w[k] \in 0 .. n /\ w[k] < w[d] /\ w[d] \in 0 .. n
    BY <1>1, <1>4, <2>1
  <2>3. w[k] # q
    BY <1>4, <2>2
  <2> QED
    BY <1>3, <2>2, <2>3 DEF End
<1> QED
  BY <1>2, <1>5, <1>7, <1>8, <1>9, <1>10 DEF f, v

\* How many elements there are grows with them.
LEMMA ElemsCounted ==
  ASSUME mDoc \in Seq(MNodes), NEW node \in MNodes, mDoc' = Append(mDoc, node)
  PROVE  /\ ElemCount' = IF node.kind \in {"start", "empty"} THEN ElemCount + 1 ELSE ElemCount
         /\ mDoc' \in Seq(MNodes) /\ Len(mDoc') = Len(mDoc) + 1
<1> DEFINE l == Len(mDoc)
<1>1. /\ l \in Nat /\ DOMAIN mDoc = 1 .. l /\ mDoc' \in Seq(MNodes) /\ Len(mDoc') = l + 1
      /\ DOMAIN mDoc' = 1 .. l + 1 /\ mDoc'[l + 1] = node
      /\ \A k \in 1 .. l : mDoc'[k] = mDoc[k]
  BY AppendProperties
<1>2. IsFiniteSet(Elems) /\ l + 1 \notin Elems
  <2>1. IsFiniteSet(1 .. l)
    BY <1>1, FS_Interval
  <2>2. Elems \subseteq 1 .. l /\ l + 1 \notin 1 .. l
    BY <1>1 DEF Elems
  <2> QED
    BY <2>1, <2>2, FS_Subset
<1> HIDE DEF l
<1>3. \A k \in 1 .. l + 1 : k = l + 1 \/ k \in 1 .. l
  BY <1>1
<1>4. CASE node.kind \in {"start", "empty"}
  <2>1. Elems' = Elems \cup {l + 1}
    BY <1>1, <1>3, <1>4 DEF Elems
  <2>2. Cardinality(Elems \cup {l + 1}) = Cardinality(Elems) + 1
    BY <1>2, FS_AddElement
  <2> QED
    BY <1>1, <1>4, <2>1, <2>2 DEF ElemCount, l
<1>5. CASE node.kind \notin {"start", "empty"}
  <2>1. Elems' = Elems
    BY <1>1, <1>3, <1>5 DEF Elems
  <2> QED
    BY <1>1, <1>5, <2>1 DEF ElemCount, l
<1> QED
  BY <1>4, <1>5

\* What x_ParseElem finds some levels up stands there on the way.
LEMMA UpTheWay ==
  ASSUME NEW n, Tree(mElem, n), NEW d \in Nat, NEW w, Way(w, mElem, d, mPos),
         NEW levels \in 0 .. d
  PROVE  Up(levels) = w[d - levels]
<1> DEFINE Body(p) == [k \in 0 .. levels |-> IF k = 0 THEN mPos ELSE mElem[p[k - 1]].parent]
           f == [k \in 0 .. levels |-> w[d - k]]
           g == CHOOSE p : p = Body(p)
<1>1. \A k \in 0 .. levels : k # 0 => d - (k - 1) \in 1 .. d /\ k - 1 \in 0 .. levels
                                      /\ (d - (k - 1)) - 1 = d - k
  OBVIOUS
<1>2. w[d] = mPos /\ \A k \in 1 .. d : mElem[w[k]].parent = w[k - 1]
  BY DEF Way, Children
<1>3. f = Body(f)
  <2>1. ASSUME NEW k \in 0 .. levels
        PROVE  f[k] = IF k = 0 THEN mPos ELSE mElem[f[k - 1]].parent
    <3>1. CASE k = 0
      BY <1>2, <3>1
    <3>2. CASE k # 0
      <4>1. f[k - 1] = w[d - (k - 1)] /\ mElem[w[d - (k - 1)]].parent = w[d - k]
        BY <1>1, <1>2, <3>2
      <4> QED
        BY <3>2, <4>1
    <3> QED
      BY <3>1, <3>2
  <2> QED
    BY <2>1
<1>4. g = Body(g)
  <2> HIDE DEF f, Body
  <2> QED
    BY <1>3, Zenon
<1>5. Up(levels) = g[levels]
  BY Zenon DEF Up
<1> HIDE DEF g
<1>6. g[0] = mPos /\ \A k \in 1 .. levels : g[k] = mElem[g[k - 1]].parent
  BY <1>4
<1> DEFINE T == {k \in Nat : k <= levels => g[k] = w[d - k]}
<1>7. 0 \in T
  BY <1>2, <1>6
<1>8. ASSUME NEW k \in Nat, k \in T PROVE k + 1 \in T
  <2> SUFFICES ASSUME k + 1 <= levels PROVE g[k + 1] = w[d - (k + 1)]
    OBVIOUS
  <2>1. k + 1 \in 1 .. levels /\ (k + 1) - 1 = k /\ d - k \in 1 .. d /\ (d - k) - 1 = d - (k + 1)
    OBVIOUS
  <2>2. g[k] = w[d - k]
    BY <1>8, <2>1
  <2> QED
    BY <1>2, <1>6, <2>1, <2>2
<1>9. levels \in T
  <2> HIDE DEF T
  <2> QED
    BY <1>7, <1>8, InductionOver
<1> QED
  BY <1>5, <1>9

\* At first there is ELEM(0) only.
LEMMA TreeInit == MInit => TreeInv
<1> SUFFICES ASSUME MInit PROVE TreeInv
  OBVIOUS
<1> DEFINE z == <<>>
           e == [k \in {0} |-> Fresh]
           w == [k \in 0 .. 0 |-> 0]
<1>1. /\ mDoc = z /\ mElem = e /\ mPos = 0 /\ mStack = z /\ mPhase = "nodes"
      /\ z \in Seq(MNodes) /\ z \in Seq(MTags) /\ Len(z) = 0
  BY EmptySeq DEF MInit
<1>2. ElemCount = 0
  <2>1. Elems = {}
    BY <1>1 DEF Elems
  <2> QED
    BY <2>1, FS_EmptySet DEF ElemCount
<1>3. /\ e \in [0 .. 0 -> Element] /\ DOMAIN e = 0 .. 0 /\ DOMAIN e \ {0} = {}
      /\ 0 .. 0 = {0} /\ e[0].child = 0
  BY DEF Fresh, Element
<1>4. \A p : Children(e, p) = {}
  BY <1>3 DEF Children
<1> HIDE DEF e, z
<1>5. Tree(e, 0)
  BY <1>3, <1>4 DEF Tree, Linked, Least
<1>6. TextOrder(e, 0)
  BY <1>3 DEF TextOrder
<1>7. Parsing(w, e, 0, 0, 0, "nodes", mMatch)
  <2>1. w \in [0 .. 0 -> DOMAIN e] /\ w[0] = 0 /\ 1 .. 0 = {} /\ \A j, k \in 0 .. 0 : ~(j < k)
    BY <1>3
  <2> HIDE DEF w
  <2>2. Way(w, e, 0, 0)
    BY <2>1 DEF Way
  <2>3. Known(w, e, 0)
    BY <1>4 DEF Known, LastKnown
  <2>4. Closed(w, e, 0)
    BY <1>3 DEF Closed
  <2> QED
    BY <2>2, <2>3, <2>4 DEF Parsing
<1> HIDE DEF w
<1>8. Parsing(w, mElem, Len(mDoc), Len(mStack), mPos, mPhase, mMatch)
  BY <1>1, <1>7
<1> QED
  BY <1>1, <1>2, <1>5, <1>6, <1>8 DEF TreeInv, MTyped, Parsed

\* While the document is read, what the invariant says.
LEMMA Reads ==
  ASSUME TreeInv, ~Parsed
  PROVE  /\ ElemCount \in Nat /\ Len(mDoc) \in Nat /\ Len(mStack) \in Nat
         /\ DOMAIN mElem = 0 .. ElemCount /\ Cardinality(DOMAIN mElem) = ElemCount + 1
         /\ Tree(mElem, ElemCount) /\ TextOrder(mElem, Len(mDoc))
         /\ mDoc \in Seq(MNodes) /\ mStack \in Seq(MTags)
         /\ \E w : /\ Parsing(w, mElem, Len(mDoc), Len(mStack), mPos, mPhase, mMatch)
                   /\ w \in [0 .. Len(mStack) -> 0 .. ElemCount] /\ w[Len(mStack)] = mPos
                   /\ w[0] = 0 /\ mPos \in 0 .. ElemCount
<1>1. /\ mDoc \in Seq(MNodes) /\ mStack \in Seq(MTags) /\ Tree(mElem, ElemCount)
      /\ TextOrder(mElem, Len(mDoc))
      /\ \E w : Parsing(w, mElem, Len(mDoc), Len(mStack), mPos, mPhase, mMatch)
  BY DEF TreeInv, MTyped
<1>2. Len(mDoc) \in Nat /\ Len(mStack) \in Nat
  BY <1>1
<1>3. ElemCount \in Nat /\ DOMAIN mElem = 0 .. ElemCount
  BY <1>1, Links
<1>4. Cardinality(DOMAIN mElem) = ElemCount + 1
  <2>1. 0 \in Int /\ ElemCount \in Int /\ ~(0 > ElemCount) /\ ElemCount - 0 + 1 = ElemCount + 1
    BY <1>3
  <2>2. Cardinality(0 .. ElemCount) = IF 0 > ElemCount THEN 0 ELSE ElemCount - 0 + 1
    BY <2>1, FS_Interval
  <2> QED
    BY <1>3, <2>1, <2>2
<1>5. PICK w : Parsing(w, mElem, Len(mDoc), Len(mStack), mPos, mPhase, mMatch)
  BY <1>1
<1>6. w \in [0 .. Len(mStack) -> 0 .. ElemCount] /\ w[Len(mStack)] = mPos /\ w[0] = 0
  BY <1>3, <1>5 DEF Parsing, Way
<1>7. Len(mStack) \in 0 .. Len(mStack)
  BY <1>2
<1>8. mPos \in 0 .. ElemCount
  BY <1>6, <1>7
<1> QED
  BY <1>1, <1>2, <1>3, <1>4, <1>5, <1>6, <1>8

\* The step leads to such a state again.
LEMMA ReadsOn ==
  ASSUME mDoc' \in Seq(MNodes), mStack' \in Seq(MTags), mPhase' \in {"nodes", "close", "end"},
         Tree(mElem, ElemCount)', TextOrder(mElem, Len(mDoc))',
         NEW w, Parsing(w, mElem', Len(mDoc'), Len(mStack'), mPos', mPhase', mMatch')
  PROVE  TreeInv'
  BY DEF TreeInv, MTyped, Parsed

\* A start tag adds an element.
LEMMA StartTagKeeps ==
  ASSUME TreeInv, mPhase = "nodes", NEW node \in MNodes, node.kind \in {"start", "empty"},
         StartTag(node), mDoc' = Append(mDoc, node)
  PROVE  TreeInv'
<1> DEFINE n == ElemCount
           len == Len(mDoc)
           d == Len(mStack)
           rec == [Fresh EXCEPT !.parent = mPos, !.start = Len(mDoc) + 1, !.length = 1]
           f == AddChild(mElem, n + 1, rec)
<1>0. ~Parsed
  BY DEF Parsed
<1>1. /\ n \in Nat /\ len \in Nat /\ d \in Nat /\ DOMAIN mElem = 0 .. n
      /\ Cardinality(DOMAIN mElem) = n + 1 /\ Tree(mElem, n) /\ TextOrder(mElem, len)
      /\ mDoc \in Seq(MNodes) /\ mStack \in Seq(MTags)
  BY <1>0, Reads
<1>2. PICK w : /\ Parsing(w, mElem, len, d, mPos, mPhase, mMatch)
               /\ w[d] = mPos /\ mPos \in 0 .. n
  BY <1>0, Reads
<1>3. Way(w, mElem, d, mPos) /\ Closed(w, mElem, d) /\ Known(w, mElem, d)
  BY <1>2 DEF Parsing
<1>4. /\ rec \in Element /\ rec.parent = mPos /\ rec.child = 0 /\ rec.next = 0
      /\ rec.start = len + 1 /\ rec.length = 1
  <2>1. Fresh \in Element /\ Fresh.child = 0 /\ Fresh.next = 0
    BY DEF Fresh, Element
  <2>2. mPos \in Nat /\ Len(mDoc) + 1 \in Nat
    BY <1>1, <1>2
  <2> QED
    BY <2>1, <2>2 DEF Element
<1> HIDE DEF rec
<1>5. /\ Tree(f, n + 1) /\ TextOrder(f, len + 1)
      /\ Way(w, f, d, mPos) /\ Known(w, f, d) /\ Closed(w, f, d)
      /\ LET v == Longer(w, d, n + 1)
         IN  Way(v, f, d + 1, n + 1) /\ Known(v, f, d + 1) /\ Closed(v, f, d + 1)
  BY <1>1, <1>3, <1>4, ElementAdded
<1>6. ElemCount' = n + 1 /\ mDoc' \in Seq(MNodes) /\ Len(mDoc') = len + 1
  BY <1>1, ElemsCounted
<1>7. mElem' = f /\ mMatch' = mMatch /\ mPhase' = "nodes"
  BY <1>1 DEF StartTag, rec
<1> HIDE DEF f
<1>8. Tree(mElem, ElemCount)' /\ TextOrder(mElem, Len(mDoc))'
  BY <1>5, <1>6, <1>7
<1>9. CASE node.kind = "empty"
  <2>1. mPos' = mPos /\ mStack' = mStack
    BY <1>9 DEF StartTag
  <2>2. Parsing(w, f, len + 1, d, mPos, "nodes", mMatch)
    BY <1>5 DEF Parsing
  <2>3. Parsing(w, mElem', Len(mDoc'), Len(mStack'), mPos', mPhase', mMatch')
    BY <1>6, <1>7, <2>1, <2>2
  <2> QED
    BY <1>1, <1>6, <1>7, <1>8, <2>1, <2>3, ReadsOn
<1>10. CASE node.kind = "start"
  <2>1. mPos' = n + 1 /\ mStack' = Append(mStack, node.tag)
    BY <1>1, <1>10 DEF StartTag
  <2>2. node.tag \in MTags
    BY <1>10 DEF MNodes
  <2>3. mStack' \in Seq(MTags) /\ Len(mStack') = d + 1
    BY <1>1, <2>1, <2>2, AppendProperties
  <2> DEFINE v == Longer(w, d, n + 1)
  <2>4. Parsing(v, f, len + 1, d + 1, n + 1, "nodes", mMatch)
    BY <1>5 DEF Parsing
  <2> HIDE DEF v
  <2>5. Parsing(v, mElem', Len(mDoc'), Len(mStack'), mPos', mPhase', mMatch')
    BY <1>6, <1>7, <2>1, <2>3, <2>4
  <2> QED
    BY <1>1, <1>6, <1>7, <1>8, <2>1, <2>3, <2>5, ReadsOn
<1> QED
  BY <1>9, <1>10

\* A flag leaves the way and what is closed as it was.
LEMMA FlaggedReading ==
  ASSUME NEW n, NEW e, Tree(e, n), NEW k \in 0 .. n, NEW x \in ElemFlags, NEW w, NEW len, NEW d,
         NEW pos, NEW phase, NEW level, TextOrder(e, len), Parsing(w, e, len, d, pos, phase, level),
         d \in Nat
  PROVE  LET f == Flag(e, k, x)
         IN  Tree(f, n) /\ TextOrder(f, len) /\ Parsing(w, f, len, d, pos, phase, level)
<1> DEFINE f == Flag(e, k, x)
           g == IF phase = "nodes" THEN d ELSE level - 1
<1>1. /\ Tree(f, n) /\ TextOrder(f, len)
      /\ \A m \in 0 .. n : f[m].start = e[m].start /\ f[m].length = e[m].length
      /\ \A m \in 0 .. n : LastKnown(e, m) => LastKnown(f, m)
      /\ \A u, c, p : Way(u, e, c, p) => Way(u, f, c, p)
      /\ \A u, c : Closed(u, e, c) => Closed(u, f, c)
  BY Flagged
<1> HIDE DEF f
<1>2. DOMAIN e = 0 .. n
  BY Links
<1>3. /\ Way(w, e, d, pos) /\ Closed(w, e, d) /\ Known(w, e, g)
      /\ phase # "nodes" => level \in Nat /\ level <= d
      /\ phase = "close" => level # 0 /\ End(e, w[level]) = len + 1
  BY DEF Parsing
<1>4. Way(w, f, d, pos) /\ Closed(w, f, d)
  BY <1>1, <1>3
<1>5. w \in [0 .. d -> 0 .. n]
  BY <1>2, <1>3 DEF Way
<1>6. \A j \in 0 .. g : j \in 0 .. d
  BY <1>3
<1> HIDE DEF g
<1>7. Known(w, f, g)
  BY <1>1, <1>3, <1>5, <1>6 DEF Known
<1>8. phase = "close" => End(f, w[level]) = len + 1
  <2> SUFFICES ASSUME phase = "close" PROVE End(f, w[level]) = len + 1
    OBVIOUS
  <2>1. level \in 0 .. d /\ w[level] \in 0 .. n
    BY <1>3, <1>5
  <2> QED
    BY <1>1, <1>3, <2>1 DEF End
<1>9. Parsing(w, f, len, d, pos, phase, level)
  BY <1>3, <1>4, <1>7, <1>8 DEF Parsing, g
<1> QED
  BY <1>1, <1>9 DEF f

\* A node that opens and closes nothing.
LEMMA LaterInOrder ==
  ASSUME NEW n, NEW e, Tree(e, n), NEW len \in Nat, TextOrder(e, len)
  PROVE  TextOrder(e, len + 1)
<1>1. n \in Nat /\ e \in [0 .. n -> Element]
  BY Links
<1>2. \A m \in DOMAIN e : e[m].start \in Nat /\ e[m].length \in Nat
  BY <1>1 DEF Element
<1> QED
  BY <1>2 DEF TextOrder, End

\* A node that cannot be placed sets two flags.
LEMMA MisplacedKeeps ==
  ASSUME TreeInv, mPhase = "nodes", NEW node \in MNodes, node.kind \in {"end", "bad"},
         mElem' = Flag(Flag(mElem, 0, "illformed"), mPos, "illdata"),
         UNCHANGED <<mPos, mStack, mMatch, mPhase>>, mDoc' = Append(mDoc, node)
  PROVE  TreeInv'
<1> DEFINE n == ElemCount
           len == Len(mDoc)
           d == Len(mStack)
           f == Flag(mElem, 0, "illformed")
           h == Flag(f, mPos, "illdata")
<1>0. ~Parsed
  BY DEF Parsed
<1>1. /\ n \in Nat /\ len \in Nat /\ d \in Nat /\ Tree(mElem, n) /\ TextOrder(mElem, len)
      /\ mDoc \in Seq(MNodes) /\ mStack \in Seq(MTags)
  BY <1>0, Reads
<1>2. PICK w : Parsing(w, mElem, len, d, mPos, mPhase, mMatch) /\ mPos \in 0 .. n
  BY <1>0, Reads
<1>3. "illformed" \in ElemFlags /\ "illdata" \in ElemFlags /\ 0 \in 0 .. n
  BY <1>1 DEF ElemFlags
<1>4. Tree(f, n) /\ TextOrder(f, len) /\ Parsing(w, f, len, d, mPos, mPhase, mMatch)
  BY <1>1, <1>2, <1>3, FlaggedReading
<1> HIDE DEF f
<1>5. Tree(h, n) /\ TextOrder(h, len) /\ Parsing(w, h, len, d, mPos, mPhase, mMatch)
  BY <1>1, <1>2, <1>3, <1>4, FlaggedReading
<1>6. mElem' = h
  BY DEF f
<1> HIDE DEF h
<1>7. TextOrder(h, len + 1)
  BY <1>1, <1>5, LaterInOrder
<1>8. Parsing(w, h, len + 1, d, mPos, mPhase, mMatch)
  BY <1>5 DEF Parsing
<1>9. ElemCount' = n /\ mDoc' \in Seq(MNodes) /\ Len(mDoc') = len + 1
  BY <1>1, ElemsCounted
<1>10. mPos' = mPos /\ mStack' = mStack /\ mMatch' = mMatch /\ mPhase' = mPhase
  OBVIOUS
<1>11. Tree(mElem, ElemCount)' /\ TextOrder(mElem, Len(mDoc))'
  BY <1>5, <1>6, <1>7, <1>9
<1>12. Parsing(w, mElem', Len(mDoc'), Len(mStack'), mPos', mPhase', mMatch')
  BY <1>6, <1>8, <1>9, <1>10
<1> QED
  BY <1>1, <1>9, <1>10, <1>11, <1>12, ReadsOn

\* An end tag that closes an element sets its length.
LEMMA EndTagKeeps ==
  ASSUME TreeInv, mPhase = "nodes", NEW node \in MNodes, node.kind = "end",
         Levels(node.tag) # {}, EndTag(node), mDoc' = Append(mDoc, node)
  PROVE  TreeInv'
<1> DEFINE n == ElemCount
           len == Len(mDoc)
           d == Len(mStack)
           level == CHOOSE k \in Levels(node.tag) : \A l \in Levels(node.tag) : l <= k
           p == Up(Len(mStack) - level)
           f == [mElem EXCEPT ![p].length = Len(mDoc) + 1 - mElem[p].start + 1]
           h == Unended(f, level)
<1>0. ~Parsed
  BY DEF Parsed
<1>1. /\ n \in Nat /\ len \in Nat /\ d \in Nat /\ Tree(mElem, n) /\ TextOrder(mElem, len)
      /\ mDoc \in Seq(MNodes) /\ mStack \in Seq(MTags)
  BY <1>0, Reads
<1>2. PICK w : /\ Parsing(w, mElem, len, d, mPos, mPhase, mMatch)
               /\ w \in [0 .. d -> 0 .. n]
  BY <1>0, Reads
<1>3. Way(w, mElem, d, mPos) /\ Closed(w, mElem, d) /\ Known(w, mElem, d)
  BY <1>2 DEF Parsing
<1>4. level \in 1 .. d
  <2>1. Levels(node.tag) \subseteq 1 .. d
    BY <1>1 DEF Levels
  <2>2. Levels(node.tag) \in SUBSET (0 .. d)
    BY <2>1
  <2>3. \E k \in Levels(node.tag) : \A l \in Levels(node.tag) : l <= k
    BY <1>1, <2>2, Greatest
  <2>4. level \in Levels(node.tag)
    BY <2>3, Zenon
  <2> HIDE DEF level
  <2> QED
    BY <2>1, <2>4
<1>5. mElem' = h /\ mMatch' = level /\ mPhase' = "close" /\ mPos' = mPos /\ mStack' = mStack
  BY Zenon DEF EndTag
<1> HIDE DEF level
<1>6. p = w[level]
  <2>1. d - level \in 0 .. d /\ d - (d - level) = level
    BY <1>1, <1>4
  <2>2. Up(d - level) = w[d - (d - level)]
    BY <1>1, <1>3, <2>1, UpTheWay
  <2> QED
    BY <2>1, <2>2
<1> HIDE DEF p
<1>7. /\ Tree(f, n) /\ Same(mElem, f) /\ TextOrder(f, len + 1) /\ Closed(w, f, d)
      /\ f[p].start + f[p].length = (len + 1) + 1
  <2> DEFINE i == Sized(mElem, w[level], len)
  <2>1. /\ Tree(i, n) /\ Same(mElem, i) /\ TextOrder(i, len + 1) /\ Closed(w, i, d)
        /\ i[w[level]].start + i[w[level]].length = (len + 1) + 1
    BY <1>1, <1>3, <1>4, LengthSet
  <2>2. f = i
    BY <1>6 DEF Sized
  <2> HIDE DEF f, i
  <2> QED
    BY <1>6, <2>1, <2>2
<1>8. Way(w, f, d, mPos) /\ Known(w, f, level - 1)
  <2>1. Linked(mElem) /\ DOMAIN mElem = 0 .. n
    BY <1>1, Links
  <2>2. /\ \A u, c, q : Way(u, mElem, c, q) => Way(u, f, c, q)
        /\ \A m \in DOMAIN mElem : LastKnown(mElem, m) => LastKnown(f, m)
    BY <1>7, <2>1, SameWay
  <2>3. \A k \in 0 .. level - 1 : k \in 0 .. d
    BY <1>4
  <2> HIDE DEF f
  <2> QED
    BY <1>2, <1>3, <2>1, <2>2, <2>3 DEF Known
<1> HIDE DEF f
<1>9. Parsing(w, f, len + 1, d, mPos, "close", level)
  BY <1>4, <1>6, <1>7, <1>8 DEF Parsing, End
<1>10. Tree(h, n) /\ TextOrder(h, len + 1) /\ Parsing(w, h, len + 1, d, mPos, "close", level)
  <2>1. h = IF Len(mStack) > level THEN Flag(f, 0, "illformed") ELSE f
    BY DEF Unended
  <2>2. 0 \in 0 .. n /\ "illformed" \in ElemFlags
    BY <1>1 DEF ElemFlags
  <2> DEFINE i == Flag(f, 0, "illformed")
  <2>3. Tree(i, n) /\ TextOrder(i, len + 1) /\ Parsing(w, i, len + 1, d, mPos, "close", level)
    BY <1>1, <1>7, <1>9, <2>2, FlaggedReading
  <2> HIDE DEF h, i
  <2>4. h = i \/ h = f
    BY <2>1 DEF i
  <2> QED
    BY <1>7, <1>9, <2>3, <2>4
<1> HIDE DEF h
<1>11. ElemCount' = n /\ mDoc' \in Seq(MNodes) /\ Len(mDoc') = len + 1
  BY <1>1, ElemsCounted
<1>12. Tree(mElem, ElemCount)' /\ TextOrder(mElem, Len(mDoc))'
  BY <1>5, <1>10, <1>11
<1>13. Parsing(w, mElem', Len(mDoc'), Len(mStack'), mPos', mPhase', mMatch')
  BY <1>5, <1>10, <1>11
<1> QED
  BY <1>1, <1>5, <1>11, <1>12, <1>13, ReadsOn

\* At the end of the document every open element is to be left unended.
LEMMA EndOfDocumentKeeps ==
  ASSUME TreeInv, EndOfDocument
  PROVE  TreeInv'
<1> DEFINE n == ElemCount
           len == Len(mDoc)
           d == Len(mStack)
           h == Unended(mElem, 0)
<1>0. ~Parsed /\ mPhase = "nodes"
  BY DEF Parsed, EndOfDocument
<1>1. /\ n \in Nat /\ len \in Nat /\ d \in Nat /\ Tree(mElem, n) /\ TextOrder(mElem, len)
      /\ mDoc \in Seq(MNodes) /\ mStack \in Seq(MTags)
  BY <1>0, Reads
<1>2. PICK w : Parsing(w, mElem, len, d, mPos, mPhase, mMatch)
  BY <1>0, Reads
<1>3. Parsing(w, mElem, len, d, mPos, "end", 0)
  <2>1. 0 .. 0 - 1 = {}
    OBVIOUS
  <2> QED
    BY <1>1, <1>2, <2>1 DEF Parsing, Known
<1>4. Tree(h, n) /\ TextOrder(h, len) /\ Parsing(w, h, len, d, mPos, "end", 0)
  <2>1. h = IF Len(mStack) > 0 THEN Flag(mElem, 0, "illformed") ELSE mElem
    BY DEF Unended
  <2>2. 0 \in 0 .. n /\ "illformed" \in ElemFlags
    BY <1>1 DEF ElemFlags
  <2> DEFINE i == Flag(mElem, 0, "illformed")
  <2>3. Tree(i, n) /\ TextOrder(i, len) /\ Parsing(w, i, len, d, mPos, "end", 0)
    BY <1>1, <1>3, <2>2, FlaggedReading
  <2> HIDE DEF h, i
  <2>4. h = i \/ h = mElem
    BY <2>1 DEF i
  <2> QED
    BY <1>1, <1>3, <2>3, <2>4
<1> HIDE DEF h
<1>5. /\ mElem' = h /\ mMatch' = 0 /\ mPhase' = "end" /\ mPos' = mPos /\ mStack' = mStack
      /\ mDoc' = mDoc
  BY DEF EndOfDocument, h
<1>6. ElemCount' = n
  BY <1>5 DEF ElemCount, Elems
<1>7. Tree(mElem, ElemCount)' /\ TextOrder(mElem, Len(mDoc))'
  BY <1>4, <1>5, <1>6
<1>8. Parsing(w, mElem', Len(mDoc'), Len(mStack'), mPos', mPhase', mMatch')
  BY <1>4, <1>5
<1> QED
  BY <1>1, <1>5, <1>7, <1>8, ReadsOn

\* An element left unended leaves the way by one step.
LEMMA UnendKeeps ==
  ASSUME TreeInv, Unend
  PROVE  TreeInv'
<1> DEFINE n == ElemCount
           len == Len(mDoc)
           d == Len(mStack)
           ill == "illdata" \in mElem[mPos].flags
           fl == (mElem[mPos].flags \cup {"nonended"}) \ {"illdata"}
           p == mElem[mPos].parent
           f == LeftUnended(mElem, mPos, fl)
           h == Flag(f, p, "illdata")
           g == mMatch - 1
<1>0. ~Parsed /\ mPhase \in {"close", "end"} /\ d > mMatch
  BY DEF Parsed, Unend
<1>1. /\ n \in Nat /\ len \in Nat /\ d \in Nat /\ Tree(mElem, n) /\ TextOrder(mElem, len)
      /\ mDoc \in Seq(MNodes) /\ mStack \in Seq(MTags)
  BY <1>0, Reads
<1>2. PICK w : Parsing(w, mElem, len, d, mPos, mPhase, mMatch)
  BY <1>0, Reads
<1>3. /\ Way(w, mElem, d, mPos) /\ Closed(w, mElem, d) /\ Known(w, mElem, g)
      /\ mMatch \in Nat /\ mMatch <= d
      /\ mPhase = "close" => mMatch # 0 /\ End(mElem, w[mMatch]) = len + 1
  BY <1>0, <1>2 DEF Parsing
<1>4. d \in Nat \ {0} /\ g \in Int /\ g < d - 1 /\ mMatch <= d - 1
  BY <1>0, <1>1, <1>3
<1>5. /\ mPos \in 1 .. n /\ p = w[d - 1] /\ p \in 0 .. n
      /\ \A k \in 0 .. d - 1 : Shorter(w, d)[k] = w[k]
  BY <1>1, <1>3, <1>4, WayShorter
<1>6. fl \in SUBSET ElemFlags
  <2>0. mElem \in [0 .. n -> Element]
    BY <1>1, Links
  <2>1. mElem \in [0 .. n -> Element] /\ mPos \in 0 .. n
    BY <1>1, <1>5, <2>0
  <2>2. mElem[mPos].flags \in SUBSET ElemFlags
    BY <2>1 DEF Element
  <2> QED
    BY <2>2 DEF ElemFlags
<1> HIDE DEF fl, g
<1> DEFINE v == Shorter(w, d)
<1>7. /\ Tree(f, n) /\ TextOrder(f, len)
      /\ Way(v, f, d - 1, w[d - 1]) /\ Known(v, f, g) /\ Closed(v, f, d - 1)
      /\ \A k \in 1 .. d - 1 : End(f, v[k]) = End(mElem, w[k])
  BY <1>1, <1>3, <1>4, <1>6, ElementUnended
<1>8. mElem' = IF ill THEN h ELSE f
  <2> DEFINE e == Hand(mElem, mPos)
             c == [e EXCEPT ![mPos] =
                    [@ EXCEPT !.flags = fl, !.child = 0, !.length = 1, !.next = e[mPos].child]]
  <2>1. mElem' = IF ill THEN Flag(c, p, "illdata") ELSE c
    BY DEF Unend, fl
  <2>2. f = c
    BY DEF LeftUnended
  <2> QED
    BY <2>1, <2>2
<1> HIDE DEF f, v, ill, p
<1>9. Parsing(v, f, len, d - 1, p, mPhase, mMatch)
  <2>1. mPhase = "close" => End(f, v[mMatch]) = len + 1
    <3> SUFFICES ASSUME mPhase = "close" PROVE End(f, v[mMatch]) = len + 1
      OBVIOUS
    <3>1. mMatch \in 1 .. d - 1
      BY <1>3, <1>4
    <3> QED
      BY <1>3, <1>7, <3>1
  <2>2. mPhase # "nodes"
    BY <1>0
  <2> QED
    BY <1>3, <1>4, <1>5, <1>7, <2>1, <2>2 DEF Parsing, g
<1>10. Tree(h, n) /\ TextOrder(h, len) /\ Parsing(v, h, len, d - 1, p, mPhase, mMatch)
  <2>1. "illdata" \in ElemFlags /\ d - 1 \in Nat
    BY <1>4 DEF ElemFlags
  <2> QED
    BY <1>1, <1>5, <1>7, <1>9, <2>1, FlaggedReading
<1> HIDE DEF h
<1>11. /\ mPos' = p /\ mStack' = Front(mStack) /\ mDoc' = mDoc /\ mMatch' = mMatch
       /\ mPhase' = mPhase
  BY DEF Unend, p
<1>12. mStack' \in Seq(MTags) /\ Len(mStack') = d - 1
  <2>1. d - 1 \in Nat /\ d - 1 <= Len(mStack)
    BY <1>4
  <2> DEFINE u == SubSeq(mStack, 1, d - 1)
  <2>2. u \in Seq(MTags) /\ Len(u) = d - 1
    BY <1>1, <2>1, FirstOnes
  <2>3. mStack' = u
    BY <1>11 DEF Front
  <2> HIDE DEF u
  <2> QED
    BY <2>2, <2>3
<1>13. ElemCount' = n
  BY <1>11 DEF ElemCount, Elems
<1>14. Tree(mElem, ElemCount)' /\ TextOrder(mElem, Len(mDoc))'
  BY <1>7, <1>8, <1>10, <1>11, <1>13
<1>15. Parsing(v, mElem', Len(mDoc'), Len(mStack'), mPos', mPhase', mMatch')
  BY <1>8, <1>9, <1>10, <1>11, <1>12
<1> QED
  BY <1>0, <1>1, <1>11, <1>12, <1>14, <1>15, ReadsOn

\* The element an end tag names is closed when it is the last one on the way.
LEMMA CloseKeeps ==
  ASSUME TreeInv, Close
  PROVE  TreeInv'
<1> DEFINE n == ElemCount
           len == Len(mDoc)
           d == Len(mStack)
           p == mElem[mPos].parent
<1>0. ~Parsed /\ mPhase = "close" /\ mMatch = d
  BY DEF Parsed, Close
<1>1. /\ n \in Nat /\ len \in Nat /\ d \in Nat /\ Tree(mElem, n) /\ TextOrder(mElem, len)
      /\ mDoc \in Seq(MNodes) /\ mStack \in Seq(MTags) /\ DOMAIN mElem = 0 .. n
  BY <1>0, Reads
<1>2. PICK w : /\ Parsing(w, mElem, len, d, mPos, mPhase, mMatch)
               /\ w \in [0 .. d -> 0 .. n] /\ w[d] = mPos
  BY <1>0, Reads
<1>3. /\ Way(w, mElem, d, mPos) /\ Closed(w, mElem, d) /\ Known(w, mElem, d - 1)
      /\ d # 0 /\ End(mElem, w[d]) = len + 1
  BY <1>0, <1>2 DEF Parsing
<1>4. d \in Nat \ {0} /\ d - 1 \in Nat /\ \A k \in 0 .. d : k = d \/ k \in 0 .. d - 1
  BY <1>1, <1>3
<1> DEFINE v == Shorter(w, d)
<1>5. /\ p = w[d - 1] /\ Way(v, mElem, d - 1, w[d - 1])
      /\ \A k \in 0 .. d - 1 : v[k] = w[k] /\ k \in 0 .. d
  BY <1>1, <1>3, <1>4, WayShorter
<1> HIDE DEF v, p
<1>6. Known(v, mElem, d - 1)
  BY <1>3, <1>5 DEF Known
<1>7. Closed(v, mElem, d - 1)
  <2> SUFFICES ASSUME NEW x \in DOMAIN mElem \ {0}, \A k \in 0 .. d - 1 : v[k] # x
               PROVE  Within(mElem, x)
    BY DEF Closed
  <2>1. CASE x = mPos
    <3>1. \A k \in Children(mElem, x) : k \in DOMAIN mElem \ {0}
      BY DEF Children
    <3>2. \A k \in DOMAIN mElem \ {0} : End(mElem, k) <= len + 1
      BY <1>1 DEF TextOrder
    <3>3. End(mElem, x) = len + 1
      BY <1>2, <1>3, <2>1
    <3> QED
      BY <3>1, <3>2, <3>3 DEF Within
  <2>2. CASE x # mPos
    <3>1. \A k \in 0 .. d : w[k] # x
      BY <1>2, <1>4, <1>5, <2>2
    <3> QED
      BY <1>3, <3>1 DEF Closed
  <2> QED
    BY <2>1, <2>2
<1>8. Parsing(v, mElem, len, d - 1, p, "nodes", mMatch)
  BY <1>5, <1>6, <1>7 DEF Parsing
<1>9. /\ mPos' = p /\ mStack' = Front(mStack) /\ mDoc' = mDoc /\ mElem' = mElem
      /\ mPhase' = "nodes" /\ mMatch' = mMatch
  BY DEF Close, p
<1>10. mStack' \in Seq(MTags) /\ Len(mStack') = d - 1
  <2> DEFINE u == SubSeq(mStack, 1, d - 1)
  <2>0. d - 1 <= Len(mStack)
    BY <1>4
  <2>1. u \in Seq(MTags) /\ Len(u) = d - 1
    BY <1>1, <1>4, <2>0, FirstOnes
  <2>2. mStack' = u
    BY <1>9 DEF Front
  <2> HIDE DEF u
  <2> QED
    BY <2>1, <2>2
<1>11. ElemCount' = n
  BY <1>9 DEF ElemCount, Elems
<1>12. Tree(mElem, ElemCount)' /\ TextOrder(mElem, Len(mDoc))'
  BY <1>1, <1>9, <1>11
<1>13. Parsing(v, mElem', Len(mDoc'), Len(mStack'), mPos', mPhase', mMatch')
  BY <1>8, <1>9, <1>10
<1> QED
  BY <1>1, <1>9, <1>10, <1>12, <1>13, ReadsOn

\* Once nothing is open, every element has been closed.
LEMMA LoadedKeeps ==
  ASSUME TreeInv, Loaded
  PROVE  TreeInv'
<1> DEFINE n == ElemCount
<1>0. ~Parsed /\ mPhase = "end" /\ Len(mStack) = 0
  BY DEF Parsed, Loaded
<1>1. /\ Tree(mElem, n) /\ TextOrder(mElem, Len(mDoc)) /\ DOMAIN mElem = 0 .. n
      /\ mDoc \in Seq(MNodes) /\ mStack \in Seq(MTags)
  BY <1>0, Reads
<1>2. PICK w : /\ Parsing(w, mElem, Len(mDoc), Len(mStack), mPos, mPhase, mMatch)
               /\ w[0] = 0
  BY <1>0, Reads
<1>3. Closed(w, mElem, 0)
  BY <1>0, <1>2 DEF Parsing
<1>4. \A x \in DOMAIN mElem \ {0} : Within(mElem, x)
  BY <1>2, <1>3 DEF Closed
<1>5. /\ mElem' = mElem /\ mDoc' = mDoc /\ mStack' = mStack
      /\ mPhase' \in {"find", "over"}
  BY DEF Loaded
<1>6. ElemCount' = n
  BY <1>5 DEF ElemCount, Elems
<1> HIDE DEF n
<1> QED
  BY <1>1, <1>4, <1>5, <1>6 DEF TreeInv, MTyped, Parsed, n

\* A step that leaves the tree alone once it is there.
LEMMA TreeLeftAlone ==
  ASSUME TreeInv, Parsed, Parsed', mElem' = mElem, mDoc' = mDoc, mStack' = mStack
  PROVE  TreeInv'
<1>1. ElemCount' = ElemCount
  BY DEF ElemCount, Elems
<1>2. mPhase' \in {"nodes", "close", "end", "find", "over"}
  BY DEF Parsed
<1> QED
  BY <1>1, <1>2 DEF TreeInv, MTyped

\* The invariant is inductive.
LEMMA TreeInductive == TreeInv /\ [MNext]_mVars => TreeInv'
<1> SUFFICES ASSUME TreeInv, [MNext]_mVars PROVE TreeInv'
  OBVIOUS
<1>1. CASE ParseElem
  <2>1. mPhase = "nodes"
    BY <1>1 DEF ParseElem
  <2>2. PICK node \in MNodes :
          /\ CASE node.kind \in {"start", "empty"} -> StartTag(node)
               [] node.kind = "end" -> EndTag(node)
               [] node.kind = "bad" -> BadNode
          /\ mDoc' = Append(mDoc, node)
    BY <1>1 DEF ParseElem
  <2>3. node.kind \in {"start", "empty", "end", "bad"}
    BY DEF MNodes
  <2>4. CASE node.kind \in {"start", "empty"}
    <3>1. StartTag(node)
      BY <2>2, <2>4
    <3> QED
      BY <2>1, <2>2, <2>4, <3>1, StartTagKeeps
  <2>5. CASE node.kind = "end"
    <3>1. EndTag(node)
      BY <2>2, <2>5
    <3>2. CASE Levels(node.tag) = {}
      <4>1. /\ mElem' = Flag(Flag(mElem, 0, "illformed"), mPos, "illdata")
            /\ UNCHANGED <<mPos, mStack, mMatch, mPhase>>
        BY <3>1, <3>2 DEF EndTag
      <4> QED
        BY <2>1, <2>2, <2>5, <4>1, MisplacedKeeps
    <3>3. CASE Levels(node.tag) # {}
      BY <2>1, <2>2, <2>5, <3>1, <3>3, EndTagKeeps
    <3> QED
      BY <3>2, <3>3
  <2>6. CASE node.kind = "bad"
    <3>1. BadNode
      BY <2>2, <2>6
    <3> QED
      BY <2>1, <2>2, <2>6, <3>1, MisplacedKeeps DEF BadNode
  <2> QED
    BY <2>3, <2>4, <2>5, <2>6
<1>2. CASE EndOfDocument
  BY <1>2, EndOfDocumentKeeps
<1>3. CASE Unend
  BY <1>3, UnendKeeps
<1>4. CASE Close
  BY <1>4, CloseKeeps
<1>5. CASE Loaded
  BY <1>5, LoadedKeeps
<1>6. CASE FindElem
  <2>1. Parsed /\ Parsed' /\ mElem' = mElem /\ mDoc' = mDoc /\ mStack' = mStack
    BY <1>6 DEF FindElem, Parsed
  <2> QED
    BY <2>1, TreeLeftAlone
<1>7. CASE UNCHANGED mVars
  <2>1. ElemCount' = ElemCount
    BY <1>7 DEF mVars, ElemCount, Elems
  <2>2. /\ mDoc' = mDoc /\ mElem' = mElem /\ mPos' = mPos /\ mStack' = mStack
        /\ mMatch' = mMatch /\ mPhase' = mPhase
    BY <1>7 DEF mVars
  <2> QED
    BY <2>1, <2>2 DEF TreeInv, MTyped, Parsed
<1> QED
  BY <1>1, <1>2, <1>3, <1>4, <1>5, <1>6, <1>7 DEF MNext

(***************************************************************************)
(* However broken the document is and however long, no element is lost,    *)
(* none is found twice, and each lies within its parent.                   *)
(***************************************************************************)
THEOREM ElementsKept == MSpec => []NoElementLost
<1>1. TreeInv => NoElementLost
  <2> SUFFICES ASSUME TreeInv, Parsed
               PROVE  /\ Cardinality(DOMAIN mElem) = Cardinality(Elems) + 1
                      /\ \A n \in DOMAIN mElem :
                           LET kids == Kids(mElem, n)
                           IN  /\ ToSet(kids) = {m \in DOMAIN mElem \ {0} : mElem[m].parent = n}
                               /\ \A i, j \in DOMAIN kids :
                                    i < j => mElem[kids[i]].start < mElem[kids[j]].start
                               /\ n # 0 => \A i \in DOMAIN kids :
                                    LET k == mElem[kids[i]]
                                    IN  k.start + k.length <= mElem[n].start + mElem[n].length
    BY DEF NoElementLost
  <2>1. /\ Tree(mElem, ElemCount) /\ TextOrder(mElem, Len(mDoc))
        /\ \A x \in DOMAIN mElem \ {0} : Within(mElem, x)
    BY DEF TreeInv, MTyped
  <2>2. ElemCount \in Nat /\ DOMAIN mElem = 0 .. ElemCount
    BY <2>1, Links
  <2>3. Cardinality(DOMAIN mElem) = Cardinality(Elems) + 1
    <3> DEFINE c == ElemCount
    <3>1. c = Cardinality(Elems)
      BY DEF ElemCount
    <3> HIDE DEF c
    <3>2. Cardinality(0 .. c) = IF 0 > c THEN 0 ELSE c - 0 + 1
      BY <2>2, FS_Interval DEF c
    <3> QED
      BY <2>2, <3>1, <3>2 DEF c
  <2>4. ASSUME NEW n \in DOMAIN mElem
        PROVE  LET kids == Kids(mElem, n)
               IN  /\ ToSet(kids) = {m \in DOMAIN mElem \ {0} : mElem[m].parent = n}
                   /\ \A i, j \in DOMAIN kids :
                        i < j => mElem[kids[i]].start < mElem[kids[j]].start
                   /\ n # 0 => \A i \in DOMAIN kids :
                        LET k == mElem[kids[i]]
                        IN  k.start + k.length <= mElem[n].start + mElem[n].length
    <3> DEFINE kids == Kids(mElem, n)
    <3>1. /\ ToSet(kids) = Children(mElem, n)
          /\ \A i, j \in DOMAIN kids : i < j => kids[i] < kids[j]
      BY <2>1, <2>2, KidsAre
    <3>2. \A i \in DOMAIN kids : kids[i] \in Children(mElem, n)
      BY <3>1 DEF ToSet
    <3> HIDE DEF kids
    <3>3. \A i \in DOMAIN kids : kids[i] \in DOMAIN mElem \ {0}
      BY <3>2 DEF Children
    <3>4. ASSUME NEW i \in DOMAIN kids, NEW j \in DOMAIN kids, i < j
          PROVE  mElem[kids[i]].start < mElem[kids[j]].start
      <4>1. kids[i] < kids[j] /\ kids[i] \in DOMAIN mElem \ {0}
            /\ kids[j] \in DOMAIN mElem \ {0}
        BY <3>1, <3>3, <3>4
      <4> QED
        BY <2>1, <4>1 DEF TextOrder
    <3>5. ASSUME n # 0, NEW i \in DOMAIN kids
          PROVE  mElem[kids[i]].start + mElem[kids[i]].length
                   <= mElem[n].start + mElem[n].length
      BY <2>1, <3>2, <3>5 DEF Within, End
    <3>6. ToSet(kids) = {m \in DOMAIN mElem \ {0} : mElem[m].parent = n}
      BY <3>1 DEF Children
    <3> QED
      BY <3>4, <3>5, <3>6 DEF kids
  <2> QED
    BY <2>3, <2>4
<1> QED
  BY <1>1, TreeInit, TreeInductive, PTL DEF MSpec

(**************** What a well-formed document is parsed into ****************)

DepthOf(doc, k) == Cardinality({j \in 1 .. k : doc[j].kind = "start"})
                   - Cardinality({j \in 1 .. k : doc[j].kind = "end"})
StartsAt(doc, k, d) == {j \in 1 .. k : doc[j].kind = "start" /\ DepthOf(doc, j) = d}
Around(doc, k) ==
  IF DepthOf(doc, k - 1) = 0 THEN 0 ELSE LastOf(StartsAt(doc, k - 1, DepthOf(doc, k - 1)))
ElemsOf(doc) == {k \in DOMAIN doc : doc[k].kind \in {"start", "empty"}}
EndsOf(doc, s) == {k \in DOMAIN doc : doc[k].kind = "end" /\ Around(doc, k) = s}

\* The nodes of the document nest.
Fine(doc, k) == /\ doc[k].kind # "bad" /\ DepthOf(doc, k) >= 0
                /\ doc[k].kind = "end" => doc[Around(doc, k)].tag = doc[k].tag
AllFine(doc) == \A k \in DOMAIN doc : Fine(doc, k)

\* p is the start tag last opened at depth i, and not closed.
OpenAt(doc, i, p) ==
  /\ p \in StartsAt(doc, Len(doc), i) /\ \A j \in StartsAt(doc, Len(doc), i) : j <= p
  /\ EndsOf(doc, p) = {}

OpenOnes(w, e, doc, stack, c) ==
  \A i \in 1 .. c : OpenAt(doc, i, e[w[i]].start) /\ doc[e[w[i]].start].tag = stack[i]

\* Element m lies where the text says.
PlacedAt(e, doc, m) ==
  LET s == e[m].start
      u == e[e[m].parent].start
  IN  /\ s \in ElemsOf(doc) /\ u = Around(doc, s)
      /\ IF e[m].parent = 0 THEN DepthOf(doc, s - 1) = 0
         ELSE DepthOf(doc, s - 1) # 0 /\ doc[u].kind = "start" /\ DepthOf(doc, u) = DepthOf(doc, s - 1)

Placed(e, doc) ==
  /\ e[0].start = 0 /\ \A m \in DOMAIN e \ {0} : PlacedAt(e, doc, m)
  /\ \A k \in ElemsOf(doc) : \E m \in DOMAIN e \ {0} : e[m].start = k

EndedAt(e, doc, m) ==
  IF doc[e[m].start].kind = "empty" THEN e[m].length = 1 /\ EndsOf(doc, e[m].start) = {}
  ELSE EndsOf(doc, e[m].start) = {End(e, m) - 1}

Ended(w, e, doc, c) ==
  \A m \in DOMAIN e \ {0} : (\A i \in 1 .. c : w[i] # m) => EndedAt(e, doc, m)

\* The sibling before, or the last one.
Before(e, m) == {k \in Children(e, e[m].parent) : k < m}
IsLast(S, x) == x \in S /\ \A k \in S : k <= x
Ringed(e) ==
  \A m \in DOMAIN e \ {0} :
    IsLast(IF Before(e, m) = {} THEN Children(e, e[m].parent) ELSE Before(e, m), e[m].prev)

Nested(w, e, doc, stack, c) ==
  /\ DepthOf(doc, Len(doc)) = c
  /\ OpenOnes(w, e, doc, stack, c) /\ Placed(e, doc) /\ Ended(w, e, doc, c) /\ Ringed(e)

Clean(e) == "illformed" \notin e[0].flags

\* While the document nests, the open elements are those the text says.
NestInv ==
  /\ TreeInv
  /\ Clean(mElem) <=> AllFine(mDoc) /\ (mPhase \notin {"nodes", "close"} => DepthOf(mDoc, Len(mDoc)) = 0)
  /\ Clean(mElem) =>
       /\ mPhase = "close" => mMatch = Len(mStack)
       /\ mPhase \notin {"nodes", "close"} => Len(mStack) = 0
       /\ \E w : /\ ~Parsed => Way(w, mElem, Len(mStack), mPos)
                 /\ Nested(w, mElem, mDoc, mStack,
                           IF mPhase = "close" THEN Len(mStack) - 1 ELSE Len(mStack))

\* The children of the root up to the current one are not what is looked for.
Matches(k) == LET n == mDoc[mElem[k].start] IN n.tag = "package" /\ n.pkg = MWanted
AtRoot == Children(mElem, mElem[0].child)
LookInv ==
  /\ mPhase # "over" => ~mFound
  /\ mPhase = "find" =>
       /\ IsWellFormed /\ mPos \in AtRoot \cup {0}
       /\ \A k \in AtRoot : k <= mPos => ~Matches(k)
  /\ mPhase = "over" => (mFound <=> IsWellFormed /\ \E k \in AtRoot : Matches(k))

\* What a node adds to the depth.
Climb(node) == IF node.kind = "start" THEN 1 ELSE IF node.kind = "end" THEN -1 ELSE 0

\* How many of the numbers up to k are in a set.
LEMMA CountedUp ==
  ASSUME NEW S, NEW k \in Nat
  PROVE  /\ Cardinality({j \in 1 .. k : j \in S}) \in Nat
         /\ k # 0 => Cardinality({j \in 1 .. k : j \in S}) =
                       Cardinality({j \in 1 .. k - 1 : j \in S}) + IF k \in S THEN 1 ELSE 0
<1> DEFINE C(m) == {j \in 1 .. m : j \in S}
<1>1. \A m \in Nat : IsFiniteSet(C(m)) /\ Cardinality(C(m)) \in Nat
  <2> TAKE m \in Nat
  <2>1. IsFiniteSet(1 .. m)
    BY FS_Interval
  <2>2. C(m) \subseteq 1 .. m
    OBVIOUS
  <2>3. IsFiniteSet(C(m))
    BY <2>1, <2>2, FS_Subset
  <2> QED
    BY <2>3, FS_CardinalityType
<1>2. ASSUME k # 0
      PROVE  Cardinality(C(k)) = Cardinality(C(k - 1)) + IF k \in S THEN 1 ELSE 0
  <2>1. k - 1 \in Nat /\ k \notin C(k - 1) /\ k \in 1 .. k
        /\ \A j \in 1 .. k : j = k \/ j \in 1 .. k - 1
    BY <1>2
  <2>t. IsFiniteSet(C(k - 1)) /\ Cardinality(C(k - 1)) \in Nat
    BY <1>1, <2>1
  <2>2. CASE k \in S
    <3>1. C(k) = C(k - 1) \cup {k}
      BY <2>1, <2>2
    <3> HIDE DEF C
    <3>2. Cardinality(C(k - 1) \cup {k}) = Cardinality(C(k - 1)) + 1
      BY <2>1, <2>t, FS_AddElement
    <3> QED
      BY <2>2, <3>1, <3>2
  <2>3. CASE k \notin S
    <3>1. C(k) = C(k - 1)
      BY <2>1, <2>3
    <3> HIDE DEF C
    <3> QED
      BY <2>3, <2>t, <3>1
  <2> QED
    BY <2>2, <2>3
<1> QED
  BY <1>1, <1>2

\* The depth after each node.
LEMMA Depths ==
  ASSUME NEW doc \in Seq(MNodes)
  PROVE  /\ DepthOf(doc, 0) = 0
         /\ \A k \in 0 .. Len(doc) : DepthOf(doc, k) \in Int
         /\ \A k \in 1 .. Len(doc) : DepthOf(doc, k) = DepthOf(doc, k - 1) + Climb(doc[k])
<1> DEFINE len == Len(doc)
           A == {j \in 1 .. len : doc[j].kind = "start"}
           B == {j \in 1 .. len : doc[j].kind = "end"}
           CA(k) == Cardinality({j \in 1 .. k : j \in A})
           CB(k) == Cardinality({j \in 1 .. k : j \in B})
<1>0. len \in Nat
  OBVIOUS
<1>1. ASSUME NEW k \in 0 .. len
      PROVE  DepthOf(doc, k) = CA(k) - CB(k)
  <2>1. \A j \in 1 .. k : j \in 1 .. len
    BY <1>0
  <2>2. /\ {j \in 1 .. k : doc[j].kind = "start"} = {j \in 1 .. k : j \in A}
        /\ {j \in 1 .. k : doc[j].kind = "end"} = {j \in 1 .. k : j \in B}
    BY <2>1
  <2> HIDE DEF A, B
  <2> QED
    BY <2>2 DEF DepthOf
<1>2. \A j \in 1 .. len : (j \in A <=> doc[j].kind = "start") /\ (j \in B <=> doc[j].kind = "end")
  OBVIOUS
<1> HIDE DEF A, B
<1>3. \A k \in Nat : /\ CA(k) \in Nat /\ CB(k) \in Nat
                     /\ k # 0 => /\ CA(k) = CA(k - 1) + IF k \in A THEN 1 ELSE 0
                                 /\ CB(k) = CB(k - 1) + IF k \in B THEN 1 ELSE 0
  <2> TAKE k \in Nat
  <2>1. CA(k) \in Nat /\ (k # 0 => CA(k) = CA(k - 1) + IF k \in A THEN 1 ELSE 0)
    BY CountedUp
  <2>2. CB(k) \in Nat /\ (k # 0 => CB(k) = CB(k - 1) + IF k \in B THEN 1 ELSE 0)
    BY CountedUp
  <2> QED
    BY <2>1, <2>2
<1>4. CA(0) = 0 /\ CB(0) = 0
  <2>1. {j \in 1 .. 0 : j \in A} = {} /\ {j \in 1 .. 0 : j \in B} = {}
    OBVIOUS
  <2> QED
    BY <2>1, FS_EmptySet
<1> HIDE DEF CA, CB
<1>5. ASSUME NEW k \in 1 .. len
      PROVE  DepthOf(doc, k) = DepthOf(doc, k - 1) + Climb(doc[k])
  <2>1. k \in Nat /\ k # 0 /\ k - 1 \in Nat /\ k \in 0 .. len /\ k - 1 \in 0 .. len
    BY <1>0
  <2>2. DepthOf(doc, k) = CA(k) - CB(k) /\ DepthOf(doc, k - 1) = CA(k - 1) - CB(k - 1)
    BY <1>1, <2>1
  <2>3. /\ CA(k) = CA(k - 1) + IF k \in A THEN 1 ELSE 0
        /\ CB(k) = CB(k - 1) + IF k \in B THEN 1 ELSE 0
        /\ CA(k - 1) \in Nat /\ CB(k - 1) \in Nat
    BY <1>3, <2>1
  <2>4. (k \in A <=> doc[k].kind = "start") /\ (k \in B <=> doc[k].kind = "end")
    BY <1>2
  <2>5. Climb(doc[k]) = IF k \in A THEN 1 ELSE IF k \in B THEN -1 ELSE 0
    BY <2>4 DEF Climb
  <2>6. ~(k \in A /\ k \in B)
    BY <2>4
  <2> QED
    BY <2>2, <2>3, <2>5, <2>6
<1>6. 0 \in 0 .. len /\ \A k \in 0 .. len : k \in Nat
  BY <1>0
<1>7. DepthOf(doc, 0) = 0
  BY <1>1, <1>4, <1>6
<1>8. \A k \in 0 .. len : DepthOf(doc, k) \in Int
  BY <1>1, <1>3, <1>6
<1> QED
  BY <1>5, <1>7, <1>8

\* At a depth there is a start tag that led to it.
LEMMA DepthOpened ==
  ASSUME NEW doc \in Seq(MNodes), NEW k \in 0 .. Len(doc), NEW d \in Nat \ {0},
         d <= DepthOf(doc, k)
  PROVE  StartsAt(doc, k, d) # {}
<1> DEFINE len == Len(doc)
           T == {i \in Nat : i <= len /\ d <= DepthOf(doc, i) => StartsAt(doc, i, d) # {}}
<1>0. /\ len \in Nat /\ DepthOf(doc, 0) = 0
      /\ \A i \in 0 .. len : DepthOf(doc, i) \in Int
      /\ \A i \in 1 .. len : DepthOf(doc, i) = DepthOf(doc, i - 1) + Climb(doc[i])
  BY Depths
<1>1. 0 \in T
  BY <1>0
<1>2. ASSUME NEW i \in Nat, i \in T PROVE i + 1 \in T
  <2> SUFFICES ASSUME i + 1 <= len, d <= DepthOf(doc, i + 1)
               PROVE  StartsAt(doc, i + 1, d) # {}
    OBVIOUS
  <2>1. i + 1 \in 1 .. len /\ (i + 1) - 1 = i /\ i \in 0 .. len /\ i <= len /\ i + 1 \in 0 .. len
    BY <1>0
  <2>2. DepthOf(doc, i + 1) = DepthOf(doc, i) + Climb(doc[i + 1]) /\ DepthOf(doc, i) \in Int
    BY <1>0, <2>1
  <2>3. CASE d <= DepthOf(doc, i)
    <3>1. StartsAt(doc, i, d) # {}
      BY <1>2, <2>1, <2>3
    <3>2. StartsAt(doc, i, d) \subseteq StartsAt(doc, i + 1, d)
      BY DEF StartsAt
    <3> QED
      BY <3>1, <3>2
  <2>4. CASE ~(d <= DepthOf(doc, i))
    <3>1. Climb(doc[i + 1]) \in {1, -1, 0} /\ (Climb(doc[i + 1]) = 1 => doc[i + 1].kind = "start")
      BY DEF Climb
    <3>2. Climb(doc[i + 1]) = 1 /\ DepthOf(doc, i + 1) = d
      BY <2>2, <2>4, <3>1
    <3>3. i + 1 \in StartsAt(doc, i + 1, d)
      BY <2>1, <3>1, <3>2 DEF StartsAt
    <3> QED
      BY <3>3
  <2> QED
    BY <2>3, <2>4
<1>3. k \in Nat /\ k <= len
  BY <1>0
<1> HIDE DEF T
<1>4. k \in T
  BY <1>1, <1>2, <1>3, InductionOver
<1> QED
  BY <1>3, <1>4 DEF T

\* The last of a set of numbers.
LEMMA LastIs ==
  ASSUME NEW m \in Nat, NEW S \in SUBSET (0 .. m)
  PROVE  /\ S # {} => LastOf(S) \in S /\ \A l \in S : l <= LastOf(S)
         /\ \A x \in S : (\A l \in S : l <= x) => LastOf(S) = x
<1>1. ASSUME S # {} PROVE LastOf(S) \in S /\ \A l \in S : l <= LastOf(S)
  <2>1. \E k \in S : \A l \in S : l <= k
    BY <1>1, Greatest
  <2> QED
    BY <2>1, Zenon DEF LastOf
<1>2. ASSUME NEW x \in S, \A l \in S : l <= x PROVE LastOf(S) = x
  <2>1. LastOf(S) \in S /\ \A l \in S : l <= LastOf(S)
    BY <1>1
  <2>2. LastOf(S) <= x /\ x <= LastOf(S)
    BY <1>2, <2>1
  <2>3. \A l \in S : l \in 0 .. m
    OBVIOUS
  <2>4. LastOf(S) \in 0 .. m /\ x \in 0 .. m
    BY <2>1, <2>3
  <2> QED
    BY <2>2, <2>4
<1> QED
  BY <1>1, <1>2

\* What lies around a place of some depth is the last start tag at that depth.
LEMMA AroundIs ==
  ASSUME NEW doc \in Seq(MNodes), NEW k \in 1 .. Len(doc) + 1
  PROVE  /\ DepthOf(doc, k - 1) = 0 => Around(doc, k) = 0
         /\ DepthOf(doc, k - 1) > 0 =>
              /\ Around(doc, k) \in StartsAt(doc, k - 1, DepthOf(doc, k - 1))
              /\ Around(doc, k) \in 1 .. k - 1 /\ Around(doc, k) \in 1 .. Len(doc)
         /\ \A p \in StartsAt(doc, k - 1, DepthOf(doc, k - 1)) :
              DepthOf(doc, k - 1) # 0 /\ (\A j \in StartsAt(doc, k - 1, DepthOf(doc, k - 1)) : j <= p)
                => Around(doc, k) = p
<1> DEFINE d == DepthOf(doc, k - 1)
           S == StartsAt(doc, k - 1, d)
<1>1. k - 1 \in 0 .. Len(doc) /\ d \in Int /\ k - 1 \in Nat /\ Len(doc) \in Nat
  BY Depths
<1>2. Around(doc, k) = IF d = 0 THEN 0 ELSE LastOf(S)
  BY DEF Around
<1>3. S \subseteq 1 .. k - 1
  BY DEF StartsAt
<1>4. S \in SUBSET (0 .. k - 1) /\ \A j \in 1 .. k - 1 : j \in 1 .. Len(doc)
  BY <1>1, <1>3
<1>5. d > 0 => S # {}
  <2>1. d > 0 => d \in Nat \ {0} /\ d <= DepthOf(doc, k - 1)
    BY <1>1
  <2> QED
    BY <1>1, <2>1, DepthOpened
<1> HIDE DEF S, d
<1>6. /\ S # {} => LastOf(S) \in S /\ \A l \in S : l <= LastOf(S)
      /\ \A x \in S : (\A l \in S : l <= x) => LastOf(S) = x
  BY <1>1, <1>4, LastIs
<1>7. d = 0 => Around(doc, k) = 0
  BY <1>2
<1>8. ASSUME d > 0
      PROVE  Around(doc, k) \in S /\ Around(doc, k) \in 1 .. k - 1
             /\ Around(doc, k) \in 1 .. Len(doc)
  <2>1. d # 0 /\ LastOf(S) \in S
    BY <1>1, <1>5, <1>6, <1>8
  <2> QED
    BY <1>2, <1>3, <1>4, <2>1
<1>9. \A p \in S : d # 0 /\ (\A j \in S : j <= p) => Around(doc, k) = p
  BY <1>2, <1>6
<1> QED
  BY <1>7, <1>8, <1>9 DEF S, d

\* While the nodes nest, the depth does not fall below 0, and what lies around a
\* place was before it.
LEMMA GoodDepth ==
  ASSUME NEW doc \in Seq(MNodes), AllFine(doc)
  PROVE  /\ \A k \in 0 .. Len(doc) : DepthOf(doc, k) \in Nat
         /\ \A k \in 1 .. Len(doc) + 1 : Around(doc, k) \in 0 .. k - 1
<1>1. \A k \in 0 .. Len(doc) : DepthOf(doc, k) \in Int /\ (k = 0 => DepthOf(doc, k) = 0)
  BY Depths
<1>2. \A k \in 1 .. Len(doc) : DepthOf(doc, k) >= 0
  <2>1. DOMAIN doc = 1 .. Len(doc)
    OBVIOUS
  <2> QED
    BY <2>1 DEF AllFine, Fine
<1>3. \A k \in 0 .. Len(doc) : DepthOf(doc, k) \in Nat
  BY <1>1, <1>2
<1>4. ASSUME NEW k \in 1 .. Len(doc) + 1 PROVE Around(doc, k) \in 0 .. k - 1
  <2>1. /\ DepthOf(doc, k - 1) = 0 => Around(doc, k) = 0
        /\ DepthOf(doc, k - 1) > 0 => Around(doc, k) \in 1 .. k - 1
    BY AroundIs
  <2>2. k - 1 \in 0 .. Len(doc) /\ k - 1 \in Nat
    OBVIOUS
  <2>3. DepthOf(doc, k - 1) \in Nat
    BY <1>3, <2>2
  <2> QED
    BY <2>1, <2>2, <2>3
<1> QED
  BY <1>3, <1>4

\* One more node leaves what was said of the others.
LEMMA DocLonger ==
  ASSUME NEW doc \in Seq(MNodes), NEW node \in MNodes
  PROVE  LET b == Append(doc, node)
             len == Len(doc)
         IN  /\ b \in Seq(MNodes) /\ Len(b) = len + 1 /\ b[len + 1] = node
             /\ \A k \in 1 .. len : b[k] = doc[k]
             /\ \A k \in 0 .. len : DepthOf(b, k) = DepthOf(doc, k)
             /\ DepthOf(b, len + 1) = DepthOf(doc, len) + Climb(node)
             /\ \A d : StartsAt(b, len + 1, d) =
                         StartsAt(doc, len, d)
                         \cup (IF node.kind = "start" /\ DepthOf(b, len + 1) = d
                               THEN {len + 1} ELSE {})
             /\ \A k \in 1 .. len + 1 : Around(b, k) = Around(doc, k)
             /\ ElemsOf(b) = ElemsOf(doc) \cup (IF node.kind \in {"start", "empty"}
                                                THEN {len + 1} ELSE {})
             /\ \A s : EndsOf(b, s) =
                         EndsOf(doc, s)
                         \cup (IF node.kind = "end" /\ Around(doc, len + 1) = s
                               THEN {len + 1} ELSE {})
<1> DEFINE b == Append(doc, node)
           len == Len(doc)
<1>1. /\ len \in Nat /\ DOMAIN doc = 1 .. len /\ b \in Seq(MNodes) /\ Len(b) = len + 1
      /\ DOMAIN b = 1 .. len + 1 /\ b[len + 1] = node /\ \A k \in 1 .. len : b[k] = doc[k]
  BY AppendProperties
<1> HIDE DEF b, len
<1>2. /\ \A k \in 1 .. len + 1 : k = len + 1 \/ k \in 1 .. len
      /\ \A k \in 1 .. len : k \in 1 .. len + 1 /\ k # len + 1
      /\ len + 1 \in 1 .. len + 1 /\ (len + 1) - 1 = len
  BY <1>1
<1>3. ASSUME NEW k \in 0 .. len PROVE DepthOf(b, k) = DepthOf(doc, k)
  <2>1. \A j \in 1 .. k : j \in 1 .. len
    BY <1>1
  <2>2. /\ {j \in 1 .. k : b[j].kind = "start"} = {j \in 1 .. k : doc[j].kind = "start"}
        /\ {j \in 1 .. k : b[j].kind = "end"} = {j \in 1 .. k : doc[j].kind = "end"}
    BY <1>1, <2>1
  <2> QED
    BY <2>2 DEF DepthOf
<1>4. DepthOf(b, len + 1) = DepthOf(doc, len) + Climb(node)
  <2>1. DepthOf(b, len + 1) = DepthOf(b, (len + 1) - 1) + Climb(b[len + 1])
    BY <1>1, <1>2, Depths
  <2>2. len \in 0 .. len
    BY <1>1
  <2> QED
    BY <1>1, <1>2, <1>3, <2>1, <2>2
<1>5. ASSUME NEW k \in 0 .. len, NEW d PROVE StartsAt(b, k, d) = StartsAt(doc, k, d)
  <2>1. \A j \in 1 .. k : j \in 1 .. len /\ j \in 0 .. len
    BY <1>1
  <2> QED
    BY <1>1, <1>3, <2>1 DEF StartsAt
<1>6. ASSUME NEW d
      PROVE  StartsAt(b, len + 1, d) =
               StartsAt(doc, len, d) \cup (IF node.kind = "start" /\ DepthOf(b, len + 1) = d
                                           THEN {len + 1} ELSE {})
  <2>1. \A j \in 1 .. len : j \in 0 .. len
    BY <1>1
  <2>2. \A j \in 1 .. len : b[j] = doc[j] /\ DepthOf(b, j) = DepthOf(doc, j)
    BY <1>1, <1>3, <2>1
  <2>3. ASSUME NEW j \in 1 .. len + 1
        PROVE  (b[j].kind = "start" /\ DepthOf(b, j) = d) <=>
                 \/ j \in 1 .. len /\ doc[j].kind = "start" /\ DepthOf(doc, j) = d
                 \/ j = len + 1 /\ node.kind = "start" /\ DepthOf(b, len + 1) = d
    BY <1>1, <1>2, <2>2
  <2> QED
    BY <1>2, <2>3 DEF StartsAt
<1>7. ASSUME NEW k \in 1 .. len + 1 PROVE Around(b, k) = Around(doc, k)
  <2>1. k - 1 \in 0 .. len
    BY <1>1
  <2>2. /\ DepthOf(b, k - 1) = DepthOf(doc, k - 1)
        /\ StartsAt(b, k - 1, DepthOf(b, k - 1)) = StartsAt(doc, k - 1, DepthOf(b, k - 1))
    BY <1>3, <1>5, <2>1
  <2> QED
    BY <2>2, Zenon DEF Around
<1>8. ElemsOf(b) = ElemsOf(doc) \cup (IF node.kind \in {"start", "empty"} THEN {len + 1} ELSE {})
  BY <1>1, <1>2 DEF ElemsOf
<1>9. ASSUME NEW s
      PROVE  EndsOf(b, s) = EndsOf(doc, s) \cup (IF node.kind = "end" /\ Around(doc, len + 1) = s
                                                 THEN {len + 1} ELSE {})
  BY <1>1, <1>2, <1>7 DEF EndsOf
<1> QED
  BY <1>1, <1>3, <1>4, <1>6, <1>7, <1>8, <1>9 DEF b, len

\* The node at the end decides whether the nodes still nest.
LEMMA GoodLonger ==
  ASSUME NEW doc \in Seq(MNodes), NEW node \in MNodes
  PROVE  LET b == Append(doc, node)
         IN  AllFine(b) <=> AllFine(doc) /\ Fine(b, Len(doc) + 1)
<1> DEFINE b == Append(doc, node)
           len == Len(doc)
<1>1. /\ b \in Seq(MNodes) /\ Len(b) = len + 1
      /\ \A k \in 1 .. len : b[k] = doc[k]
      /\ \A k \in 0 .. len : DepthOf(b, k) = DepthOf(doc, k)
      /\ \A k \in 1 .. len + 1 : Around(b, k) = Around(doc, k)
  BY DocLonger
<1> HIDE DEF b
<1>2. len \in Nat /\ DOMAIN doc = 1 .. len /\ DOMAIN b = 1 .. len + 1
  BY <1>1
<1>3. ASSUME NEW k \in 1 .. len PROVE Fine(b, k) <=> Fine(doc, k)
  <2>1. /\ k \in 0 .. len /\ k - 1 \in 0 .. len /\ k \in 1 .. len + 1 /\ k \in 1 .. Len(doc) + 1
    BY <1>2
  <2>2. b[k] = doc[k] /\ DepthOf(b, k) = DepthOf(doc, k) /\ Around(b, k) = Around(doc, k)
    BY <1>1, <2>1
  <2>3. DepthOf(doc, k) = DepthOf(doc, k - 1) + Climb(doc[k]) /\ DepthOf(doc, k - 1) \in Int
    BY <2>1, Depths
  <2>4. CASE doc[k].kind = "end" /\ DepthOf(doc, k) >= 0
    <3>1. Climb(doc[k]) = -1
      BY <2>4 DEF Climb
    <3>2. DepthOf(doc, k - 1) > 0
      BY <2>3, <2>4, <3>1
    <3>3. Around(doc, k) \in 1 .. len
      BY <2>1, <3>2, AroundIs
    <3>4. b[Around(doc, k)] = doc[Around(doc, k)]
      BY <1>1, <3>3
    <3> QED
      BY <2>2, <3>4 DEF Fine
  <2>5. CASE ~(doc[k].kind = "end" /\ DepthOf(doc, k) >= 0)
    BY <2>2, <2>5 DEF Fine
  <2> QED
    BY <2>4, <2>5
<1>4. \A k \in 1 .. len + 1 : k = len + 1 \/ k \in 1 .. len
  BY <1>2
<1>5. len + 1 \in 1 .. len + 1 /\ \A k \in 1 .. len : k \in 1 .. len + 1
  BY <1>2
<1> HIDE DEF len
<1>6. AllFine(b) <=> AllFine(doc) /\ Fine(b, len + 1)
  BY <1>2, <1>3, <1>4, <1>5 DEF AllFine
<1> QED
  BY <1>6 DEF b, len

\* There is one way to the open element.
LEMMA OneWay ==
  ASSUME NEW n, Tree(mElem, n), NEW d \in Nat, NEW w, Way(w, mElem, d, mPos),
         NEW v, Way(v, mElem, d, mPos)
  PROVE  w = v
<1>1. \A k \in 0 .. d : d - k \in 0 .. d /\ d - (d - k) = k
  OBVIOUS
<1>2. ASSUME NEW k \in 0 .. d PROVE w[k] = v[k]
  <2>1. Up(d - k) = w[d - (d - k)]
    BY <1>1, UpTheWay
  <2>2. Up(d - k) = v[d - (d - k)]
    BY <1>1, UpTheWay
  <2>3. d - (d - k) = k
    BY <1>1
  <2> QED
    BY <2>1, <2>2, <2>3
<1>3. w \in [0 .. d -> DOMAIN mElem] /\ v \in [0 .. d -> DOMAIN mElem]
  BY DEF Way
<1> QED
  BY <1>2, <1>3

\* A flag stays.
LEMMA FlagsStay ==
  ASSUME NEW n, NEW e, Tree(e, n), NEW k \in 0 .. n, NEW x
  PROVE  /\ ~Clean(e) => ~Clean(Flag(e, k, x))
         /\ k = 0 /\ x = "illformed" => ~Clean(Flag(e, k, x))
<1> DEFINE f == Flag(e, k, x)
<1>1. /\ DOMAIN e = 0 .. n /\ 0 \in 0 .. n /\ n \in Nat
      /\ \A m \in 0 .. n : e[m] \in Element
  BY Links
<1> DEFINE r == [e[k] EXCEPT !.flags = e[k].flags \cup {x}]
<1>2. f = [e EXCEPT ![k] = r]
  BY DEF Flag
<1>3. r.flags = e[k].flags \cup {x}
  BY <1>1 DEF Element
<1> HIDE DEF r, f
<1>4. f[0].flags = IF k = 0 THEN e[0].flags \cup {x} ELSE e[0].flags
  BY <1>1, <1>2, <1>3
<1> QED
  BY <1>4 DEF Clean, f

\* The length of an element is no flag.
LEMMA SizedFlags ==
  ASSUME NEW n, NEW e, Tree(e, n), NEW p \in 0 .. n, NEW len
  PROVE  Clean(Sized(e, p, len)) <=> Clean(e)
<1> DEFINE f == Sized(e, p, len)
           r == [e[p] EXCEPT !.length = len + 1 - e[p].start + 1]
<1>1. /\ DOMAIN e = 0 .. n /\ 0 \in 0 .. n /\ n \in Nat
      /\ \A m \in 0 .. n : e[m] \in Element
  BY Links
<1>2. f = [e EXCEPT ![p] = r]
  BY DEF Sized
<1>3. r.flags = e[p].flags
  BY <1>1 DEF Element
<1> HIDE DEF r
<1>4. f[0].flags = e[0].flags
  BY <1>1, <1>2, <1>3
<1> QED
  BY <1>4 DEF Clean

\* An unended element takes no flag from ELEM(0).
LEMMA UnendedFlags ==
  ASSUME NEW n, NEW e, Tree(e, n), NEW q \in 1 .. n, NEW flags
  PROVE  Clean(LeftUnended(e, q, flags)) <=> Clean(e)
<1> DEFINE f == LeftUnended(e, q, flags)
           h == Hand(e, q)
<1>1. DOMAIN e = 0 .. n /\ 0 \in 0 .. n /\ n \in Nat /\ q # 0 /\ q \in 0 .. n
  BY Links
<1>2. ToSet(Kids(e, q)) = Children(e, q)
  BY <1>1, KidsAre
<1>3. h[0] = e[0]
  <2>1. 0 \notin ToSet(Kids(e, q))
    BY <1>2 DEF Children
  <2> QED
    BY <1>1, <2>1, Zenon DEF Hand
<1>4. f[0] = h[0]
  <2> HIDE DEF h
  <2> DEFINE r == [h[q] EXCEPT !.flags = flags, !.child = 0, !.length = 1, !.next = h[q].child]
  <2>1. f = [h EXCEPT ![q] = r]
    BY DEF LeftUnended, h
  <2> HIDE DEF f, r
  <2>2. DOMAIN h = 0 .. n
    BY <1>1 DEF h, Hand
  <2> QED
    BY <1>1, <2>1, <2>2
<1> QED
  BY <1>3, <1>4 DEF Clean

\* What a child's start says, and where it is.
LEMMA PlacedIn ==
  ASSUME NEW n, NEW e, Tree(e, n), NEW doc \in Seq(MNodes), Placed(e, doc),
         TextOrder(e, Len(doc))
  PROVE  /\ \A m \in 1 .. n : /\ e[m].start \in 1 .. Len(doc) /\ e[m].parent \in 0 .. n
                              /\ e[m].start \in ElemsOf(doc)
                              /\ PlacedAt(e, doc, m)
         /\ \A m, k \in 0 .. n : e[m].start = e[k].start => m = k
<1>1. /\ n \in Nat /\ DOMAIN e = 0 .. n /\ \A m \in 1 .. n : m \in DOMAIN e \ {0}
      /\ \A m \in 1 .. n : e[m].parent \in 0 .. n
  BY Links
<1>2. DOMAIN doc = 1 .. Len(doc) /\ Len(doc) \in Nat
  OBVIOUS
<1>3. \A m \in 1 .. n : PlacedAt(e, doc, m)
  BY <1>1 DEF Placed
<1>4. \A m \in 1 .. n : e[m].start \in ElemsOf(doc)
  BY <1>3 DEF PlacedAt
<1>5. \A m \in 1 .. n : e[m].start \in 1 .. Len(doc)
  BY <1>2, <1>4 DEF ElemsOf
<1>6. e[0].start = 0
  BY DEF Placed
<1>7. ASSUME NEW m \in 0 .. n, NEW k \in 0 .. n, e[m].start = e[k].start PROVE m = k
  <2>1. CASE m = 0 \/ k = 0
    <3>1. \A i \in 0 .. n : i = 0 \/ e[i].start \in 1 .. Len(doc)
      BY <1>1, <1>5
    <3>2. \A i \in 0 .. n : i = 0 \/ e[i].start # 0
      BY <1>2, <3>1
    <3> QED
      BY <1>6, <1>7, <2>1, <3>2
  <2>2. CASE m # 0 /\ k # 0
    <3>1. m \in DOMAIN e \ {0} /\ k \in DOMAIN e \ {0} /\ m \in Nat /\ k \in Nat
      BY <1>1, <2>2
    <3>2. e[m].start \in Nat /\ e[k].start \in Nat
      BY <1>2, <1>5, <2>2
    <3>3. (m < k => e[m].start < e[k].start) /\ (k < m => e[k].start < e[m].start)
      BY <3>1 DEF TextOrder
    <3> QED
      BY <1>7, <3>1, <3>2, <3>3
  <2> QED
    BY <2>1, <2>2
<1> QED
  BY <1>1, <1>3, <1>4, <1>5, <1>7

\* The innermost open element is around what comes next.
LEMMA InnermostAround ==
  ASSUME NEW n, NEW e, Tree(e, n), NEW doc \in Seq(MNodes), NEW d \in Nat, NEW w, NEW pos,
         Way(w, e, d, pos), NEW stack, OpenOnes(w, e, doc, stack, d), Placed(e, doc),
         DepthOf(doc, Len(doc)) = d
  PROVE  /\ Around(doc, Len(doc) + 1) = e[pos].start /\ pos \in 0 .. n
         /\ pos = 0 <=> d = 0
         /\ d # 0 => /\ doc[e[pos].start].kind = "start" /\ DepthOf(doc, e[pos].start) = d
                     /\ e[pos].start \in 1 .. Len(doc) /\ doc[e[pos].start].tag = stack[d]
<1> DEFINE len == Len(doc)
<1>1. /\ len + 1 \in 1 .. len + 1 /\ (len + 1) - 1 = len /\ len \in Nat /\ DOMAIN e = 0 .. n
      /\ n \in Nat /\ \A p : Children(e, p) \subseteq 1 .. n
  BY Links
<1>2. w \in [0 .. d -> 0 .. n] /\ w[0] = 0 /\ w[d] = pos /\ d \in 0 .. d
  BY <1>1 DEF Way
<1>3. pos \in 0 .. n
  BY <1>2
<1>4. CASE d = 0
  <2>1. pos = 0 /\ e[0].start = 0
    BY <1>2, <1>4 DEF Placed
  <2>2. DepthOf(doc, (len + 1) - 1) = 0
    BY <1>1, <1>4
  <2>3. Around(doc, len + 1) = 0
    BY <1>1, <2>2, AroundIs
  <2> QED
    BY <1>3, <1>4, <2>1, <2>3
<1>5. CASE d # 0
  <2>1. d \in 1 .. d
    BY <1>5
  <2>2. pos \in Children(e, w[d - 1])
    BY <1>2, <2>1 DEF Way
  <2>3. pos \in 1 .. n /\ pos # 0
    BY <1>1, <2>2
  <2> DEFINE p == e[pos].start
  <2>4. OpenAt(doc, d, p) /\ doc[p].tag = stack[d]
    BY <1>2, <2>1 DEF OpenOnes
  <2>5. p \in StartsAt(doc, len, d) /\ \A j \in StartsAt(doc, len, d) : j <= p
    BY <2>4 DEF OpenAt
  <2>6. p \in 1 .. len /\ doc[p].kind = "start" /\ DepthOf(doc, p) = d
    BY <2>5 DEF StartsAt
  <2>7. Around(doc, len + 1) = p
    <3>1. DepthOf(doc, (len + 1) - 1) = d
      BY <1>1
    <3> HIDE DEF p, len
    <3>2. \A q \in StartsAt(doc, (len + 1) - 1, DepthOf(doc, (len + 1) - 1)) :
            DepthOf(doc, (len + 1) - 1) # 0
              /\ (\A j \in StartsAt(doc, (len + 1) - 1, DepthOf(doc, (len + 1) - 1)) : j <= q)
              => Around(doc, len + 1) = q
      BY <1>1, AroundIs DEF len
    <3> QED
      BY <1>1, <1>5, <2>5, <3>1, <3>2
  <2> QED
    BY <1>3, <1>5, <2>3, <2>4, <2>6, <2>7
<1> QED
  BY <1>4, <1>5

\* The elements, and one more in the open one, which starts behind len.
Adds(f, e, n, pos, len) ==
  /\ DOMAIN f = 0 .. n + 1
  /\ f[n + 1].parent = pos /\ f[n + 1].start = len + 1 /\ f[n + 1].length = 1
  /\ \A m \in 0 .. n : f[m].parent = e[m].parent /\ f[m].start = e[m].start
                       /\ f[m].length = e[m].length

\* A start tag: who is open, and where.
LEMMA StartOpens ==
  ASSUME NEW n, NEW e, Tree(e, n), NEW doc \in Seq(MNodes), AllFine(doc),
         NEW node \in MNodes, node.kind \in {"start", "empty"},
         NEW d \in Nat, NEW w, NEW pos, Way(w, e, d, pos),
         NEW stack \in Seq(MTags), Len(stack) = d, OpenOnes(w, e, doc, stack, d),
         DepthOf(doc, Len(doc)) = d,
         NEW f, Adds(f, e, n, pos, Len(doc))
  PROVE  LET b == Append(doc, node)
         IN  /\ node.kind = "empty" => DepthOf(b, Len(b)) = d /\ OpenOnes(w, f, b, stack, d)
             /\ node.kind = "start" =>
                  /\ DepthOf(b, Len(b)) = d + 1
                  /\ \A tags : OpenOnes(w, f, b, tags, d) /\ tags[d + 1] = node.tag
                       => OpenOnes(Longer(w, d, n + 1), f, b, tags, d + 1)
             /\ \A tags : (\A i \in 1 .. d : tags[i] = stack[i]) => OpenOnes(w, f, b, tags, d)
<1> DEFINE b == Append(doc, node)
           len == Len(doc)
<1>1. /\ Len(b) = len + 1 /\ b[len + 1] = node
      /\ \A k \in 1 .. len : b[k] = doc[k]
      /\ DepthOf(b, len + 1) = DepthOf(doc, len) + Climb(node)
      /\ \A i : StartsAt(b, len + 1, i) =
                  StartsAt(doc, len, i)
                  \cup (IF node.kind = "start" /\ DepthOf(b, len + 1) = i THEN {len + 1} ELSE {})
      /\ \A s : EndsOf(b, s) = EndsOf(doc, s)
                  \cup (IF node.kind = "end" /\ Around(doc, len + 1) = s THEN {len + 1} ELSE {})
  BY DocLonger
<1> HIDE DEF b
<1>2. \A s : EndsOf(b, s) = EndsOf(doc, s)
  BY <1>1
<1>3. len \in Nat /\ n \in Nat /\ DOMAIN e = 0 .. n /\ \A p : Children(e, p) \subseteq 1 .. n
  BY Links
<1>4. w \in [0 .. d -> 0 .. n]
  BY <1>3 DEF Way
<1> HIDE DEF len
<1>5. /\ node.kind = "empty" => DepthOf(b, len + 1) = d
      /\ node.kind = "start" => DepthOf(b, len + 1) = d + 1
  <2>1. Climb(node) = IF node.kind = "start" THEN 1 ELSE 0
    BY DEF Climb
  <2> QED
    BY <1>1, <2>1 DEF len
<1>6. ASSUME NEW i \in 1 .. d PROVE StartsAt(b, len + 1, i) = StartsAt(doc, len, i)
  <2>1. ~(node.kind = "start" /\ DepthOf(b, len + 1) = i)
    BY <1>5
  <2> QED
    BY <1>1, <2>1
<1>7. ASSUME NEW i \in 1 .. d
      PROVE  /\ OpenAt(b, i, f[w[i]].start) /\ b[f[w[i]].start].tag = stack[i]
  <2>1. w[i] \in 0 .. n /\ f[w[i]].start = e[w[i]].start
    BY <1>4 DEF Adds
  <2>2. OpenAt(doc, i, e[w[i]].start) /\ doc[e[w[i]].start].tag = stack[i]
    BY DEF OpenOnes
  <2>3. e[w[i]].start \in 1 .. len
    BY <2>2 DEF OpenAt, StartsAt, len
  <2>4. OpenAt(b, i, e[w[i]].start)
    BY <1>1, <1>2, <1>6, <2>2 DEF OpenAt, len
  <2> QED
    BY <1>1, <2>1, <2>2, <2>3, <2>4
<1>8. ASSUME NEW tags, \A i \in 1 .. d : tags[i] = stack[i] PROVE OpenOnes(w, f, b, tags, d)
  BY <1>7, <1>8 DEF OpenOnes
<1>9. ASSUME node.kind = "start", NEW tags, OpenOnes(w, f, b, tags, d), tags[d + 1] = node.tag
      PROVE  OpenOnes(Longer(w, d, n + 1), f, b, tags, d + 1)
  <2> DEFINE v == Longer(w, d, n + 1)
  <2>1. v[d + 1] = n + 1 /\ \A i \in 1 .. d : v[i] = w[i]
    BY DEF Longer
  <2> HIDE DEF v
  <2>2. f[v[d + 1]].start = len + 1
    BY <2>1 DEF Adds, len
  <2>3. OpenAt(b, d + 1, len + 1)
    <3>1. len + 1 \in StartsAt(b, len + 1, d + 1)
      BY <1>1, <1>5, <1>9
    <3>2. \A j \in StartsAt(b, len + 1, d + 1) : j <= len + 1
      BY DEF StartsAt
    <3>3. EndsOf(doc, len + 1) = {}
      <4>1. ASSUME NEW k \in DOMAIN doc PROVE Around(doc, k) # len + 1
        <5>1. k \in 1 .. len + 1 /\ k \in 1 .. len
          BY <1>3 DEF len
        <5>2. Around(doc, k) \in 0 .. k - 1
          BY <5>1, GoodDepth DEF len
        <5> QED
          BY <1>3, <5>1, <5>2
      <4> QED
        BY <4>1 DEF EndsOf
    <3> QED
      BY <1>1, <1>2, <3>1, <3>2, <3>3 DEF OpenAt
  <2>4. ASSUME NEW i \in 1 .. d + 1
        PROVE  OpenAt(b, i, f[v[i]].start) /\ b[f[v[i]].start].tag = tags[i]
    <3>1. CASE i = d + 1
      BY <1>1, <1>9, <2>2, <2>3, <3>1
    <3>2. CASE i # d + 1
      <4>1. i \in 1 .. d /\ v[i] = w[i]
        BY <2>1, <3>2
      <4> QED
        BY <1>9, <4>1 DEF OpenOnes
    <3> QED
      BY <3>1, <3>2
  <2> QED
    BY <2>4 DEF OpenOnes, v
<1> QED
  BY <1>1, <1>5, <1>7, <1>8, <1>9 DEF b, len, OpenOnes

\* A start tag: the new element lies in the open one.
LEMMA StartPlaces ==
  ASSUME NEW n, NEW e, Tree(e, n), NEW doc \in Seq(MNodes), Placed(e, doc),
         TextOrder(e, Len(doc)), NEW node \in MNodes, node.kind \in {"start", "empty"},
         NEW d \in Nat, NEW w, NEW pos, Way(w, e, d, pos), NEW stack,
         OpenOnes(w, e, doc, stack, d), DepthOf(doc, Len(doc)) = d,
         NEW f, Adds(f, e, n, pos, Len(doc))
  PROVE  Placed(f, Append(doc, node))
<1> DEFINE b == Append(doc, node)
           len == Len(doc)
<1>1. /\ Len(b) = len + 1 /\ b[len + 1] = node
      /\ \A k \in 1 .. len : b[k] = doc[k]
      /\ \A k \in 0 .. len : DepthOf(b, k) = DepthOf(doc, k)
      /\ \A k \in 1 .. len + 1 : Around(b, k) = Around(doc, k)
      /\ ElemsOf(b) = ElemsOf(doc) \cup (IF node.kind \in {"start", "empty"}
                                                THEN {len + 1} ELSE {})
  BY DocLonger
<1> HIDE DEF b
<1>2. ElemsOf(b) = ElemsOf(doc) \cup {len + 1}
  BY <1>1
<1>3. /\ Around(doc, len + 1) = e[pos].start /\ pos \in 0 .. n
      /\ pos = 0 <=> d = 0
      /\ d # 0 => /\ doc[e[pos].start].kind = "start" /\ DepthOf(doc, e[pos].start) = d
                  /\ e[pos].start \in 1 .. len
  BY InnermostAround
<1>4. \A m \in 1 .. n : /\ e[m].start \in 1 .. len /\ e[m].parent \in 0 .. n
                        /\ e[m].start \in ElemsOf(doc) /\ PlacedAt(e, doc, m)
  BY PlacedIn
<1>5. /\ n \in Nat /\ len \in Nat /\ 0 \in 0 .. n /\ n + 1 # 0 /\ DOMAIN e = 0 .. n
      /\ \A m \in 0 .. n + 1 : m = n + 1 \/ m \in 0 .. n
      /\ \A m \in 0 .. n : m = 0 \/ m \in 1 .. n
      /\ (len + 1) - 1 = len /\ len \in 0 .. len /\ len + 1 \in 1 .. len + 1
      /\ \A k \in 1 .. len : k \in 1 .. len + 1 /\ k - 1 \in 0 .. len /\ k \in 0 .. len
      /\ \A m \in 1 .. n : m \in 0 .. n
  BY Links
<1>d. DepthOf(doc, len) = d
  OBVIOUS
<1> HIDE DEF len
<1>a. /\ DOMAIN f = 0 .. n + 1
      /\ f[n + 1].parent = pos /\ f[n + 1].start = len + 1
      /\ \A m \in 0 .. n : f[m].parent = e[m].parent /\ f[m].start = e[m].start
  BY DEF Adds, len
<1>6. f[0].start = 0
  BY <1>5, <1>a DEF Placed
<1>7. PlacedAt(f, b, n + 1)
  <2>1. f[f[n + 1].parent].start = e[pos].start
    BY <1>3, <1>a
  <2>2. Around(b, len + 1) = e[pos].start /\ DepthOf(b, (len + 1) - 1) = d
    BY <1>1, <1>3, <1>5, <1>d
  <2>3. d # 0 => b[e[pos].start].kind = "start" /\ DepthOf(b, e[pos].start) = d
    BY <1>1, <1>3, <1>5
  <2>4. len + 1 \in ElemsOf(b)
    BY <1>2
  <2> QED
    BY <1>3, <1>a, <2>1, <2>2, <2>3, <2>4 DEF PlacedAt
<1>8. ASSUME NEW m \in 1 .. n PROVE PlacedAt(f, b, m)
  <2> DEFINE s == e[m].start
             p == e[m].parent
             u == e[p].start
  <2>1. /\ s \in 1 .. len /\ s \in ElemsOf(doc) /\ p \in 0 .. n /\ u = Around(doc, s)
        /\ IF p = 0 THEN DepthOf(doc, s - 1) = 0
           ELSE DepthOf(doc, s - 1) # 0 /\ doc[u].kind = "start" /\ DepthOf(doc, u) = DepthOf(doc, s - 1)
    BY <1>4 DEF PlacedAt
  <2>2. f[m].start = s /\ f[m].parent = p /\ f[p].start = u
    BY <1>5, <1>a, <2>1
  <2>3. p # 0 => u \in 1 .. len
    BY <1>4, <1>5, <2>1
  <2> HIDE DEF s, p, u
  <2>4. Around(b, s) = u /\ DepthOf(b, s - 1) = DepthOf(doc, s - 1) /\ s \in ElemsOf(b)
    BY <1>1, <1>2, <1>5, <2>1
  <2>5. p # 0 => b[u] = doc[u] /\ DepthOf(b, u) = DepthOf(doc, u)
    BY <1>1, <1>5, <2>3
  <2> QED
    BY <2>1, <2>2, <2>4, <2>5 DEF PlacedAt
<1>9. ASSUME NEW m \in DOMAIN f \ {0} PROVE PlacedAt(f, b, m)
  BY <1>5, <1>7, <1>8, <1>a
<1>10. ASSUME NEW k \in ElemsOf(b) PROVE \E m \in DOMAIN f \ {0} : f[m].start = k
  <2>1. CASE k = len + 1
    <3>1. n + 1 \in DOMAIN f \ {0}
      BY <1>5, <1>a
    <3> QED
      BY <1>a, <2>1, <3>1
  <2>2. CASE k # len + 1
    <3>1. k \in ElemsOf(doc)
      BY <1>2, <2>2
    <3>2. PICK m \in DOMAIN e \ {0} : e[m].start = k
      BY <3>1 DEF Placed
    <3>3. m \in DOMAIN f \ {0} /\ m \in 0 .. n
      BY <1>5, <1>a
    <3> QED
      BY <1>a, <3>2, <3>3
  <2> QED
    BY <2>1, <2>2
<1> QED
  BY <1>6, <1>9, <1>10 DEF Placed, b

\* A start tag: the new element ends with it, or is open.
LEMMA StartEnds ==
  ASSUME NEW n, NEW e, Tree(e, n), NEW doc \in Seq(MNodes), AllFine(doc), Placed(e, doc),
         TextOrder(e, Len(doc)), NEW node \in MNodes, node.kind \in {"start", "empty"},
         NEW d \in Nat, NEW w, w \in [0 .. d -> DOMAIN e], Ended(w, e, doc, d),
         NEW pos, NEW f, Adds(f, e, n, pos, Len(doc))
  PROVE  LET b == Append(doc, node)
         IN  /\ node.kind = "empty" => Ended(w, f, b, d)
             /\ node.kind = "start" => Ended(Longer(w, d, n + 1), f, b, d + 1)
<1> DEFINE b == Append(doc, node)
           len == Len(doc)
           v == Longer(w, d, n + 1)
<1>1. /\ b[len + 1] = node
      /\ \A k \in 1 .. len : b[k] = doc[k]
      /\ \A s : EndsOf(b, s) = EndsOf(doc, s)
                  \cup (IF node.kind = "end" /\ Around(doc, len + 1) = s THEN {len + 1} ELSE {})
  BY DocLonger
<1> HIDE DEF b
<1>2. \A s : EndsOf(b, s) = EndsOf(doc, s)
  BY <1>1
<1>3. /\ n \in Nat /\ len \in Nat /\ DOMAIN e = 0 .. n
      /\ \A m \in 0 .. n + 1 : m = n + 1 \/ m \in 0 .. n
      /\ \A m \in 1 .. n : m \in DOMAIN e \ {0} /\ m \in 0 .. n
      /\ \A m \in 0 .. n : m # 0 => m \in 1 .. n
  BY Links
<1>4. \A m \in 1 .. n : e[m].start \in 1 .. len
  BY PlacedIn
<1>e. EndsOf(doc, len + 1) = {}
  <2>1. ASSUME NEW k \in DOMAIN doc PROVE Around(doc, k) # len + 1
    <3>1. k \in 1 .. len + 1 /\ k \in 1 .. len
      BY <1>3
    <3>2. Around(doc, k) \in 0 .. k - 1
      BY <3>1, GoodDepth
    <3> QED
      BY <1>3, <3>1, <3>2
  <2> QED
    BY <2>1 DEF EndsOf
<1> HIDE DEF len
<1>a. /\ DOMAIN f = 0 .. n + 1
      /\ f[n + 1].start = len + 1 /\ f[n + 1].length = 1
      /\ \A m \in 0 .. n : f[m].start = e[m].start /\ f[m].length = e[m].length
  BY DEF Adds, len
<1>5. ASSUME NEW m \in 1 .. n, EndedAt(e, doc, m) PROVE EndedAt(f, b, m)
  <2>1. e[m].start \in 1 .. len /\ f[m].start = e[m].start /\ f[m].length = e[m].length
    BY <1>3, <1>4, <1>a
  <2>2. b[e[m].start] = doc[e[m].start]
    BY <1>1, <2>1
  <2> QED
    BY <1>2, <1>5, <2>1, <2>2 DEF EndedAt, End
<1>6. ASSUME node.kind = "empty" PROVE Ended(w, f, b, d)
  <2> SUFFICES ASSUME NEW m \in DOMAIN f \ {0}, \A i \in 1 .. d : w[i] # m
               PROVE  EndedAt(f, b, m)
    BY DEF Ended
  <2>1. CASE m = n + 1
    BY <1>1, <1>2, <1>6, <1>a, <1>e, <2>1 DEF EndedAt
  <2>2. CASE m # n + 1
    <3>1. m \in 1 .. n /\ m \in DOMAIN e \ {0}
      BY <1>3, <1>a, <2>2
    <3>2. EndedAt(e, doc, m)
      BY <3>1 DEF Ended
    <3> QED
      BY <1>5, <3>1, <3>2
  <2> QED
    BY <2>1, <2>2
<1>7. Ended(v, f, b, d + 1)
  <2>1. v[d + 1] = n + 1 /\ \A i \in 1 .. d : v[i] = w[i] /\ i \in 1 .. d + 1
    BY DEF Longer
  <2>0. d + 1 \in 1 .. d + 1
    OBVIOUS
  <2> HIDE DEF v
  <2> SUFFICES ASSUME NEW m \in DOMAIN f \ {0}, \A i \in 1 .. d + 1 : v[i] # m
               PROVE  EndedAt(f, b, m)
    BY DEF Ended
  <2>2. m # n + 1 /\ \A i \in 1 .. d : w[i] # m
    BY <2>0, <2>1
  <2>3. m \in 1 .. n /\ m \in DOMAIN e \ {0}
    BY <1>3, <1>a, <2>2
  <2>4. EndedAt(e, doc, m)
    BY <2>2, <2>3 DEF Ended
  <2> QED
    BY <1>5, <2>3, <2>4
<1> QED
  BY <1>6, <1>7 DEF b, v

\* An element of the tree with no child before it is the first one of its parent.
LEMMA FirstChild ==
  ASSUME NEW n, NEW e, Tree(e, n), NEW m \in 1 .. n
  PROVE  Before(e, m) = {} <=> m = e[e[m].parent].child
<1> DEFINE p == e[m].parent
<1>1. /\ p \in 0 .. n /\ m \in Children(e, p) /\ Least(Children(e, p), e[p].child)
      /\ Children(e, p) \subseteq 1 .. n
  BY Links
<1>2. Before(e, m) = {k \in Children(e, p) : k < m}
  BY DEF Before
<1> HIDE DEF p
<1>3. e[p].child \in Children(e, p) /\ \A k \in Children(e, p) : e[p].child <= k
  BY <1>1 DEF Least
<1>4. \A k \in Children(e, p) : k \in Nat
  BY <1>1
<1>5. ASSUME Before(e, m) = {} PROVE m = e[p].child
  <2>1. ~(e[p].child < m) /\ e[p].child <= m /\ e[p].child \in Nat /\ m \in Nat
    BY <1>1, <1>2, <1>3, <1>4, <1>5
  <2> QED
    BY <2>1
<1>6. ASSUME m = e[p].child PROVE Before(e, m) = {}
  <2>1. \A k \in Children(e, p) : ~(k < m)
    BY <1>1, <1>3, <1>4, <1>6
  <2> QED
    BY <1>2, <2>1
<1> QED
  BY <1>5, <1>6 DEF p

\* A new child: the sibling before it was the last one.
LEMMA ChildRings ==
  ASSUME NEW n, NEW e, Tree(e, n), mPos \in 0 .. n, LastKnown(e, mPos),
         NEW rec \in Element, rec.parent = mPos, rec.child = 0, rec.next = 0, Ringed(e)
  PROVE  Ringed(AddChild(e, n + 1, rec))
<1> DEFINE f == AddChild(e, n + 1, rec)
           new == n + 1
           C == Children(e, mPos)
           last == e[e[mPos].child].prev
<1>1. /\ f \in [0 .. n + 1 -> Element] /\ f[n + 1].parent = mPos
      /\ C # {} => last \in C /\ \A k \in C : k <= last
      /\ \A m \in 0 .. n :
           /\ f[m].parent = e[m].parent
           /\ C # {} /\ m = e[mPos].child => f[m].prev = n + 1
           /\ C = {} \/ m # e[mPos].child => f[m].prev = e[m].prev
           /\ m \notin C => f[m].prev = e[m].prev
      /\ f[n + 1].prev = IF C = {} THEN n + 1 ELSE last
  BY AddChildLinks
<1>2. \A p \in 0 .. n : Children(f, p) = Children(e, p) \cup (IF p = mPos THEN {n + 1} ELSE {})
  BY Added
<1> HIDE DEF f
<1>3. /\ n \in Nat /\ DOMAIN f = 0 .. n + 1 /\ DOMAIN e = 0 .. n /\ C \subseteq 1 .. n
      /\ \A p : Children(e, p) \subseteq 1 .. n
  BY <1>1, Links
<1>4. IsLast(IF Before(f, new) = {} THEN Children(f, mPos) ELSE Before(f, new), f[new].prev)
  <2>1. Before(f, new) = C
    <3>1. Children(f, mPos) = C \cup {new} /\ \A k \in C : k < new
      BY <1>2, <1>3
    <3> QED
      BY <1>1, <1>3, <3>1 DEF Before
  <2>2. CASE C = {}
    <3>1. Children(f, mPos) = {new} /\ f[new].prev = new
      BY <1>1, <1>2, <2>2
    <3> QED
      BY <1>3, <2>1, <2>2, <3>1 DEF IsLast
  <2>3. CASE C # {}
    BY <1>1, <2>1, <2>3 DEF IsLast
  <2> QED
    BY <2>2, <2>3
<1>5. ASSUME NEW m \in 1 .. n
      PROVE  IsLast(IF Before(f, m) = {} THEN Children(f, f[m].parent) ELSE Before(f, m), f[m].prev)
  <2> DEFINE p == e[m].parent
  <2>1. m \in 0 .. n /\ m \in DOMAIN e \ {0} /\ p \in 0 .. n /\ m \in Children(e, p)
    BY <1>3, Links
  <2>2. f[m].parent = p /\ Children(f, p) = Children(e, p) \cup (IF p = mPos THEN {new} ELSE {})
    BY <1>1, <1>2, <2>1
  <2>3. Before(f, m) = Before(e, m)
    <3>1. ~(new < m)
      BY <1>3
    <3> QED
      BY <2>2, <3>1 DEF Before
  <2>4. IsLast(IF Before(e, m) = {} THEN Children(e, p) ELSE Before(e, m), e[m].prev)
    BY <2>1 DEF Ringed
  <2>5. Before(e, m) = {} <=> m = e[p].child
    BY FirstChild
  <2>f. p # mPos => m \notin C
    BY DEF Children
  <2> HIDE DEF p
  <2>6. CASE p # mPos
    <3>1. f[m].prev = e[m].prev /\ Children(f, p) = Children(e, p)
      BY <1>1, <2>1, <2>2, <2>6, <2>f
    <3> QED
      BY <2>2, <2>3, <2>4, <3>1
  <2>7. CASE p = mPos /\ Before(e, m) # {}
    <3>1. f[m].prev = e[m].prev
      BY <1>1, <2>1, <2>5, <2>7
    <3> QED
      BY <2>3, <2>4, <2>7, <3>1
  <2>8. CASE p = mPos /\ Before(e, m) = {}
    <3>1. f[m].prev = new
      BY <1>1, <2>1, <2>5, <2>8
    <3>2. Children(f, p) = C \cup {new} /\ \A k \in C : k <= new
      BY <1>3, <2>2, <2>8
    <3>3. new <= new
      BY <1>3
    <3> QED
      BY <2>2, <2>3, <2>8, <3>1, <3>2, <3>3 DEF IsLast
  <2> QED
    BY <2>6, <2>7, <2>8
<1>6. ASSUME NEW m \in DOMAIN f \ {0}
      PROVE  IsLast(IF Before(f, m) = {} THEN Children(f, f[m].parent) ELSE Before(f, m), f[m].prev)
  <2>1. m = new \/ m \in 1 .. n
    BY <1>3
  <2> QED
    BY <1>1, <1>4, <1>5, <2>1
<1> QED
  BY <1>6 DEF Ringed, f

\* The next node nests unless it is an end tag that is not the open element's.
LEMMA FineNext ==
  ASSUME NEW n, NEW e, Tree(e, n), NEW doc \in Seq(MNodes), NEW node \in MNodes,
         NEW d \in Nat, NEW w, NEW pos, Way(w, e, d, pos), NEW stack,
         OpenOnes(w, e, doc, stack, d), Placed(e, doc), DepthOf(doc, Len(doc)) = d
  PROVE  Fine(Append(doc, node), Len(doc) + 1) <=>
           /\ node.kind # "bad"
           /\ node.kind = "end" => d # 0 /\ node.tag = stack[d]
<1> DEFINE b == Append(doc, node)
           len == Len(doc)
<1>1. /\ b[len + 1] = node
      /\ \A k \in 1 .. len : b[k] = doc[k]
      /\ DepthOf(b, len + 1) = DepthOf(doc, len) + Climb(node)
      /\ \A k \in 1 .. len + 1 : Around(b, k) = Around(doc, k)
  BY DocLonger
<1>2. /\ Around(doc, len + 1) = e[pos].start
      /\ d # 0 => e[pos].start \in 1 .. len /\ doc[e[pos].start].tag = stack[d]
  BY InnermostAround
<1> HIDE DEF b
<1>3. len + 1 \in 1 .. len + 1
  OBVIOUS
<1>4. Around(b, len + 1) = e[pos].start /\ DepthOf(b, len + 1) = d + Climb(node)
  BY <1>1, <1>2, <1>3
<1>5. d # 0 => b[e[pos].start].tag = stack[d]
  BY <1>1, <1>2
<1> HIDE DEF len
<1>6. CASE node.kind = "end"
  <2>1. Climb(node) = -1
    BY <1>6 DEF Climb
  <2>2. DepthOf(b, len + 1) >= 0 <=> d # 0
    BY <1>4, <2>1
  <2>3. Fine(b, len + 1) <=> d # 0 /\ b[e[pos].start].tag = node.tag
    BY <1>1, <1>4, <1>6, <2>2 DEF Fine
  <2> QED
    BY <1>5, <1>6, <2>3 DEF b, len
<1>7. CASE node.kind # "end"
  <2>1. Climb(node) \in {0, 1}
    BY <1>7 DEF Climb
  <2>2. DepthOf(b, len + 1) >= 0
    BY <1>4, <2>1
  <2> QED
    BY <1>1, <1>7, <2>2 DEF Fine, b, len
<1> QED
  BY <1>6, <1>7

\* An end tag closes the open element.
LEMMA EndCloses ==
  ASSUME NEW n, NEW e, Tree(e, n), NEW doc \in Seq(MNodes), TextOrder(e, Len(doc)),
         NEW node \in MNodes, node.kind = "end",
         NEW d \in Nat \ {0}, NEW w, NEW pos, Way(w, e, d, pos), Closed(w, e, d),
         NEW stack, Nested(w, e, doc, stack, d)
  PROVE  Nested(w, Sized(e, w[d], Len(doc)), Append(doc, node), stack, d - 1)
<1> DEFINE b == Append(doc, node)
           len == Len(doc)
           f == Sized(e, w[d], len)
<1>1. /\ Len(b) = len + 1 /\ b[len + 1] = node
      /\ \A k \in 1 .. len : b[k] = doc[k]
      /\ \A k \in 0 .. len : DepthOf(b, k) = DepthOf(doc, k)
      /\ DepthOf(b, len + 1) = DepthOf(doc, len) + Climb(node)
      /\ \A i : StartsAt(b, len + 1, i) =
                  StartsAt(doc, len, i)
                  \cup (IF node.kind = "start" /\ DepthOf(b, len + 1) = i THEN {len + 1} ELSE {})
      /\ \A k \in 1 .. len + 1 : Around(b, k) = Around(doc, k)
      /\ ElemsOf(b) = ElemsOf(doc) \cup (IF node.kind \in {"start", "empty"}
                                         THEN {len + 1} ELSE {})
      /\ \A s : EndsOf(b, s) = EndsOf(doc, s)
                  \cup (IF node.kind = "end" /\ Around(doc, len + 1) = s THEN {len + 1} ELSE {})
  BY DocLonger, ZenonT(60)
<1> HIDE DEF b
<1>2. /\ DepthOf(doc, len) = d /\ OpenOnes(w, e, doc, stack, d) /\ Placed(e, doc)
      /\ Ended(w, e, doc, d) /\ Ringed(e)
  BY DEF Nested
<1>3. /\ Around(doc, len + 1) = e[pos].start /\ pos \in 0 .. n /\ pos # 0
      /\ doc[e[pos].start].kind = "start" /\ e[pos].start \in 1 .. len
  <2>1. d \in Nat /\ d # 0
    OBVIOUS
  <2> QED
    BY <1>2, <2>1, InnermostAround
<1>4. /\ n \in Nat /\ len \in Nat /\ DOMAIN e = 0 .. n /\ e \in [0 .. n -> Element]
      /\ \A m \in 1 .. n : m \in DOMAIN e \ {0} /\ m \in 0 .. n
      /\ \A m \in 0 .. n : m # 0 => m \in 1 .. n
  BY Links
<1>5. /\ \A m \in 1 .. n : e[m].start \in 1 .. len /\ e[m].parent \in 0 .. n
                           /\ e[m].start \in ElemsOf(doc) /\ PlacedAt(e, doc, m)
      /\ \A m, k \in 0 .. n : e[m].start = e[k].start => m = k
  BY <1>2, PlacedIn
<1>6. w \in [0 .. d -> 0 .. n] /\ w[d] = pos /\ \A j, k \in 0 .. d : j < k => w[j] < w[k]
  BY <1>4 DEF Way
<1>7. Same(e, f) /\ End(f, pos) = (len + 1) + 1
  <2>1. d \in 1 .. d /\ d \in Nat
    OBVIOUS
  <2>2. Same(e, f) /\ f[w[d]].start + f[w[d]].length = (len + 1) + 1
    BY <1>4, <2>1, LengthSet
  <2> QED
    BY <1>6, <2>2 DEF End
<1>8. ASSUME NEW m \in 0 .. n, m # pos PROVE f[m].length = e[m].length
  BY <1>4, <1>6, <1>8 DEF Sized
<1>9. /\ \A s : s # e[pos].start => EndsOf(b, s) = EndsOf(doc, s)
      /\ \A i : StartsAt(b, len + 1, i) = StartsAt(doc, len, i)
      /\ ElemsOf(b) = ElemsOf(doc)
      /\ EndsOf(b, e[pos].start) = EndsOf(doc, e[pos].start) \cup {len + 1}
  <2>1. \A s : EndsOf(b, s) = EndsOf(doc, s)
                 \cup (IF Around(doc, len + 1) = s THEN {len + 1} ELSE {})
    BY <1>1
  <2>2. \A s : s # e[pos].start => EndsOf(b, s) = EndsOf(doc, s)
    BY <1>3, <2>1
  <2>3. EndsOf(b, e[pos].start) = EndsOf(doc, e[pos].start) \cup {len + 1}
    BY <1>3, <2>1
  <2>4. \A i : StartsAt(b, len + 1, i) = StartsAt(doc, len, i)
    BY <1>1
  <2>5. ElemsOf(b) = ElemsOf(doc)
    BY <1>1
  <2> QED
    BY <2>2, <2>3, <2>4, <2>5
<1> HIDE DEF f, len
<1>10. /\ DOMAIN f = 0 .. n
       /\ \A m \in 0 .. n : f[m].start = e[m].start /\ f[m].parent = e[m].parent
                            /\ f[m].prev = e[m].prev
  BY <1>4, <1>7 DEF Same
<1>11. DepthOf(b, len + 1) = d - 1
  <2>1. Climb(node) = -1
    BY DEF Climb
  <2> QED
    BY <1>1, <1>2, <2>1
<1>12. OpenOnes(w, f, b, stack, d - 1)
  <2> SUFFICES ASSUME NEW i \in 1 .. d - 1
               PROVE  OpenAt(b, i, f[w[i]].start) /\ b[f[w[i]].start].tag = stack[i]
    BY DEF OpenOnes
  <2>1. i \in 1 .. d /\ i \in 0 .. d /\ i < d /\ d \in 0 .. d
    OBVIOUS
  <2>2. w[i] \in 0 .. n /\ w[i] < pos
    BY <1>6, <2>1
  <2>3. w[i] # pos
    BY <1>3, <2>2
  <2>4. f[w[i]].start = e[w[i]].start /\ e[w[i]].start # e[pos].start
    BY <1>3, <1>5, <1>10, <2>2, <2>3
  <2>5. OpenAt(doc, i, e[w[i]].start) /\ doc[e[w[i]].start].tag = stack[i]
    BY <1>2, <2>1 DEF OpenOnes
  <2>6. e[w[i]].start \in 1 .. len
    BY <2>5 DEF OpenAt, StartsAt, len
  <2>7. OpenAt(b, i, e[w[i]].start)
    BY <1>1, <1>9, <2>4, <2>5 DEF OpenAt, len
  <2> QED
    BY <1>1, <2>4, <2>5, <2>6, <2>7
<1>13. Placed(f, b)
  <2>1. f[0].start = 0
    <3>1. 0 \in 0 .. n
      BY <1>4
    <3> QED
      BY <1>2, <1>10, <3>1 DEF Placed
  <2>2. ASSUME NEW m \in 1 .. n PROVE PlacedAt(f, b, m)
    <3> DEFINE s == e[m].start
               p == e[m].parent
               u == e[p].start
    <3>1. /\ s \in 1 .. len /\ s \in ElemsOf(doc) /\ p \in 0 .. n /\ u = Around(doc, s)
          /\ IF p = 0 THEN DepthOf(doc, s - 1) = 0
             ELSE DepthOf(doc, s - 1) # 0 /\ doc[u].kind = "start" /\ DepthOf(doc, u) = DepthOf(doc, s - 1)
      BY <1>5 DEF PlacedAt
    <3>2. f[m].start = s /\ f[m].parent = p /\ f[p].start = u
      BY <1>4, <1>10, <3>1
    <3>3. p # 0 => u \in 1 .. len
      BY <1>4, <1>5, <3>1
    <3> HIDE DEF s, p, u
    <3>4. /\ s \in 1 .. len + 1 /\ s - 1 \in 0 .. len
          /\ \A k \in 1 .. len : k \in 0 .. len
      BY <1>4, <3>1
    <3>5. Around(b, s) = u /\ DepthOf(b, s - 1) = DepthOf(doc, s - 1) /\ s \in ElemsOf(b)
      BY <1>1, <1>9, <3>1, <3>4
    <3>6. p # 0 => b[u] = doc[u] /\ DepthOf(b, u) = DepthOf(doc, u)
      BY <1>1, <3>3, <3>4
    <3> QED
      BY <3>1, <3>2, <3>5, <3>6 DEF PlacedAt
  <2>3. \A m \in DOMAIN f \ {0} : PlacedAt(f, b, m)
    BY <1>4, <1>10, <2>2
  <2>4. ASSUME NEW k \in ElemsOf(b) PROVE \E m \in DOMAIN f \ {0} : f[m].start = k
    <3>1. PICK m \in DOMAIN e \ {0} : e[m].start = k
      BY <1>2, <1>9 DEF Placed
    <3> QED
      BY <1>4, <1>10, <3>1
  <2> QED
    BY <2>1, <2>3, <2>4 DEF Placed
<1>14. Ended(w, f, b, d - 1)
  <2> SUFFICES ASSUME NEW m \in DOMAIN f \ {0}, \A i \in 1 .. d - 1 : w[i] # m
               PROVE  EndedAt(f, b, m)
    BY DEF Ended
  <2>1. m \in 0 .. n /\ m \in DOMAIN e \ {0} /\ m \in 1 .. n
    BY <1>4, <1>10
  <2>2. e[m].start \in 1 .. len /\ f[m].start = e[m].start /\ b[e[m].start] = doc[e[m].start]
    BY <1>1, <1>5, <1>10, <2>1
  <2>3. CASE m = pos
    <3>1. EndsOf(doc, e[m].start) = {}
      <4>1. d \in 1 .. d
        OBVIOUS
      <4>2. OpenAt(doc, d, e[w[d]].start)
        BY <1>2, <4>1 DEF OpenOnes
      <4> QED
        BY <1>6, <2>3, <4>2 DEF OpenAt
    <3>2. EndsOf(b, e[m].start) = {len + 1}
      BY <1>9, <2>3, <3>1
    <3>3. End(f, m) - 1 = len + 1
      BY <1>4, <1>7, <2>3
    <3>4. b[f[m].start].kind = "start"
      BY <1>3, <2>2, <2>3
    <3> QED
      BY <2>2, <3>2, <3>3, <3>4 DEF EndedAt
  <2>4. CASE m # pos
    <3>1. \A i \in 1 .. d : w[i] # m
      <4>1. \A i \in 1 .. d : i = d \/ i \in 1 .. d - 1
        OBVIOUS
      <4> QED
        BY <1>6, <2>4, <4>1
    <3>2. EndedAt(e, doc, m)
      BY <1>2, <2>1, <3>1 DEF Ended
    <3>3. e[m].start # e[pos].start
      BY <1>3, <1>5, <2>1, <2>4
    <3>4. EndsOf(b, e[m].start) = EndsOf(doc, e[m].start) /\ f[m].length = e[m].length
      BY <1>8, <1>9, <2>1, <2>4, <3>3
    <3> QED
      BY <2>2, <3>2, <3>4 DEF EndedAt, End
  <2> QED
    BY <2>3, <2>4
<1>15. Ringed(f)
  <2>1. \A p : Children(f, p) = Children(e, p)
    BY <1>7, SameChildren
  <2>2. ASSUME NEW m \in DOMAIN f \ {0}
        PROVE  IsLast(IF Before(f, m) = {} THEN Children(f, f[m].parent) ELSE Before(f, m), f[m].prev)
    <3>1. m \in DOMAIN e \ {0} /\ m \in 0 .. n /\ f[m].parent = e[m].parent /\ f[m].prev = e[m].prev
      BY <1>4, <1>10
    <3>2. Before(f, m) = Before(e, m)
      BY <2>1, <3>1 DEF Before
    <3>3. IsLast(IF Before(e, m) = {} THEN Children(e, e[m].parent) ELSE Before(e, m), e[m].prev)
      BY <1>2, <3>1 DEF Ringed
    <3> QED
      BY <2>1, <3>1, <3>2, <3>3
  <2> QED
    BY <2>2 DEF Ringed
<1> QED
  BY <1>1, <1>11, <1>12, <1>13, <1>14, <1>15 DEF Nested, b, len, f

\* While a document that nests is read, what the invariants say of one way.
LEMMA NestReads ==
  ASSUME NestInv, ~Parsed, Clean(mElem)
  PROVE  \E w : /\ Parsing(w, mElem, Len(mDoc), Len(mStack), mPos, mPhase, mMatch)
                /\ Nested(w, mElem, mDoc, mStack,
                          IF mPhase = "close" THEN Len(mStack) - 1 ELSE Len(mStack))
<1> DEFINE c == IF mPhase = "close" THEN Len(mStack) - 1 ELSE Len(mStack)
<1>1. PICK v : /\ Way(v, mElem, Len(mStack), mPos)
               /\ Nested(v, mElem, mDoc, mStack, c)
  BY DEF NestInv
<1>2. TreeInv
  BY DEF NestInv
<1>3. Tree(mElem, ElemCount) /\ Len(mStack) \in Nat
  BY <1>2, Reads
<1>4. PICK w : Parsing(w, mElem, Len(mDoc), Len(mStack), mPos, mPhase, mMatch)
  BY <1>2, Reads
<1>5. Way(w, mElem, Len(mStack), mPos)
  BY <1>4 DEF Parsing
<1>6. w = v
  BY <1>1, <1>3, <1>5, OneWay
<1> QED
  BY <1>1, <1>4, <1>6

\* The steps of a document that does not nest are easy.
LEMMA NestsNot ==
  ASSUME TreeInv', ~Clean(mElem'),
         ~AllFine(mDoc') \/ (mPhase' \notin {"nodes", "close"} /\ DepthOf(mDoc', Len(mDoc')) # 0)
  PROVE  NestInv'
  BY DEF NestInv

\* While nodes are read of one that does, the way and the text agree.
LEMMA NestsOn ==
  ASSUME TreeInv', Clean(mElem'), AllFine(mDoc'), mPhase' = "nodes",
         NEW w, Way(w, mElem', Len(mStack'), mPos'),
         Nested(w, mElem', mDoc', mStack', Len(mStack'))
  PROVE  NestInv'
  BY DEF NestInv

\* At first there is nothing.
LEMMA NestInit == MInit => NestInv
<1> SUFFICES ASSUME MInit PROVE NestInv
  OBVIOUS
<1>0. TreeInv
  BY TreeInit
<1> DEFINE z == <<>>
           e == [k \in {0} |-> Fresh]
           w == [k \in 0 .. 0 |-> 0]
<1>1. /\ mDoc = z /\ mElem = e /\ mPos = 0 /\ mStack = z /\ mPhase = "nodes"
      /\ z \in Seq(MNodes) /\ Len(z) = 0 /\ DOMAIN z = {}
  BY EmptySeq DEF MInit
<1>2. DOMAIN e = {0} /\ DOMAIN e \ {0} = {} /\ e[0].start = 0 /\ e[0].flags = {} /\ 0 .. 0 = {0}
      /\ 1 .. 0 = {}
  BY DEF Fresh
<1> HIDE DEF z, e
<1>3. Clean(e) /\ AllFine(z)
  BY <1>1, <1>2 DEF Clean, AllFine
<1>4. DepthOf(z, 0) = 0
  BY <1>1, Depths
<1>5. Nested(w, e, z, z, 0)
  <2>1. OpenOnes(w, e, z, z, 0)
    BY <1>2 DEF OpenOnes
  <2>2. Placed(e, z)
    <3>1. ElemsOf(z) = {}
      BY <1>1 DEF ElemsOf
    <3> QED
      BY <1>2, <3>1 DEF Placed
  <2>3. Ended(w, e, z, 0) /\ Ringed(e)
    BY <1>2 DEF Ended, Ringed
  <2> QED
    BY <1>1, <1>4, <2>1, <2>2, <2>3 DEF Nested
<1>6. Way(w, e, 0, 0)
  <2>1. w \in [0 .. 0 -> DOMAIN e] /\ w[0] = 0 /\ \A j, k \in 0 .. 0 : ~(j < k)
    BY <1>2
  <2> HIDE DEF w
  <2> QED
    BY <1>2, <2>1 DEF Way
<1> HIDE DEF w
<1>7. /\ Clean(mElem) /\ AllFine(mDoc) /\ Way(w, mElem, Len(mStack), mPos)
      /\ Nested(w, mElem, mDoc, mStack, Len(mStack))
  BY <1>1, <1>3, <1>5, <1>6
<1> QED
  BY <1>0, <1>1, <1>7 DEF NestInv

\* A start tag nests.
LEMMA StartTagNests ==
  ASSUME NestInv, mPhase = "nodes", NEW node \in MNodes, node.kind \in {"start", "empty"},
         StartTag(node), mDoc' = Append(mDoc, node)
  PROVE  NestInv'
<1> DEFINE n == ElemCount
           len == Len(mDoc)
           d == Len(mStack)
           rec == [Fresh EXCEPT !.parent = mPos, !.start = Len(mDoc) + 1, !.length = 1]
           f == AddChild(mElem, n + 1, rec)
<1>0. ~Parsed /\ TreeInv
  BY DEF Parsed, NestInv
<1>t. TreeInv'
  BY <1>0, StartTagKeeps
<1>1. /\ n \in Nat /\ len \in Nat /\ d \in Nat /\ DOMAIN mElem = 0 .. n
      /\ Cardinality(DOMAIN mElem) = n + 1 /\ Tree(mElem, n) /\ TextOrder(mElem, len)
      /\ mDoc \in Seq(MNodes) /\ mStack \in Seq(MTags)
  BY <1>0, Reads
<1>2. PICK u : /\ Parsing(u, mElem, len, d, mPos, mPhase, mMatch)
               /\ u[d] = mPos /\ mPos \in 0 .. n
  BY <1>0, Reads
<1>3. LastKnown(mElem, mPos)
  <2>1. Known(u, mElem, d) /\ d \in 0 .. d
    BY <1>1, <1>2 DEF Parsing
  <2> QED
    BY <1>2, <2>1 DEF Known
<1>4. /\ rec \in Element /\ rec.parent = mPos /\ rec.child = 0 /\ rec.next = 0
      /\ rec.start = len + 1 /\ rec.length = 1
  <2>1. Fresh \in Element /\ Fresh.child = 0 /\ Fresh.next = 0
    BY DEF Fresh, Element
  <2>2. mPos \in Nat /\ Len(mDoc) + 1 \in Nat
    BY <1>1, <1>2
  <2> QED
    BY <2>1, <2>2 DEF Element
<1> HIDE DEF rec
<1>5. /\ f \in [0 .. n + 1 -> Element]
      /\ f[n + 1].parent = mPos /\ f[n + 1].start = len + 1 /\ f[n + 1].length = 1
      /\ \A m \in 0 .. n : /\ f[m].parent = mElem[m].parent /\ f[m].start = mElem[m].start
                           /\ f[m].length = mElem[m].length /\ f[m].flags = mElem[m].flags
  <2>1. /\ Tree(mElem, n) /\ mPos \in 0 .. n /\ LastKnown(mElem, mPos)
        /\ rec \in Element /\ rec.parent = mPos /\ rec.child = 0 /\ rec.next = 0
    BY <1>1, <1>2, <1>3, <1>4
  <2>2. /\ f \in [0 .. n + 1 -> Element]
        /\ f[n + 1].parent = mPos /\ f[n + 1].start = rec.start /\ f[n + 1].length = rec.length
        /\ \A m \in 0 .. n : /\ f[m].parent = mElem[m].parent /\ f[m].start = mElem[m].start
                             /\ f[m].length = mElem[m].length /\ f[m].flags = mElem[m].flags
    <3> HIDE DEF n
    <3> QED
      BY <2>1, AddChildLinks
  <2> HIDE DEF f
  <2> QED
    BY <1>4, <2>2
<1>6. mElem' = f /\ mPhase' = "nodes"
  BY <1>1 DEF StartTag, rec
<1> HIDE DEF f
<1>7. Adds(f, mElem, n, mPos, len) /\ (Clean(f) <=> Clean(mElem))
  <2>1. 0 \in 0 .. n /\ DOMAIN f = 0 .. n + 1
    BY <1>1, <1>5
  <2> QED
    BY <1>5, <2>1 DEF Adds, Clean
<1>8. AllFine(mDoc') <=> AllFine(mDoc) /\ Fine(mDoc', len + 1)
  BY <1>1, GoodLonger
<1>9. CASE ~Clean(mElem)
  <2>1. ~AllFine(mDoc)
    BY <1>9 DEF NestInv
  <2> QED
    BY <1>6, <1>7, <1>8, <1>9, <1>t, <2>1, NestsNot
<1>10. CASE Clean(mElem)
  <2>1. PICK w : /\ Parsing(w, mElem, len, d, mPos, mPhase, mMatch)
                 /\ Nested(w, mElem, mDoc, mStack, d)
    BY <1>0, <1>10, NestReads
  <2>2. Way(w, mElem, d, mPos) /\ Closed(w, mElem, d) /\ Known(w, mElem, d)
    BY <2>1 DEF Parsing
  <2>3. /\ DepthOf(mDoc, len) = d /\ OpenOnes(w, mElem, mDoc, mStack, d) /\ Placed(mElem, mDoc)
        /\ Ended(w, mElem, mDoc, d) /\ Ringed(mElem) /\ w \in [0 .. d -> DOMAIN mElem]
    BY <2>1, <2>2 DEF Nested, Way
  <2>4. AllFine(mDoc)
    BY <1>10 DEF NestInv
  <2>5. Fine(mDoc', len + 1)
    BY <1>1, <2>2, <2>3, FineNext
  <2>6. Placed(f, mDoc')
    BY <1>1, <1>7, <2>2, <2>3, StartPlaces
  <2>7. /\ node.kind = "empty" => Ended(w, f, mDoc', d)
        /\ node.kind = "start" => Ended(Longer(w, d, n + 1), f, mDoc', d + 1)
    BY <1>1, <1>7, <2>3, <2>4, StartEnds
  <2>8. Ringed(f)
    BY <1>1, <1>2, <1>3, <1>4, <2>3, ChildRings DEF f
  <2>9. /\ Way(w, f, d, mPos) /\ Way(Longer(w, d, n + 1), f, d + 1, n + 1)
    BY <1>1, <1>4, <2>2, ElementAdded DEF f
  <2>10. /\ node.kind = "empty" => DepthOf(mDoc', Len(mDoc')) = d /\ OpenOnes(w, f, mDoc', mStack, d)
         /\ node.kind = "start" =>
              /\ DepthOf(mDoc', Len(mDoc')) = d + 1
              /\ \A tags : OpenOnes(w, f, mDoc', tags, d) /\ tags[d + 1] = node.tag
                   => OpenOnes(Longer(w, d, n + 1), f, mDoc', tags, d + 1)
         /\ \A tags : (\A i \in 1 .. d : tags[i] = mStack[i]) => OpenOnes(w, f, mDoc', tags, d)
    <3>1. /\ Tree(mElem, n) /\ mDoc \in Seq(MNodes) /\ AllFine(mDoc) /\ d \in Nat
          /\ Way(w, mElem, d, mPos) /\ mStack \in Seq(MTags) /\ Len(mStack) = d
          /\ OpenOnes(w, mElem, mDoc, mStack, d) /\ DepthOf(mDoc, Len(mDoc)) = d
          /\ Adds(f, mElem, n, mPos, Len(mDoc))
      BY <1>1, <1>7, <2>2, <2>3, <2>4
    <3> HIDE DEF n, d
    <3>2. LET b == Append(mDoc, node)
          IN  /\ node.kind = "empty" => DepthOf(b, Len(b)) = d /\ OpenOnes(w, f, b, mStack, d)
              /\ node.kind = "start" =>
                   /\ DepthOf(b, Len(b)) = d + 1
                   /\ \A tags : OpenOnes(w, f, b, tags, d) /\ tags[d + 1] = node.tag
                        => OpenOnes(Longer(w, d, n + 1), f, b, tags, d + 1)
              /\ \A tags : (\A i \in 1 .. d : tags[i] = mStack[i]) => OpenOnes(w, f, b, tags, d)
      BY <3>1, StartOpens
    <3> QED
      BY <3>2, Zenon
  <2>11. CASE node.kind = "empty"
    <3>1. mPos' = mPos /\ mStack' = mStack
      BY <2>11 DEF StartTag
    <3>2. Nested(w, f, mDoc', mStack, d)
      BY <2>6, <2>7, <2>8, <2>10, <2>11 DEF Nested
    <3> QED
      BY <1>6, <1>7, <1>8, <1>10, <1>t, <2>4, <2>5, <2>9, <3>1, <3>2, NestsOn
  <2>12. CASE node.kind = "start"
    <3>1. mPos' = n + 1 /\ mStack' = Append(mStack, node.tag)
      BY <1>1, <2>12 DEF StartTag
    <3>2. node.tag \in MTags
      BY <2>12 DEF MNodes
    <3>3. Len(mStack') = d + 1 /\ mStack'[d + 1] = node.tag /\ \A i \in 1 .. d : mStack'[i] = mStack[i]
      BY <1>1, <3>1, <3>2, AppendProperties
    <3> DEFINE v == Longer(w, d, n + 1)
    <3>4. OpenOnes(w, f, mDoc', mStack', d)
      BY <2>10, <3>3
    <3>5. OpenOnes(v, f, mDoc', mStack', d + 1)
      BY <2>10, <2>12, <3>3, <3>4
    <3>6. Nested(v, f, mDoc', mStack', d + 1)
      BY <2>6, <2>7, <2>8, <2>10, <2>12, <3>5 DEF Nested
    <3>7. Way(v, f, d + 1, n + 1)
      BY <2>9
    <3> HIDE DEF v
    <3> QED
      BY <1>6, <1>7, <1>8, <1>10, <1>t, <2>4, <2>5, <3>1, <3>3, <3>6, <3>7, NestsOn
  <2> QED
    BY <2>11, <2>12
<1> QED
  BY <1>9, <1>10

\* A node that cannot be placed does not nest.
LEMMA MisplacedNests ==
  ASSUME NestInv, mPhase = "nodes", NEW node \in MNodes, node.kind \in {"end", "bad"},
         node.kind = "end" => Levels(node.tag) = {},
         mElem' = Flag(Flag(mElem, 0, "illformed"), mPos, "illdata"),
         UNCHANGED <<mPos, mStack, mMatch, mPhase>>, mDoc' = Append(mDoc, node)
  PROVE  NestInv'
<1> DEFINE n == ElemCount
           len == Len(mDoc)
           d == Len(mStack)
           f == Flag(mElem, 0, "illformed")
<1>0. ~Parsed /\ TreeInv
  BY DEF Parsed, NestInv
<1>t. TreeInv'
  BY <1>0, MisplacedKeeps
<1>1. /\ n \in Nat /\ len \in Nat /\ d \in Nat /\ Tree(mElem, n) /\ mPos \in 0 .. n
      /\ mDoc \in Seq(MNodes) /\ mStack \in Seq(MTags)
  BY <1>0, Reads
<1>2. ~Clean(mElem')
  <2>1. 0 \in 0 .. n /\ "illformed" \in ElemFlags
    BY <1>1 DEF ElemFlags
  <2>2. ~Clean(f) /\ Tree(f, n)
    BY <1>1, <2>1, FlagsStay, Flagged
  <2> HIDE DEF f
  <2>3. ~Clean(Flag(f, mPos, "illdata"))
    BY <1>1, <2>2, FlagsStay
  <2> QED
    BY <2>3 DEF f
<1>3. AllFine(mDoc') <=> AllFine(mDoc) /\ Fine(mDoc', len + 1)
  BY <1>1, GoodLonger
<1>4. CASE ~Clean(mElem)
  <2>1. ~AllFine(mDoc)
    BY <1>4 DEF NestInv
  <2> QED
    BY <1>2, <1>3, <1>t, <2>1, NestsNot
<1>5. CASE Clean(mElem)
  <2>1. PICK w : /\ Parsing(w, mElem, len, d, mPos, mPhase, mMatch)
                 /\ Nested(w, mElem, mDoc, mStack, d)
    BY <1>0, <1>5, NestReads
  <2>2. /\ Way(w, mElem, d, mPos)
        /\ DepthOf(mDoc, len) = d /\ OpenOnes(w, mElem, mDoc, mStack, d) /\ Placed(mElem, mDoc)
    BY <2>1 DEF Parsing, Nested
  <2>3. Fine(mDoc', len + 1) <=> node.kind # "bad" /\ (node.kind = "end" => d # 0 /\ node.tag = mStack[d])
    BY <1>1, <2>2, FineNext
  <2>4. ~(node.kind = "end" /\ d # 0 /\ node.tag = mStack[d])
    <3>1. d # 0 => d \in DOMAIN mStack
      BY <1>1
    <3> QED
      BY <3>1 DEF Levels
  <2>5. ~Fine(mDoc', len + 1)
    BY <2>3, <2>4
  <2> QED
    BY <1>2, <1>3, <1>t, <2>5, NestsNot
<1> QED
  BY <1>4, <1>5

\* An end tag nests when it is that of the innermost open element.
LEMMA EndTagNests ==
  ASSUME NestInv, mPhase = "nodes", NEW node \in MNodes, node.kind = "end",
         Levels(node.tag) # {}, EndTag(node), mDoc' = Append(mDoc, node)
  PROVE  NestInv'
<1> DEFINE n == ElemCount
           len == Len(mDoc)
           d == Len(mStack)
           level == CHOOSE k \in Levels(node.tag) : \A l \in Levels(node.tag) : l <= k
           p == Up(Len(mStack) - level)
           f == [mElem EXCEPT ![p].length = Len(mDoc) + 1 - mElem[p].start + 1]
           h == Unended(f, level)
<1>0. ~Parsed /\ TreeInv
  BY DEF Parsed, NestInv
<1>t. TreeInv'
  BY <1>0, EndTagKeeps
<1>1. /\ n \in Nat /\ len \in Nat /\ d \in Nat /\ Tree(mElem, n) /\ TextOrder(mElem, len)
      /\ mDoc \in Seq(MNodes) /\ mStack \in Seq(MTags) /\ DOMAIN mElem = 0 .. n
  BY <1>0, Reads
<1>2. PICK u : /\ Parsing(u, mElem, len, d, mPos, mPhase, mMatch)
               /\ u \in [0 .. d -> 0 .. n]
  BY <1>0, Reads
<1>3. Way(u, mElem, d, mPos) /\ Closed(u, mElem, d)
  BY <1>2 DEF Parsing
<1>4. level \in 1 .. d /\ level \in Levels(node.tag) /\ \A l \in Levels(node.tag) : l <= level
  <2>1. Levels(node.tag) \subseteq 1 .. d
    BY <1>1 DEF Levels
  <2>2. Levels(node.tag) \in SUBSET (0 .. d)
    BY <2>1
  <2>3. \E k \in Levels(node.tag) : \A l \in Levels(node.tag) : l <= k
    BY <1>1, <2>2, Greatest
  <2>4. level \in Levels(node.tag) /\ \A l \in Levels(node.tag) : l <= level
    BY <2>3, Zenon
  <2> HIDE DEF level
  <2> QED
    BY <2>1, <2>4
<1>5. mElem' = h /\ mMatch' = level /\ mPhase' = "close" /\ mPos' = mPos /\ mStack' = mStack
  BY Zenon DEF EndTag
<1> HIDE DEF level
<1>6. p = u[level]
  <2>1. d - level \in 0 .. d /\ d - (d - level) = level
    BY <1>1, <1>4
  <2>2. Up(d - level) = u[d - (d - level)]
    BY <1>1, <1>3, <2>1, UpTheWay
  <2> QED
    BY <2>1, <2>2
<1> HIDE DEF p
<1>7. f = Sized(mElem, u[level], len)
  BY <1>6 DEF Sized
<1>8. Tree(f, n) /\ Way(u, f, d, mPos) /\ (Clean(f) <=> Clean(mElem))
  <2> DEFINE i == Sized(mElem, u[level], len)
  <2>1. Tree(i, n) /\ Same(mElem, i)
    BY <1>1, <1>3, <1>4, LengthSet
  <2>2. Linked(mElem)
    BY <1>1, Links
  <2>3. Clean(i) <=> Clean(mElem)
    <3>1. u[level] \in 0 .. n
      BY <1>2, <1>4
    <3> QED
      BY <1>1, <3>1, SizedFlags
  <2> HIDE DEF i
  <2>4. Way(u, i, d, mPos)
    BY <1>3, <2>1, <2>2, SameWay
  <2> QED
    BY <1>7, <2>1, <2>3, <2>4 DEF i
<1> HIDE DEF f
<1>9. Clean(h) <=> Clean(mElem) /\ level = d
  <2>1. h = IF d > level THEN Flag(f, 0, "illformed") ELSE f
    BY DEF Unended
  <2>2. ~Clean(Flag(f, 0, "illformed"))
    <3>1. 0 \in 0 .. n
      BY <1>1
    <3> QED
      BY <1>8, <3>1, FlagsStay
  <2> HIDE DEF h
  <2> QED
    BY <1>4, <1>8, <2>1, <2>2
<1>10. AllFine(mDoc') <=> AllFine(mDoc) /\ Fine(mDoc', len + 1)
  BY <1>1, GoodLonger
<1>11. CASE ~Clean(mElem)
  <2>1. ~AllFine(mDoc)
    BY <1>11 DEF NestInv
  <2> QED
    BY <1>5, <1>9, <1>10, <1>11, <1>t, <2>1, NestsNot
<1>12. CASE Clean(mElem)
  <2>1. PICK w : /\ Parsing(w, mElem, len, d, mPos, mPhase, mMatch)
                 /\ Nested(w, mElem, mDoc, mStack, d)
    BY <1>0, <1>12, NestReads
  <2>2. /\ Way(w, mElem, d, mPos)
        /\ DepthOf(mDoc, len) = d /\ OpenOnes(w, mElem, mDoc, mStack, d) /\ Placed(mElem, mDoc)
    BY <2>1 DEF Parsing, Nested
  <2>3. Fine(mDoc', len + 1) <=> d # 0 /\ node.tag = mStack[d]
    BY <1>1, <2>2, FineNext
  <2>4. level = d <=> d # 0 /\ node.tag = mStack[d]
    <3>1. \A l : l \in Levels(node.tag) <=> l \in 1 .. d /\ mStack[l] = node.tag
      BY <1>1 DEF Levels
    <3> HIDE DEF d
    <3>2. ASSUME d # 0, node.tag = mStack[d] PROVE level = d
      <4>1. d \in Levels(node.tag)
        BY <1>1, <3>1, <3>2
      <4>2. d <= level
        BY <1>4, <4>1
      <4> QED
        BY <1>1, <1>4, <4>2
    <3>3. ASSUME level = d PROVE d # 0 /\ node.tag = mStack[d]
      <4>1. level \in 1 .. d /\ mStack[level] = node.tag
        BY <1>4, <3>1
      <4> QED
        BY <1>1, <3>3, <4>1
    <3> QED
      BY <3>2, <3>3
  <2>5. u = w
    BY <1>1, <1>3, <2>2, OneWay
  <2>6. CASE level # d
    BY <1>5, <1>9, <1>10, <1>t, <2>3, <2>4, <2>6, NestsNot
  <2>7. CASE level = d
    <3>1. AllFine(mDoc) /\ AllFine(mDoc')
      BY <1>10, <1>12, <2>3, <2>4, <2>7 DEF NestInv
    <3>2. d \in Nat \ {0} /\ ~(d > level)
      BY <1>1, <2>4, <2>7
    <3>3. Nested(w, Sized(mElem, w[d], len), mDoc', mStack, d - 1)
      <4>1. Closed(w, mElem, d)
        BY <2>1 DEF Parsing
      <4> QED
        BY <1>1, <2>1, <2>2, <3>2, <4>1, EndCloses
    <3>4. h = f
      BY <3>2 DEF Unended
    <3>5. Nested(w, h, mDoc', mStack, d - 1) /\ Way(w, h, d, mPos)
      BY <1>7, <1>8, <2>5, <2>7, <3>3, <3>4
    <3> HIDE DEF h
    <3>6. /\ TreeInv' /\ mPhase' = "close" /\ Clean(mElem') /\ AllFine(mDoc')
          /\ mMatch' = Len(mStack') /\ Way(w, mElem', Len(mStack'), mPos')
          /\ Nested(w, mElem', mDoc', mStack', Len(mStack') - 1)
      BY <1>5, <1>9, <1>12, <1>t, <2>7, <3>1, <3>5
    <3> QED
      BY <3>6 DEF NestInv
  <2> QED
    BY <2>6, <2>7
<1> QED
  BY <1>11, <1>12

\* At the end of the document nothing is open if it nests.
LEMMA EndOfDocumentNests ==
  ASSUME NestInv, EndOfDocument
  PROVE  NestInv'
<1> DEFINE n == ElemCount
           d == Len(mStack)
<1>0. ~Parsed /\ mPhase = "nodes" /\ TreeInv
  BY DEF Parsed, EndOfDocument, NestInv
<1>t. TreeInv'
  BY <1>0, EndOfDocumentKeeps
<1>1. n \in Nat /\ d \in Nat /\ Tree(mElem, n) /\ 0 \in 0 .. n
  BY <1>0, Reads
<1>2. /\ mElem' = Unended(mElem, 0) /\ mPhase' = "end" /\ mPos' = mPos /\ mStack' = mStack
      /\ mDoc' = mDoc
  BY DEF EndOfDocument
<1>3. mElem' = IF d > 0 THEN Flag(mElem, 0, "illformed") ELSE mElem
  BY <1>2 DEF Unended
<1>4. ~Clean(mElem) => ~Clean(mElem')
  BY <1>1, <1>3, FlagsStay
<1>5. d > 0 => ~Clean(mElem')
  BY <1>1, <1>3, FlagsStay
<1>6. CASE ~Clean(mElem)
  <2>1. ~AllFine(mDoc)
    BY <1>0, <1>6 DEF NestInv
  <2> QED
    BY <1>2, <1>4, <1>6, <1>t, <2>1, NestsNot
<1>7. CASE Clean(mElem)
  <2>1. PICK w : /\ Parsing(w, mElem, Len(mDoc), d, mPos, mPhase, mMatch)
                 /\ Nested(w, mElem, mDoc, mStack, d)
    BY <1>0, <1>7, NestReads
  <2>2. Way(w, mElem, d, mPos) /\ DepthOf(mDoc, Len(mDoc)) = d /\ AllFine(mDoc)
    BY <1>0, <1>7, <2>1 DEF Parsing, Nested, NestInv
  <2>3. CASE d > 0
    BY <1>2, <1>5, <1>t, <2>2, <2>3, NestsNot
  <2>4. CASE ~(d > 0)
    <3>1. d = 0 /\ mElem' = mElem
      BY <1>1, <1>3, <2>4
    <3>2. /\ TreeInv' /\ Clean(mElem') /\ AllFine(mDoc') /\ mPhase' = "end" /\ Len(mStack') = 0
          /\ DepthOf(mDoc', Len(mDoc')) = 0 /\ Way(w, mElem', Len(mStack'), mPos')
          /\ Nested(w, mElem', mDoc', mStack', Len(mStack'))
      BY <1>2, <1>7, <1>t, <2>1, <2>2, <3>1
    <3> QED
      BY <3>2 DEF NestInv
  <2> QED
    BY <2>3, <2>4
<1> QED
  BY <1>6, <1>7

\* An element is left unended in a document only that does not nest.
LEMMA UnendNests ==
  ASSUME NestInv, Unend
  PROVE  NestInv'
<1> DEFINE n == ElemCount
           fl == (mElem[mPos].flags \cup {"nonended"}) \ {"illdata"}
           p == mElem[mPos].parent
           f == LeftUnended(mElem, mPos, fl)
           h == Flag(f, p, "illdata")
<1>0. ~Parsed /\ mPhase \in {"close", "end"} /\ Len(mStack) > mMatch /\ TreeInv
  BY DEF Parsed, Unend, NestInv
<1>t. TreeInv'
  BY <1>0, UnendKeeps
<1>1. n \in Nat /\ Len(mStack) \in Nat /\ Tree(mElem, n) /\ 0 \in 0 .. n
  BY <1>0, Reads
<1>2. PICK w : Parsing(w, mElem, Len(mDoc), Len(mStack), mPos, mPhase, mMatch)
  BY <1>0, Reads
<1>3. Way(w, mElem, Len(mStack), mPos) /\ mMatch \in Nat
  BY <1>0, <1>2 DEF Parsing
<1>4. ~Clean(mElem)
  <2>1. mPhase = "close" /\ Clean(mElem) => mMatch = Len(mStack)
    BY DEF NestInv
  <2>2. mPhase = "end" /\ Clean(mElem) => Len(mStack) = 0
    BY DEF NestInv
  <2> QED
    BY <1>0, <1>1, <1>3, <2>1, <2>2
<1>5. mPos \in 1 .. n /\ p \in 0 .. n
  <2>1. Len(mStack) \in Nat \ {0}
    BY <1>0, <1>1, <1>3
  <2>2. mPos \in 1 .. n
    BY <1>1, <1>3, <2>1, WayShorter
  <2> QED
    BY <1>1, <2>2, Links
<1>6. Tree(f, n)
  <2>0. mElem \in [0 .. n -> Element]
    BY <1>1, Links
  <2>1. mElem[mPos].flags \in SUBSET ElemFlags
    BY <1>5, <2>0 DEF Element
  <2>2. fl \in SUBSET ElemFlags
    BY <2>1 DEF ElemFlags
  <2> HIDE DEF fl, n
  <2>3. \A c \in Children(mElem, mElem[mPos].parent) : c <= mPos
    <3>1. Len(mStack) \in Nat \ {0}
      BY <1>0, <1>1, <1>3
    <3> QED
      BY <1>1, <1>3, <3>1, WayShorter
  <2> QED
    BY <1>1, <1>5, <2>2, <2>3, Handed
<1>7. ~Clean(f) /\ ~Clean(h)
  <2> HIDE DEF fl, n
  <2>1. ~Clean(f)
    BY <1>1, <1>4, <1>5, UnendedFlags
  <2> HIDE DEF f
  <2> QED
    BY <1>5, <1>6, <2>1, FlagsStay
<1>8. mElem' = f \/ mElem' = h
  <2> DEFINE e == Hand(mElem, mPos)
             c == [e EXCEPT ![mPos] =
                    [@ EXCEPT !.flags = fl, !.child = 0, !.length = 1, !.next = e[mPos].child]]
  <2>1. mElem' = c \/ mElem' = Flag(c, p, "illdata")
    BY DEF Unend, fl
  <2>2. f = c
    BY DEF LeftUnended
  <2> QED
    BY <2>1, <2>2
<1>9. mDoc' = mDoc /\ mPhase' = mPhase
  BY DEF Unend
<1>10. ~AllFine(mDoc') \/ (mPhase' \notin {"nodes", "close"} /\ DepthOf(mDoc', Len(mDoc')) # 0)
  BY <1>4, <1>9 DEF NestInv
<1> QED
  BY <1>7, <1>8, <1>10, <1>t, NestsNot

\* Closing the innermost open element leads one step back.
LEMMA CloseNests ==
  ASSUME NestInv, Close
  PROVE  NestInv'
<1> DEFINE n == ElemCount
           d == Len(mStack)
<1>0. ~Parsed /\ mPhase = "close" /\ mMatch = d /\ TreeInv
  BY DEF Parsed, Close, NestInv
<1>t. TreeInv'
  BY <1>0, CloseKeeps
<1>1. n \in Nat /\ d \in Nat /\ Tree(mElem, n) /\ mStack \in Seq(MTags)
  BY <1>0, Reads
<1>2. PICK u : Parsing(u, mElem, Len(mDoc), d, mPos, mPhase, mMatch)
  BY <1>0, Reads
<1>3. Way(u, mElem, d, mPos) /\ d # 0
  BY <1>0, <1>2 DEF Parsing
<1>4. /\ mPos' = mElem[mPos].parent /\ mStack' = Front(mStack) /\ mDoc' = mDoc /\ mElem' = mElem
      /\ mPhase' = "nodes"
  BY DEF Close
<1>5. CASE ~Clean(mElem)
  <2>1. ~AllFine(mDoc)
    BY <1>0, <1>5 DEF NestInv
  <2> QED
    BY <1>4, <1>5, <1>t, <2>1, NestsNot
<1>6. CASE Clean(mElem)
  <2>1. PICK w : /\ Parsing(w, mElem, Len(mDoc), d, mPos, mPhase, mMatch)
                 /\ Nested(w, mElem, mDoc, mStack, d - 1)
    BY <1>0, <1>6, NestReads
  <2>2. Way(w, mElem, d, mPos) /\ d \in Nat \ {0} /\ AllFine(mDoc)
    BY <1>0, <1>1, <1>3, <1>6, <2>1 DEF Parsing, NestInv
  <2> DEFINE v == Shorter(w, d)
  <2>3. /\ mElem[mPos].parent = w[d - 1] /\ Way(v, mElem, d - 1, w[d - 1])
        /\ \A k \in 0 .. d - 1 : v[k] = w[k] /\ k \in 0 .. d
    BY <1>1, <2>2, WayShorter
  <2> HIDE DEF v
  <2>4. Len(mStack') = d - 1 /\ \A i \in 1 .. d - 1 : mStack'[i] = mStack[i]
    <3> DEFINE s == SubSeq(mStack, 1, d - 1)
    <3>0. d - 1 \in Nat /\ d - 1 <= Len(mStack)
      BY <2>2
    <3>1. Len(s) = d - 1 /\ \A k \in 1 .. d - 1 : s[k] = mStack[k]
      BY <1>1, <3>0, FirstOnes
    <3>2. mStack' = s
      BY <1>4 DEF Front
    <3> HIDE DEF s
    <3> QED
      BY <3>1, <3>2
  <2>5. \A i \in 1 .. d - 1 : v[i] = w[i]
    BY <2>3
  <2>6. /\ DepthOf(mDoc, Len(mDoc)) = d - 1 /\ OpenOnes(w, mElem, mDoc, mStack, d - 1)
        /\ Placed(mElem, mDoc) /\ Ended(w, mElem, mDoc, d - 1) /\ Ringed(mElem)
    BY <2>1 DEF Nested
  <2>7. OpenOnes(v, mElem, mDoc, mStack', d - 1)
    BY <2>4, <2>5, <2>6 DEF OpenOnes
  <2>8. Ended(v, mElem, mDoc, d - 1)
    BY <2>5, <2>6 DEF Ended
  <2>9. Nested(v, mElem, mDoc, mStack', d - 1)
    BY <2>6, <2>7, <2>8 DEF Nested
  <2> HIDE DEF d
  <2>10. /\ Clean(mElem') /\ AllFine(mDoc') /\ mPhase' = "nodes"
         /\ Way(v, mElem', Len(mStack'), mPos') /\ Nested(v, mElem', mDoc', mStack', Len(mStack'))
    BY <1>4, <1>6, <2>2, <2>3, <2>4, <2>9
  <2> QED
    BY <1>t, <2>10, NestsOn
<1> QED
  BY <1>5, <1>6

\* Once it is read, the tree stays.
LEMMA NestLeftAlone ==
  ASSUME NestInv, TreeInv', mPhase \in {"end", "find", "over"}, mPhase' \in {"find", "over"},
         mElem' = mElem, mDoc' = mDoc, mStack' = mStack
  PROVE  NestInv'
<1>1. mPhase \notin {"nodes", "close"} /\ mPhase' \notin {"nodes", "close"}
      /\ mPhase # "close" /\ mPhase' # "close" /\ Parsed'
  BY DEF Parsed
<1>2. Clean(mElem') <=> AllFine(mDoc') /\ DepthOf(mDoc', Len(mDoc')) = 0
  BY <1>1 DEF NestInv
<1>3. ASSUME Clean(mElem')
      PROVE  Len(mStack') = 0 /\ \E w : Nested(w, mElem', mDoc', mStack', Len(mStack'))
  BY <1>1, <1>3 DEF NestInv
<1> QED
  BY <1>1, <1>2, <1>3 DEF NestInv

\* The invariant is inductive.
LEMMA NestInductive == NestInv /\ [MNext]_mVars => NestInv'
<1> SUFFICES ASSUME NestInv, [MNext]_mVars PROVE NestInv'
  OBVIOUS
<1>0. TreeInv
  BY DEF NestInv
<1>t. TreeInv'
  BY <1>0, TreeInductive
<1>1. CASE ParseElem
  <2>1. mPhase = "nodes"
    BY <1>1 DEF ParseElem
  <2>2. PICK node \in MNodes :
          /\ CASE node.kind \in {"start", "empty"} -> StartTag(node)
               [] node.kind = "end" -> EndTag(node)
               [] node.kind = "bad" -> BadNode
          /\ mDoc' = Append(mDoc, node)
    BY <1>1 DEF ParseElem
  <2>3. node.kind \in {"start", "empty", "end", "bad"}
    BY DEF MNodes
  <2>4. CASE node.kind \in {"start", "empty"}
    <3>1. StartTag(node)
      BY <2>2, <2>4
    <3> QED
      BY <2>1, <2>2, <2>4, <3>1, StartTagNests
  <2>5. CASE node.kind = "end"
    <3>1. EndTag(node)
      BY <2>2, <2>5
    <3>2. CASE Levels(node.tag) = {}
      <4>1. /\ mElem' = Flag(Flag(mElem, 0, "illformed"), mPos, "illdata")
            /\ UNCHANGED <<mPos, mStack, mMatch, mPhase>>
        BY <3>1, <3>2 DEF EndTag
      <4> QED
        BY <2>1, <2>2, <2>5, <3>2, <4>1, MisplacedNests
    <3>3. CASE Levels(node.tag) # {}
      BY <2>1, <2>2, <2>5, <3>1, <3>3, EndTagNests
    <3> QED
      BY <3>2, <3>3
  <2>6. CASE node.kind = "bad"
    <3>1. BadNode
      BY <2>2, <2>6
    <3>2. /\ mElem' = Flag(Flag(mElem, 0, "illformed"), mPos, "illdata")
          /\ UNCHANGED <<mPos, mStack, mMatch, mPhase>> /\ node.kind # "end"
      BY <2>6, <3>1 DEF BadNode
    <3> QED
      BY <2>1, <2>2, <2>6, <3>2, MisplacedNests
  <2> QED
    BY <2>3, <2>4, <2>5, <2>6
<1>2. CASE EndOfDocument
  BY <1>2, EndOfDocumentNests
<1>3. CASE Unend
  BY <1>3, UnendNests
<1>4. CASE Close
  BY <1>4, CloseNests
<1>5. CASE Loaded
  <2>1. /\ mPhase = "end" /\ mPhase' \in {"find", "over"}
        /\ mElem' = mElem /\ mDoc' = mDoc /\ mStack' = mStack
    BY <1>5 DEF Loaded
  <2> QED
    BY <1>t, <2>1, NestLeftAlone
<1>6. CASE FindElem
  <2>1. /\ mPhase = "find" /\ mPhase' \in {"find", "over"}
        /\ mElem' = mElem /\ mDoc' = mDoc /\ mStack' = mStack
    BY <1>6 DEF FindElem
  <2> QED
    BY <1>t, <2>1, NestLeftAlone
<1>7. CASE UNCHANGED mVars
  <2>1. /\ mDoc' = mDoc /\ mElem' = mElem /\ mPos' = mPos /\ mStack' = mStack
        /\ mMatch' = mMatch /\ mPhase' = mPhase
    BY <1>7 DEF mVars
  <2> QED
    BY <1>t, <2>1 DEF NestInv, Parsed
<1> QED
  BY <1>1, <1>2, <1>3, <1>4, <1>5, <1>6, <1>7 DEF MNext

\* Nothing is found before the lookup.
LEMMA LookInit == MInit => LookInv
  BY DEF MInit, LookInv

\* The next element looked at is the next child of the root.
LEMMA NextAtRoot ==
  ASSUME NEW n, Tree(mElem, n), IsWellFormed, mPos \in AtRoot \cup {0}
  PROVE  /\ Least({k \in AtRoot : mPos < k}, NextElem)
         /\ AtRoot \subseteq 1 .. n /\ n \in Nat
<1> DEFINE root == mElem[0].child
<1>1. /\ n \in Nat /\ 0 \in 0 .. n /\ root \in 0 .. n /\ AtRoot \subseteq 1 .. n
      /\ Least(AtRoot, mElem[root].child)
  <2>1. n \in Nat
    BY Links
  <2>2. 0 \in 0 .. n
    BY <2>1
  <2>3. root \in 0 .. n
    BY <2>2, Links
  <2>4. Least(Children(mElem, root), mElem[root].child) /\ Children(mElem, root) \subseteq 1 .. n
    BY <2>3, Links
  <2> QED
    BY <2>1, <2>2, <2>3, <2>4 DEF AtRoot
<1>2. CASE mPos = 0
  <2>1. {k \in AtRoot : mPos < k} = AtRoot
    <3>1. ASSUME NEW k \in AtRoot PROVE mPos < k
      <4>1. k \in 1 .. n /\ n \in Nat
        BY <1>1
      <4>2. 0 < k
        BY <4>1
      <4> QED
        BY <1>2, <4>2
    <3> QED
      BY <3>1, Zenon
  <2> QED
    BY <1>1, <1>2, <2>1 DEF NextElem
<1>3. CASE mPos # 0
  <2>1. mPos \in Children(mElem, root) /\ mPos \in 1 .. n
    BY <1>1, <1>3 DEF AtRoot
  <2>2. mElem[mPos].parent = root
    BY <2>1 DEF Children
  <2>3. Least(Behind(mElem, mPos), mElem[mPos].next)
    BY <2>1, Links
  <2>4. Behind(mElem, mPos) = {k \in AtRoot : mPos < k}
    BY <2>2 DEF Behind, AtRoot
  <2> QED
    BY <1>1, <1>3, <2>3, <2>4 DEF NextElem
<1> QED
  BY <1>2, <1>3

\* The lookup goes over the children of the root, up to the one it finds.
LEMMA LookInductive == NestInv /\ LookInv /\ [MNext]_mVars => LookInv'
<1> SUFFICES ASSUME NestInv, LookInv, [MNext]_mVars PROVE LookInv'
  OBVIOUS
<1>a. ASSUME mPhase' \in {"nodes", "close", "end"}, mFound' = mFound, mPhase # "over" PROVE LookInv'
  BY <1>a DEF LookInv
<1>1. CASE ParseElem
  <2>1. mPhase = "nodes" /\ mFound' = mFound
    BY <1>1 DEF ParseElem
  <2>2. PICK node \in MNodes :
          CASE node.kind \in {"start", "empty"} -> StartTag(node)
            [] node.kind = "end" -> EndTag(node)
            [] node.kind = "bad" -> BadNode
    BY <1>1 DEF ParseElem
  <2>3. node.kind \in {"start", "empty", "end", "bad"}
    BY DEF MNodes
  <2>4. CASE StartTag(node)
    BY <1>a, <2>1, <2>4 DEF StartTag
  <2>5. CASE EndTag(node)
    BY <1>a, <2>1, <2>5, Zenon DEF EndTag
  <2>6. CASE BadNode
    BY <1>a, <2>1, <2>6 DEF BadNode
  <2> QED
    BY <2>2, <2>3, <2>4, <2>5, <2>6
<1>2. CASE EndOfDocument
  BY <1>a, <1>2 DEF EndOfDocument
<1>3. CASE Unend
  BY <1>a, <1>3 DEF Unend
<1>4. CASE Close
  BY <1>a, <1>4 DEF Close
<1>5. CASE Loaded
  <2>1. /\ mPhase = "end" /\ mPhase' = (IF IsWellFormed THEN "find" ELSE "over") /\ mPos' = 0
        /\ mDoc' = mDoc /\ mElem' = mElem /\ mFound' = mFound
    BY <1>5 DEF Loaded
  <2>2. ~mFound /\ (IsWellFormed' <=> IsWellFormed) /\ AtRoot' = AtRoot
    BY <2>1 DEF LookInv, IsWellFormed, AtRoot
  <2>3. AtRoot \subseteq Nat \ {0}
    <3>1. TreeInv /\ ~Parsed
      BY <2>1 DEF NestInv, Parsed
    <3>2. Tree(mElem, ElemCount)
      BY <3>1, Reads
    <3> QED
      BY <3>2, Links DEF AtRoot
  <2> QED
    BY <2>1, <2>2, <2>3 DEF LookInv
<1>6. CASE FindElem
  <2> DEFINE x == NextElem
  <2>1. /\ mPhase = "find" /\ mPos' = x /\ mElem' = mElem /\ mDoc' = mDoc
        /\ mFound' = (x # 0 /\ Matches(x))
        /\ mPhase' = IF mFound' \/ x = 0 THEN "over" ELSE "find"
    BY <1>6 DEF FindElem, Matches
  <2>2. /\ IsWellFormed /\ mPos \in AtRoot \cup {0}
        /\ \A k \in AtRoot : k <= mPos => ~Matches(k)
    BY <2>1 DEF LookInv
  <2>3. Tree(mElem, ElemCount)
    BY DEF NestInv, TreeInv, MTyped
  <2>4. Least({k \in AtRoot : mPos < k}, x) /\ AtRoot \subseteq Nat \ {0} /\ mPos \in Nat
    <3>1. Least({k \in AtRoot : mPos < k}, NextElem) /\ AtRoot \subseteq 1 .. ElemCount /\ ElemCount \in Nat
      BY <2>2, <2>3, NextAtRoot
    <3> QED
      BY <2>2, <3>1
  <2>5. (IsWellFormed' <=> IsWellFormed) /\ AtRoot' = AtRoot /\ \A k : Matches(k)' <=> Matches(k)
    BY <2>1 DEF IsWellFormed, AtRoot, Matches
  <2> HIDE DEF x
  <2>6. CASE x = 0
    <3>1. \A k \in AtRoot : ~(mPos < k)
      BY <2>4, <2>6 DEF Least
    <3>2. \A k \in AtRoot : ~Matches(k)
      BY <2>2, <2>4, <3>1
    <3>3. mPhase' = "over" /\ ~mFound'
      BY <2>1, <2>6
    <3> QED
      BY <2>5, <3>2, <3>3 DEF LookInv
  <2>7. CASE x # 0
    <3>1. x \in AtRoot /\ \A k \in AtRoot : mPos < k => x <= k
      BY <2>4, <2>7 DEF Least
    <3>2. CASE Matches(x)
      <4>1. mPhase' = "over" /\ mFound'
        BY <2>1, <2>7, <3>2
      <4> QED
        BY <2>2, <2>5, <3>1, <3>2, <4>1 DEF LookInv
    <3>3. CASE ~Matches(x)
      <4>1. mPhase' = "find" /\ ~mFound' /\ mPos' = x
        BY <2>1, <2>7, <3>3
      <4>2. \A k \in AtRoot : k <= x => ~Matches(k)
        <5> TAKE k \in AtRoot
        <5>1. k <= x => k <= mPos \/ k = x
          BY <2>4, <3>1
        <5> QED
          BY <2>2, <3>3, <5>1
      <4> QED
        BY <2>2, <2>5, <3>1, <4>1, <4>2 DEF LookInv
    <3> QED
      BY <3>2, <3>3
  <2> QED
    BY <2>6, <2>7
<1>7. CASE UNCHANGED mVars
  <2>1. /\ mDoc' = mDoc /\ mElem' = mElem /\ mPos' = mPos /\ mPhase' = mPhase /\ mFound' = mFound
    BY <1>7 DEF mVars
  <2>2. (IsWellFormed' <=> IsWellFormed) /\ AtRoot' = AtRoot /\ \A k : Matches(k)' <=> Matches(k)
    BY <2>1 DEF IsWellFormed, AtRoot, Matches
  <2> QED
    BY <2>1, <2>2 DEF LookInv
<1> QED
  BY <1>1, <1>2, <1>3, <1>4, <1>5, <1>6, <1>7 DEF MNext

\* The tree of a document that nests, once it is read.
LEMMA NestedTree ==
  ASSUME NestInv, Parsed, Clean(mElem)
  PROVE  /\ Tree(mElem, ElemCount) /\ TextOrder(mElem, Len(mDoc)) /\ mDoc \in Seq(MNodes)
         /\ Placed(mElem, mDoc) /\ Ringed(mElem)
         /\ \A m \in DOMAIN mElem \ {0} : EndedAt(mElem, mDoc, m)
<1>1. Tree(mElem, ElemCount) /\ TextOrder(mElem, Len(mDoc)) /\ mDoc \in Seq(MNodes)
  BY DEF NestInv, TreeInv, MTyped
<1>2. mPhase \notin {"nodes", "close"} /\ mPhase # "close"
  BY DEF Parsed
<1>3. PICK w : Nested(w, mElem, mDoc, mStack, 0)
  BY <1>2 DEF NestInv
<1>4. Placed(mElem, mDoc) /\ Ringed(mElem) /\ Ended(w, mElem, mDoc, 0)
  BY <1>3 DEF Nested
<1>5. 1 .. 0 = {}
  OBVIOUS
<1>6. \A m \in DOMAIN mElem \ {0} : EndedAt(mElem, mDoc, m)
  BY <1>4, <1>5 DEF Ended
<1> QED
  BY <1>1, <1>4, <1>6

\* The roots of the document.
Roots(doc) == {k \in ElemsOf(doc) : DepthOf(doc, k - 1) = 0}

\* They are the starts of the children of ELEM(0).
LEMMA RootsAre ==
  ASSUME NEW n, NEW e, Tree(e, n), NEW doc \in Seq(MNodes), Placed(e, doc),
         TextOrder(e, Len(doc))
  PROVE  /\ \A m \in Children(e, 0) : e[m].start \in Roots(doc)
         /\ \A k \in Roots(doc) : \E m \in Children(e, 0) : e[m].start = k
         /\ \A m, k \in Children(e, 0) : e[m].start = e[k].start => m = k
<1>1. /\ \A m \in 1 .. n : PlacedAt(e, doc, m)
      /\ \A m, k \in 0 .. n : e[m].start = e[k].start => m = k
  BY PlacedIn
<1>2. DOMAIN e = 0 .. n /\ n \in Nat /\ Children(e, 0) \subseteq 1 .. n
      /\ \A m \in 1 .. n : m \in 0 .. n
  BY Links
<1>3. \A m \in Children(e, 0) : e[m].parent = 0
  BY DEF Children
<1>4. \A m \in Children(e, 0) : e[m].start \in Roots(doc)
  BY <1>1, <1>2, <1>3 DEF PlacedAt, Roots
<1>5. ASSUME NEW k \in Roots(doc) PROVE \E m \in Children(e, 0) : e[m].start = k
  <2>1. k \in ElemsOf(doc) /\ DepthOf(doc, k - 1) = 0
    BY DEF Roots
  <2>2. PICK m \in DOMAIN e \ {0} : e[m].start = k
    BY <2>1 DEF Placed
  <2>3. PlacedAt(e, doc, m)
    BY DEF Placed
  <2>4. e[m].parent = 0
    BY <2>1, <2>2, <2>3 DEF PlacedAt
  <2>5. m \in Children(e, 0)
    BY <2>4 DEF Children
  <2> QED
    BY <2>2, <2>5
<1>6. \A m, k \in Children(e, 0) : e[m].start = e[k].start => m = k
  BY <1>1, <1>2
<1> QED
  BY <1>4, <1>5, <1>6

\* The parser takes the document to have one root when ELEM(0) has one child.
LEMMA OneRoot ==
  ASSUME NEW n, NEW e, Tree(e, n)
  PROVE  e[0].child # 0 /\ e[e[0].child].next = 0 <=> Children(e, 0) = {e[0].child}
<1> DEFINE r == e[0].child
           C == Children(e, 0)
<1>1. /\ n \in Nat /\ 0 \in 0 .. n /\ C \subseteq 1 .. n /\ r \in 0 .. n /\ Least(C, r)
  <2>1. n \in Nat
    BY Links
  <2>2. 0 \in 0 .. n
    BY <2>1
  <2> QED
    BY <2>1, <2>2, Links
<1>2. r # 0 => /\ r \in C
               /\ Least({k \in C : r < k}, e[r].next)
  <2> SUFFICES ASSUME r # 0 PROVE r \in C /\ Least({k \in C : r < k}, e[r].next)
    OBVIOUS
  <2>1. r \in C /\ r \in 1 .. n
    BY <1>1 DEF Least
  <2>2. e[r].parent = 0 /\ Least(Behind(e, r), e[r].next)
    BY <2>1, Links DEF Children
  <2>3. Behind(e, r) = {k \in C : r < k}
    BY <2>2 DEF Behind
  <2> QED
    BY <2>1, <2>2, <2>3
<1> HIDE DEF r, C
<1>3. ASSUME r # 0, e[r].next = 0 PROVE C = {r}
  <2>1. {k \in C : r < k} = {}
    BY <1>1, <1>2, <1>3 DEF Least
  <2>2. \A k \in C : r <= k /\ ~(r < k)
    BY <1>1, <2>1 DEF Least
  <2>3. \A k \in C : k = r
    BY <1>1, <2>2
  <2> QED
    BY <1>2, <1>3, <2>3
<1>4. ASSUME C = {r} PROVE r # 0 /\ e[r].next = 0
  <2>1. r # 0
    BY <1>1, <1>4
  <2>2. {k \in C : r < k} = {}
    BY <1>1, <1>4
  <2> QED
    BY <1>2, <2>1, <2>2 DEF Least
<1> QED
  BY <1>3, <1>4 DEF r, C

\* A document that nests has one root when its tree has.
LEMMA OneRootBoth ==
  ASSUME NEW n, NEW e, Tree(e, n), NEW doc \in Seq(MNodes), Placed(e, doc),
         TextOrder(e, Len(doc))
  PROVE  Children(e, 0) = {e[0].child} <=> Cardinality(Roots(doc)) = 1
<1> DEFINE r == e[0].child
           C == Children(e, 0)
           R == Roots(doc)
<1>1. /\ \A m \in C : e[m].start \in R
      /\ \A k \in R : \E m \in C : e[m].start = k
      /\ \A m, k \in C : e[m].start = e[k].start => m = k
  BY RootsAre
<1>2. Least(C, r)
  <2>1. n \in Nat
    BY Links
  <2>2. 0 \in 0 .. n
    BY <2>1
  <2> QED
    BY <2>2, Links
<1>3. IsFiniteSet(R)
  <2>0. Len(doc) \in Nat /\ DOMAIN doc = 1 .. Len(doc)
    OBVIOUS
  <2>1. R \subseteq 1 .. Len(doc) /\ IsFiniteSet(1 .. Len(doc))
    BY <2>0, FS_Interval DEF Roots, ElemsOf
  <2> QED
    BY <2>1, FS_Subset
<1> HIDE DEF r, C, R
<1>4. ASSUME C = {r} PROVE Cardinality(R) = 1
  <2>1. R = {e[r].start}
    BY <1>1, <1>4
  <2> QED
    BY <2>1, FS_Singleton
<1>5. ASSUME Cardinality(R) = 1 PROVE C = {r}
  <2>1. PICK k : R = {k}
    BY <1>3, <1>5, FS_Singleton
  <2>2. PICK m \in C : e[m].start = k
    BY <1>1, <2>1
  <2>3. C = {m}
    BY <1>1, <2>1, <2>2
  <2> QED
    BY <1>2, <2>3 DEF Least
<1> QED
  BY <1>4, <1>5 DEF r, C, R

\* What well-formed means is what AllFine says, and one root.
LEMMA WellFormedMeans ==
  WellFormed <=> /\ AllFine(mDoc) /\ DepthOf(mDoc, Len(mDoc)) = 0
                 /\ Cardinality(Roots(mDoc)) = 1
<1>1. \A k : Depth(k) = DepthOf(mDoc, k)
  BY DEF Depth, DepthOf
<1>2. \A k : Enclosing(k) = Around(mDoc, k)
  BY <1>1 DEF Enclosing, Around, StartsAt
<1>3. Elems = ElemsOf(mDoc)
  BY DEF Elems, ElemsOf
<1>4. {k \in Elems : Depth(k - 1) = 0} = Roots(mDoc)
  BY <1>1, <1>3 DEF Roots
<1>5. (\A k \in DOMAIN mDoc :
         /\ mDoc[k].kind # "bad" /\ Depth(k) >= 0
         /\ mDoc[k].kind = "end" => mDoc[Enclosing(k)].tag = mDoc[k].tag) <=> AllFine(mDoc)
  BY <1>1, <1>2 DEF AllFine, Fine
<1> QED
  BY <1>1, <1>4, <1>5 DEF WellFormed

\* The parser accepts the well-formed documents and no others.
LEMMA AcceptedRight ==
  ASSUME NestInv, Parsed
  PROVE  IsWellFormed <=> WellFormed
<1>1. mPhase \notin {"nodes", "close"}
  BY DEF Parsed
<1>2. Clean(mElem) <=> AllFine(mDoc) /\ DepthOf(mDoc, Len(mDoc)) = 0
  BY <1>1 DEF NestInv
<1>3. IsWellFormed <=> Clean(mElem) /\ mElem[0].child # 0 /\ mElem[mElem[0].child].next = 0
  BY DEF IsWellFormed, Clean
<1>4. ASSUME Clean(mElem)
      PROVE  mElem[0].child # 0 /\ mElem[mElem[0].child].next = 0 <=> Cardinality(Roots(mDoc)) = 1
  <2>1. /\ Tree(mElem, ElemCount) /\ TextOrder(mElem, Len(mDoc)) /\ mDoc \in Seq(MNodes)
        /\ Placed(mElem, mDoc)
    BY <1>4, NestedTree
  <2>2. mElem[0].child # 0 /\ mElem[mElem[0].child].next = 0
          <=> Children(mElem, 0) = {mElem[0].child}
    BY <2>1, OneRoot
  <2>3. Children(mElem, 0) = {mElem[0].child} <=> Cardinality(Roots(mDoc)) = 1
    BY <2>1, OneRootBoth
  <2> QED
    BY <2>2, <2>3
<1> QED
  BY <1>2, <1>3, <1>4, WellFormedMeans

\* The elements right under the root are the children of the root.
LEMMA UnderRoot ==
  ASSUME NEW n, NEW e, Tree(e, n), NEW doc \in Seq(MNodes), Placed(e, doc),
         TextOrder(e, Len(doc)), NEW r, Children(e, 0) = {r}
  PROVE  /\ \A m \in Children(e, r) : e[m].start \in ElemsOf(doc)
                                      /\ DepthOf(doc, e[m].start - 1) = 1
         /\ \A k \in ElemsOf(doc) :
              DepthOf(doc, k - 1) = 1 => \E m \in Children(e, r) : e[m].start = k
<1>1. /\ \A m \in 1 .. n : /\ PlacedAt(e, doc, m) /\ e[m].start \in 1 .. Len(doc)
                           /\ e[m].parent \in 0 .. n /\ e[m].start \in ElemsOf(doc)
  BY PlacedIn
<1>2. /\ DOMAIN e = 0 .. n /\ n \in Nat /\ \A p : Children(e, p) \subseteq 1 .. n
      /\ \A m \in 0 .. n : m # 0 => m \in 1 .. n
  BY Links
<1>3. r \in 1 .. n /\ e[r].parent = 0 /\ r # 0
  BY <1>2 DEF Children
<1>4. ASSUME NEW k \in 1 .. Len(doc), doc[k].kind = "start"
      PROVE  DepthOf(doc, k) = DepthOf(doc, k - 1) + 1 /\ DepthOf(doc, k - 1) \in Int
  <2>1. k - 1 \in 0 .. Len(doc)
    OBVIOUS
  <2>2. Climb(doc[k]) = 1
    BY <1>4 DEF Climb
  <2> QED
    BY <2>1, <2>2, Depths
<1>5. ASSUME NEW m \in Children(e, r)
      PROVE  e[m].start \in ElemsOf(doc) /\ DepthOf(doc, e[m].start - 1) = 1
  <2>1. m \in 1 .. n /\ e[m].parent = r
    BY <1>2 DEF Children
  <2>2. /\ e[m].start \in ElemsOf(doc) /\ doc[e[r].start].kind = "start"
        /\ DepthOf(doc, e[r].start) = DepthOf(doc, e[m].start - 1)
    BY <1>1, <1>3, <2>1 DEF PlacedAt
  <2>3. DepthOf(doc, e[r].start - 1) = 0 /\ e[r].start \in 1 .. Len(doc)
    BY <1>1, <1>3 DEF PlacedAt
  <2>4. DepthOf(doc, e[r].start) = DepthOf(doc, e[r].start - 1) + 1
    BY <1>4, <2>2, <2>3
  <2> QED
    BY <2>2, <2>3, <2>4
<1>6. ASSUME NEW k \in ElemsOf(doc), DepthOf(doc, k - 1) = 1
      PROVE  \E m \in Children(e, r) : e[m].start = k
  <2>1. PICK m \in DOMAIN e \ {0} : e[m].start = k
    BY DEF Placed
  <2> DEFINE p == e[m].parent
  <2>2. m \in 1 .. n
    BY <1>2
  <2>3. /\ p \in 1 .. n /\ doc[e[p].start].kind = "start" /\ DepthOf(doc, e[p].start) = 1
    <3>1. PlacedAt(e, doc, m) /\ p \in 0 .. n
      BY <1>1, <2>2
    <3>2. p # 0
      BY <1>6, <2>1, <3>1 DEF PlacedAt
    <3> QED
      BY <1>2, <1>6, <2>1, <3>1, <3>2 DEF PlacedAt
  <2> HIDE DEF p
  <2>4. DepthOf(doc, e[p].start - 1) = 0
    <3>1. e[p].start \in 1 .. Len(doc)
      BY <1>1, <2>3
    <3>2. DepthOf(doc, e[p].start) = DepthOf(doc, e[p].start - 1) + 1
          /\ DepthOf(doc, e[p].start - 1) \in Int
      BY <1>4, <2>3, <3>1
    <3> QED
      BY <2>3, <3>2
  <2>5. e[p].parent = 0
    BY <1>1, <2>3, <2>4 DEF PlacedAt
  <2>6. p \in Children(e, 0)
    BY <1>2, <2>3, <2>5 DEF Children
  <2>7. m \in Children(e, r)
    BY <2>6 DEF Children, p
  <2> QED
    BY <2>1, <2>7
<1> QED
  BY <1>5, <1>6

(***************************************************************************)
(* However long the document is, the parser accepts it just if it is       *)
(* well-formed, and the package is found just if an element right under    *)
(* its root names it.                                                      *)
(***************************************************************************)
THEOREM LookupIsRight == MSpec => []LookupRight
<1>1. NestInv /\ LookInv => LookupRight
  <2> SUFFICES ASSUME NestInv, LookInv PROVE LookupRight
    OBVIOUS
  <2>1. Parsed => (IsWellFormed <=> WellFormed)
    BY AcceptedRight
  <2>2. ASSUME mPhase = "over"
        PROVE  mFound <=> WellFormed /\ \E k \in Elems : Depth(k - 1) = 1 /\ mDoc[k].tag = "package"
                                                       /\ mDoc[k].pkg = MWanted
    <3>1. Parsed /\ (IsWellFormed <=> WellFormed)
      BY <2>1, <2>2 DEF Parsed
    <3>2. mFound <=> IsWellFormed /\ \E k \in AtRoot : Matches(k)
      BY <2>2 DEF LookInv
    <3>3. CASE ~WellFormed
      BY <3>1, <3>2, <3>3
    <3>4. CASE WellFormed
      <4> DEFINE e == mElem
                 r == e[0].child
      <4>1. Clean(e) /\ r # 0 /\ e[r].next = 0
        BY <3>1, <3>4 DEF IsWellFormed, Clean
      <4>2. /\ Tree(e, ElemCount) /\ TextOrder(e, Len(mDoc)) /\ mDoc \in Seq(MNodes)
            /\ Placed(e, mDoc)
        BY <3>1, <4>1, NestedTree
      <4>3. Children(e, 0) = {r}
        BY <4>1, <4>2, OneRoot
      <4>4. /\ \A m \in Children(e, r) : e[m].start \in ElemsOf(mDoc)
                                         /\ DepthOf(mDoc, e[m].start - 1) = 1
            /\ \A k \in ElemsOf(mDoc) :
                 DepthOf(mDoc, k - 1) = 1 => \E m \in Children(e, r) : e[m].start = k
        BY <4>2, <4>3, UnderRoot
      <4>5. Elems = ElemsOf(mDoc) /\ AtRoot = Children(e, r) /\ \A k : Depth(k) = DepthOf(mDoc, k)
        BY DEF Elems, ElemsOf, AtRoot, Depth, DepthOf
      <4>6. \A k : Matches(k) <=> mDoc[e[k].start].tag = "package" /\ mDoc[e[k].start].pkg = MWanted
        BY DEF Matches
      <4> HIDE DEF e, r
      <4>7. (\E k \in AtRoot : Matches(k))
              <=> \E k \in Elems : Depth(k - 1) = 1 /\ mDoc[k].tag = "package" /\ mDoc[k].pkg = MWanted
        BY <4>4, <4>5, <4>6
      <4> QED
        BY <3>1, <3>2, <3>4, <4>7
    <3> QED
      BY <3>3, <3>4
  <2> QED
    BY <2>1, <2>2 DEF LookupRight
<1>2. MInit => NestInv /\ LookInv
  BY NestInit, LookInit
<1>3. NestInv /\ LookInv /\ [MNext]_mVars => NestInv' /\ LookInv'
  BY NestInductive, LookInductive
<1> QED
  BY <1>1, <1>2, <1>3, PTL DEF MSpec

\* The children along next are a sequence.
LEMMA KidsSequence ==
  ASSUME NEW n, NEW e, Tree(e, n), NEW p \in 0 .. n
  PROVE  LET kids == Kids(e, p)
         IN  /\ DOMAIN kids = 1 .. Len(kids) /\ Len(kids) \in Nat
             /\ Last(kids) = kids[Len(kids)]
<1> DEFINE kids == Kids(e, p)
<1>1. /\ ToSet(kids) = Children(e, p)
      /\ \A i, j \in DOMAIN kids : i < j => kids[i] < kids[j]
      /\ DOMAIN kids \subseteq Nat /\ kids = [i \in DOMAIN kids |-> kids[i]]
      /\ \A j \in DOMAIN kids : \A i \in 1 .. j : i \in DOMAIN kids
  BY KidsAre
<1>2. DOMAIN kids \subseteq 1 .. n + 1 /\ n \in Nat
  <2>1. n \in Nat /\ DOMAIN e = 0 .. n
    BY Links
  <2>2. Cardinality(DOMAIN e) = n + 1
    <3>1. Cardinality(0 .. n) = IF 0 > n THEN 0 ELSE n - 0 + 1
      BY <2>1, FS_Interval
    <3> QED
      BY <2>1, <3>1
  <2> DEFINE N == Cardinality(DOMAIN e)
             f == CHOOSE g : KidChain(g, e, p, N)
             K == {i \in 1 .. N : f[i - 1] # 0}
  <2>3. kids = [k \in K |-> f[k - 1]]
    BY Zenon DEF Kids, KidChain
  <2>4. DOMAIN kids \subseteq 1 .. N
    <3> HIDE DEF kids, f, N
    <3> QED
      BY <2>3
  <2> QED
    BY <2>1, <2>2, <2>4
<1> HIDE DEF kids
<1>3. \E c \in Nat : DOMAIN kids = 1 .. c
  <2>1. CASE DOMAIN kids = {}
    BY <2>1
  <2>2. CASE DOMAIN kids # {}
    <3>1. n + 1 \in Nat /\ DOMAIN kids \in SUBSET (0 .. n + 1)
      BY <1>2
    <3>2. PICK c \in DOMAIN kids : \A i \in DOMAIN kids : i <= c
      BY <2>2, <3>1, Greatest
    <3>3. c \in Nat /\ \A i \in DOMAIN kids : i \in 1 .. c
      BY <1>2, <3>2
    <3>4. DOMAIN kids = 1 .. c
      BY <1>1, <3>3
    <3> QED
      BY <3>3, <3>4
  <2> QED
    BY <2>1, <2>2
<1>4. PICK c \in Nat : DOMAIN kids = 1 .. c
  BY <1>3
<1>5. Len(kids) = c
  <2>1. kids \in Seq({kids[i] : i \in 1 .. c}) /\ kids = [i \in 1 .. c |-> kids[i]]
    BY <1>1, <1>4
  <2> QED
    BY <1>4, <2>1
<1>6. Last(kids) = kids[Len(kids)]
  BY DEF Last
<1> QED
  BY <1>4, <1>5, <1>6 DEF kids

\* What is last is one element only.
LEMMA OneLast ==
  ASSUME NEW S \in SUBSET Nat, NEW x, IsLast(S, x), NEW y, IsLast(S, y)
  PROVE  x = y
<1>1. x \in Nat /\ y \in Nat /\ x <= y /\ y <= x
  BY DEF IsLast
<1> QED
  BY <1>1

PrevIs(e, m) ==
  LET sibs == Kids(e, e[m].parent)
  IN  \A i \in {j \in DOMAIN sibs : sibs[j] = m} :
        e[m].prev = IF i = 1 THEN Last(sibs) ELSE sibs[i - 1]

SiblingsAre(e, doc, m) ==
  /\ e[e[m].parent].start = Around(doc, e[m].start)
  /\ {e[k].start : k \in Children(e, e[m].parent)} =
       {k \in ElemsOf(doc) : Around(doc, k) = Around(doc, e[m].start)}

\* prev is the child before, and of the first child the last one.
LEMMA PrevRight ==
  ASSUME NEW n, NEW e, Tree(e, n), Ringed(e), NEW m \in 1 .. n
  PROVE  PrevIs(e, m)
<1> DEFINE p == e[m].parent
           sibs == Kids(e, p)
<1>1. /\ p \in 0 .. n /\ n \in Nat /\ m \in Children(e, p) /\ Children(e, p) \subseteq 1 .. n
      /\ DOMAIN e = 0 .. n
  BY Links
<1>2. /\ ToSet(sibs) = Children(e, p)
      /\ \A i, j \in DOMAIN sibs : i < j => sibs[i] < sibs[j]
  BY <1>1, KidsAre
<1>3. DOMAIN sibs = 1 .. Len(sibs) /\ Len(sibs) \in Nat /\ Last(sibs) = sibs[Len(sibs)]
  BY <1>1, KidsSequence
<1>4. IsLast(IF Before(e, m) = {} THEN Children(e, p) ELSE Before(e, m), e[m].prev)
  <2>1. m \in DOMAIN e \ {0}
    BY <1>1
  <2> QED
    BY <2>1 DEF Ringed
<1>5. Before(e, m) = {k \in Children(e, p) : k < m}
  BY DEF Before
<1> SUFFICES ASSUME NEW i \in DOMAIN sibs, sibs[i] = m
             PROVE  e[m].prev = IF i = 1 THEN Last(sibs) ELSE sibs[i - 1]
  BY DEF PrevIs
<1> HIDE DEF sibs
<1>6. \A k : k \in Children(e, p) <=> \E j \in 1 .. Len(sibs) : sibs[j] = k
  BY <1>2, <1>3 DEF ToSet
<1>k. \A j \in 1 .. Len(sibs) : sibs[j] \in Children(e, p) /\ sibs[j] \in Nat
  BY <1>1, <1>6
<1>7. CASE i = 1
  <2>1. Before(e, m) = {}
    <3> SUFFICES ASSUME NEW k \in Children(e, p), k < m PROVE FALSE
      BY <1>5
    <3>1. PICK j \in 1 .. Len(sibs) : sibs[j] = k
      BY <1>6
    <3>2. j = 1 \/ sibs[1] < sibs[j]
      BY <1>2, <1>3, <1>7
    <3> QED
      BY <1>7, <1>k, <3>1, <3>2
  <2>2. IsLast(Children(e, p), sibs[Len(sibs)])
    <3>1. Len(sibs) \in 1 .. Len(sibs)
      BY <1>3, <1>7
    <3>2. ASSUME NEW k \in Children(e, p) PROVE k <= sibs[Len(sibs)]
      <4>1. PICK j \in 1 .. Len(sibs) : sibs[j] = k
        BY <1>6
      <4>2. j = Len(sibs) \/ sibs[j] < sibs[Len(sibs)]
        <5>1. j \in DOMAIN sibs /\ Len(sibs) \in DOMAIN sibs
          BY <1>3, <3>1
        <5>2. j = Len(sibs) \/ j < Len(sibs)
          <6> DEFINE c == Len(sibs)
          <6>1. c \in Nat /\ j \in 1 .. c
            BY <1>3, <4>1
          <6> HIDE DEF c
          <6>2. j = c \/ j < c
            BY <6>1
          <6> QED
            BY <6>2 DEF c
        <5> QED
          BY <1>2, <5>1, <5>2
      <4> QED
        BY <1>k, <3>1, <4>1, <4>2
    <3> QED
      BY <1>k, <3>1, <3>2 DEF IsLast
  <2>3. Children(e, p) \in SUBSET Nat
    BY <1>1
  <2>4. e[m].prev = sibs[Len(sibs)]
    BY <1>4, <2>1, <2>2, <2>3, OneLast
  <2> QED
    BY <1>3, <1>7, <2>4
<1>8. CASE i # 1
  <2>1. i \in Nat /\ i - 1 \in 1 .. Len(sibs) /\ i - 1 < i
    BY <1>3, <1>8
  <2>2. sibs[i - 1] \in Before(e, m)
    BY <1>2, <1>3, <1>5, <1>k, <2>1
  <2>3. ASSUME NEW k \in Before(e, m) PROVE k <= sibs[i - 1]
    <3>1. k \in Children(e, p) /\ k < m
      BY <1>5
    <3>2. PICK j \in 1 .. Len(sibs) : sibs[j] = k
      BY <1>6, <3>1
    <3>3. ~(i <= j)
      <4>1. i < j => m < k
        BY <1>2, <1>3, <3>2
      <4>2. m \in Nat /\ k \in Nat /\ i \in Nat /\ j \in Nat
        BY <1>1, <1>k, <2>1, <3>2
      <4> QED
        BY <3>1, <3>2, <4>1, <4>2
    <3>4. j = i - 1 \/ j < i - 1
      BY <2>1, <3>3
    <3>5. j < i - 1 => sibs[j] < sibs[i - 1]
      BY <1>2, <1>3, <2>1
    <3> QED
      BY <1>k, <2>1, <3>2, <3>4, <3>5
  <2>4. IsLast(Before(e, m), sibs[i - 1]) /\ Before(e, m) # {}
    BY <2>2, <2>3 DEF IsLast
  <2>5. Before(e, m) \in SUBSET Nat
    BY <1>1, <1>5
  <2>6. e[m].prev = sibs[i - 1]
    BY <1>4, <2>4, <2>5, OneLast
  <2> QED
    BY <1>8, <2>6
<1> QED
  BY <1>7, <1>8

\* The children of an element are the elements the text has in it.
LEMMA ChildrenRight ==
  ASSUME NEW n, NEW e, Tree(e, n), NEW doc \in Seq(MNodes), Placed(e, doc),
         TextOrder(e, Len(doc)), NEW m \in 1 .. n
  PROVE  SiblingsAre(e, doc, m)
<1> DEFINE p == e[m].parent
           up == Around(doc, e[m].start)
<1>1. /\ \A k \in 1 .. n : /\ e[k].start \in ElemsOf(doc) /\ e[k].parent \in 0 .. n
                           /\ e[e[k].parent].start = Around(doc, e[k].start)
      /\ \A j, k \in 0 .. n : e[j].start = e[k].start => j = k
  BY PlacedIn DEF PlacedAt
<1>2. DOMAIN e = 0 .. n /\ n \in Nat /\ Children(e, p) \subseteq 1 .. n
  BY Links
<1>3. p \in 0 .. n /\ e[p].start = up
  BY <1>1
<1> HIDE DEF p, up
<1>4. \A k \in Children(e, p) : k \in 1 .. n /\ e[k].parent = p
  BY <1>2 DEF Children
<1>5. ASSUME NEW k \in Children(e, p)
      PROVE  e[k].start \in ElemsOf(doc) /\ Around(doc, e[k].start) = up
  BY <1>1, <1>3, <1>4
<1>6. ASSUME NEW s \in ElemsOf(doc), Around(doc, s) = up
      PROVE  \E k \in Children(e, p) : e[k].start = s
  <2>1. PICK k \in DOMAIN e \ {0} : e[k].start = s
    BY DEF Placed
  <2>2. k \in 1 .. n
    BY <1>2
  <2>3. e[k].parent = p
    BY <1>1, <1>3, <1>6, <2>1, <2>2
  <2>4. k \in Children(e, p)
    BY <2>3 DEF Children
  <2> QED
    BY <2>1, <2>4
<1> QED
  BY <1>3, <1>5, <1>6 DEF p, up, SiblingsAre

(***************************************************************************)
(* However long a well-formed document is, the tree is that of its text.   *)
(***************************************************************************)
THEOREM TreeIsRight == MSpec => []TreeRight
<1>1. NestInv => TreeRight
  <2> SUFFICES ASSUME NestInv, Parsed, WellFormed, NEW n \in DOMAIN mElem \ {0}
               PROVE  LET up   == Enclosing(mElem[n].start)
                          sibs == Kids(mElem, mElem[n].parent)
                          at   == {i \in DOMAIN sibs : sibs[i] = n}
                          ends == {k \in DOMAIN mDoc : mDoc[k].kind = "end"
                                                       /\ Enclosing(k) = mElem[n].start}
                      IN  /\ mElem[mElem[n].parent].start = up
                          /\ {mElem[m].start : m \in ToSet(sibs)} = {k \in Elems : Enclosing(k) = up}
                          /\ \A i \in at : mElem[n].prev = IF i = 1 THEN Last(sibs) ELSE sibs[i - 1]
                          /\ mElem[n].start + mElem[n].length - 1 =
                               IF ends = {} THEN mElem[n].start ELSE LastOf(ends)
    BY DEF TreeRight
  <2>1. Clean(mElem)
    <3>1. IsWellFormed
      BY AcceptedRight
    <3> QED
      BY <3>1 DEF IsWellFormed, Clean
  <2>2. /\ Tree(mElem, ElemCount) /\ TextOrder(mElem, Len(mDoc)) /\ mDoc \in Seq(MNodes)
        /\ Placed(mElem, mDoc) /\ Ringed(mElem) /\ EndedAt(mElem, mDoc, n)
    BY <2>1, NestedTree
  <2>3. /\ n \in 1 .. ElemCount /\ mElem \in [0 .. ElemCount -> Element]
        /\ mElem[n].parent \in 0 .. ElemCount
    <3>1. ElemCount \in Nat /\ DOMAIN mElem = 0 .. ElemCount
      BY <2>2, Links
    <3>2. n \in 1 .. ElemCount
      BY <3>1
    <3> QED
      BY <2>2, <3>2, Links
  <2>4. \A k : Enclosing(k) = Around(mDoc, k)
    <3>1. \A k : Depth(k) = DepthOf(mDoc, k)
      BY DEF Depth, DepthOf
    <3> QED
      BY <3>1 DEF Enclosing, Around, StartsAt
  <2>5. Elems = ElemsOf(mDoc)
    BY DEF Elems, ElemsOf
  <2> DEFINE s == mElem[n].start
             up == Enclosing(s)
             sibs == Kids(mElem, mElem[n].parent)
             ends == {k \in DOMAIN mDoc : mDoc[k].kind = "end" /\ Enclosing(k) = s}
  <2>6. /\ mElem[mElem[n].parent].start = up
        /\ {mElem[k].start : k \in Children(mElem, mElem[n].parent)} =
             {k \in Elems : Enclosing(k) = up}
    <3>0. /\ Tree(mElem, ElemCount) /\ mDoc \in Seq(MNodes) /\ Placed(mElem, mDoc)
          /\ TextOrder(mElem, Len(mDoc)) /\ n \in 1 .. ElemCount
      BY <2>2, <2>3
    <3>1. SiblingsAre(mElem, mDoc, n)
      <4> DEFINE c == ElemCount
      <4>1. /\ Tree(mElem, c) /\ mDoc \in Seq(MNodes) /\ Placed(mElem, mDoc)
            /\ TextOrder(mElem, Len(mDoc)) /\ n \in 1 .. c
        BY <3>0
      <4> HIDE DEF c
      <4> QED
        BY <4>1, ChildrenRight
    <3> QED
      BY <2>4, <2>5, <3>1 DEF SiblingsAre
  <2>7. ToSet(sibs) = Children(mElem, mElem[n].parent)
    BY <2>2, <2>3, KidsAre
  <2>8. \A i \in {j \in DOMAIN sibs : sibs[j] = n} :
          mElem[n].prev = IF i = 1 THEN Last(sibs) ELSE sibs[i - 1]
    <3>1. Tree(mElem, ElemCount) /\ Ringed(mElem) /\ n \in 1 .. ElemCount
      BY <2>2, <2>3
    <3>2. PrevIs(mElem, n)
      <4> DEFINE c == ElemCount
      <4>1. Tree(mElem, c) /\ Ringed(mElem) /\ n \in 1 .. c
        BY <3>1
      <4> HIDE DEF c
      <4> QED
        BY <4>1, PrevRight
    <3> QED
      BY <3>2 DEF PrevIs
  <2>9. ends = EndsOf(mDoc, s)
    BY <2>4 DEF EndsOf
  <2> HIDE DEF ends
  <2>10. s + mElem[n].length - 1 = IF ends = {} THEN s ELSE LastOf(ends)
    <3>1. mElem[n].start \in Nat /\ mElem[n].length \in Nat
      BY <2>3 DEF Element
    <3>2. CASE mDoc[s].kind = "empty"
      BY <2>2, <2>9, <3>1, <3>2 DEF EndedAt
    <3>3. CASE mDoc[s].kind # "empty"
      <4> DEFINE x == s + mElem[n].length - 1
      <4>1. ends = {x}
        <5>1. EndsOf(mDoc, s) = {End(mElem, n) - 1}
          BY <2>2, <3>3, Zenon DEF EndedAt
        <5>2. End(mElem, n) - 1 = x
          <6>1. End(mElem, n) = s + mElem[n].length
            BY Zenon DEF End
          <6> QED
            BY <3>1, <6>1
        <5> QED
          BY <2>9, <5>1, <5>2, Zenon
      <4>2. LastOf({x}) = x
        <5>1. \A l \in {x} : l <= x
          BY <3>1
        <5> HIDE DEF x
        <5> QED
          BY <5>1, Zenon DEF LastOf
      <4> QED
        BY <4>1, <4>2
    <3> QED
      BY <3>2, <3>3
  <2> QED
    BY <2>6, <2>7, <2>8, <2>10 DEF ends
<1> QED
  BY <1>1, NestInit, NestInductive, PTL DEF MSpec
=============================================================================
