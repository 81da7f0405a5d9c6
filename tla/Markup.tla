------------------------------- MODULE Markup -------------------------------
(***************************************************************************)
(* CMarkup as the program uses it on packages.xml: Load parses the text    *)
(* into a tree of elements linked by indexes (x_ParseDoc, x_ParseElem),    *)
(* and Find_packages_inXML walks over the children of the root.            *)
(*                                                                         *)
(* A document is the sequence of the nodes that TokenPos::ParseNode finds  *)
(* (module TokenPos), without the text, comments and so on that            *)
(* x_ParseElem passes over.  It is chosen node by node as the parser asks  *)
(* for them.                                                               *)
(***************************************************************************)
EXTENDS Integers, Sequences, FiniteSets, SequencesExt

CONSTANTS
  MTags,      \* names of elements, "package" among them
  MPkgs,      \* values of the first attribute
  MWanted,    \* the package looked up, QUICK_VIEW_PKG
  MMaxNodes   \* bound: nodes of the document

VARIABLES
  mDoc,       \* the nodes read so far
  mElem,      \* ELEM(0), the virtual parent, and the elements
  mPos,       \* iPos; in the lookup the current element
  mStack,     \* elemstack: the names of the open elements
  mMatch,     \* nMatchLevel
  mPhase,
  mFound

mVars == <<mDoc, mElem, mPos, mStack, mMatch, mPhase, mFound>>

\* The attribute is looked at in package elements only.
MNodes == {n \in [kind : {"start", "empty"}, tag : MTags, pkg : MPkgs] :
             n.tag = "package" \/ n.pkg = MWanted}
          \cup [kind : {"end"}, tag : MTags] \cup [kind : {"bad"}]

Fresh == [parent |-> 0, child |-> 0, next |-> 0, prev |-> 0, start |-> 0, length |-> 0,
          flags |-> {}]

MInit ==
  /\ mDoc = <<>> /\ mElem = [k \in {0} |-> Fresh] /\ mPos = 0 /\ mStack = <<>>
  /\ mMatch = 0 /\ mPhase = "nodes" /\ mFound = FALSE

Flag(e, n, f) == [e EXCEPT ![n].flags = @ \cup {f}]

With(e, n, rec) == [k \in DOMAIN e \cup {n} |-> IF k = n THEN rec ELSE e[k]]

\* Mutant: the first child's prev stays as it was.
AddChildOneWay(e, new, rec) ==
  LET first == e[mPos].child
      last  == e[first].prev
  IN  IF first = 0
      THEN With([e EXCEPT ![mPos].child = new],
                new, [rec EXCEPT !.prev = new, !.flags = {"first"}])
      ELSE With([e EXCEPT ![last].next = new], new, [rec EXCEPT !.prev = last])

\* A new element becomes the last child of the open one; the first child's
\* prev is the last child.
AddChild(e, new, rec) ==
  LET first == e[mPos].child
      last  == e[first].prev
  IN  IF first = 0
      THEN With([e EXCEPT ![mPos].child = new],
                new, [rec EXCEPT !.prev = new, !.flags = {"first"}])
      ELSE With([[e EXCEPT ![last].next = new] EXCEPT ![first].prev = new],
                new, [rec EXCEPT !.prev = last])

StartTag(node) ==
  LET new == Cardinality(DOMAIN mElem)
      rec == [Fresh EXCEPT !.parent = mPos, !.start = Len(mDoc) + 1, !.length = 1]
  IN  /\ mElem' = AddChild(mElem, new, rec)
      /\ IF node.kind = "empty" THEN UNCHANGED <<mPos, mStack>>
         ELSE mPos' = new /\ mStack' = Append(mStack, node.tag)
      /\ UNCHANGED <<mMatch, mPhase>>

\* iPosMatch: some levels up from the open element.
Up(levels) ==
  LET p[k \in 0 .. levels] == IF k = 0 THEN mPos ELSE mElem[p[k - 1]].parent
  IN  p[levels]

Levels(tag) == {k \in DOMAIN mStack : mStack[k] = tag}

Unended(e, level) == IF Len(mStack) > level THEN Flag(e, 0, "illformed") ELSE e

\* An end tag closes the innermost element of that name, and everything opened
\* since then is left unended.
EndTag(node) ==
  IF Levels(node.tag) = {}
  THEN /\ mElem' = Flag(Flag(mElem, 0, "illformed"), mPos, "illdata")
       /\ UNCHANGED <<mPos, mStack, mMatch, mPhase>>
  ELSE LET level == CHOOSE k \in Levels(node.tag) : \A l \in Levels(node.tag) : l <= k
           p     == Up(Len(mStack) - level)
       IN  /\ mElem' = Unended([mElem EXCEPT ![p].length =
                                  Len(mDoc) + 1 - mElem[p].start + 1], level)
           /\ mMatch' = level /\ mPhase' = "close"
           /\ UNCHANGED <<mPos, mStack>>

BadNode ==
  /\ mElem' = Flag(Flag(mElem, 0, "illformed"), mPos, "illdata")
  /\ UNCHANGED <<mPos, mStack, mMatch, mPhase>>

ParseElem ==
  /\ mPhase = "nodes" /\ Len(mDoc) < MMaxNodes
  /\ \E node \in MNodes :
       /\ CASE node.kind \in {"start", "empty"} -> StartTag(node)
            [] node.kind = "end" -> EndTag(node)
            [] node.kind = "bad" -> BadNode
       /\ mDoc' = Append(mDoc, node)
  /\ UNCHANGED mFound

EndOfDocument ==
  /\ mPhase = "nodes" /\ mPhase' = "end"
  /\ mElem' = Unended(mElem, 0) /\ mMatch' = 0
  /\ UNCHANGED <<mDoc, mPos, mStack, mFound>>

\* The children of n, along next.
Kids(e, n) ==
  LET N == Cardinality(DOMAIN e)
      at[k \in 0 .. N] == IF k = 0 THEN e[n].child
                          ELSE IF at[k - 1] = 0 THEN 0 ELSE e[at[k - 1]].next
  IN  [k \in {i \in 1 .. N : at[i - 1] # 0} |-> at[k - 1]]

\* Mutant: the children keep the unended element as their parent.
HandLoose(e, n) == e

\* The children of an unended element become siblings behind it.
Hand(e, n) ==
  LET kids == ToSet(Kids(e, n))
      first == e[n].child
  IN  [k \in DOMAIN e |->
        IF k \in kids
        THEN [e[k] EXCEPT !.parent = e[n].parent, !.prev = IF k = first THEN n ELSE @]
        ELSE e[k]]

Unend ==
  /\ mPhase \in {"close", "end"} /\ Len(mStack) > mMatch
  /\ LET e == Hand(mElem, mPos)
         p == mElem[mPos].parent
         ill == "illdata" \in mElem[mPos].flags
         f == (mElem[mPos].flags \cup {"nonended"}) \ {"illdata"}
         closed == [e EXCEPT ![mPos] =
                     [@ EXCEPT !.flags = f, !.child = 0, !.length = 1, !.next = e[mPos].child]]
     IN  mElem' = IF ill THEN Flag(closed, p, "illdata") ELSE closed
  /\ mPos' = mElem[mPos].parent
  /\ mStack' = Front(mStack)
  /\ UNCHANGED <<mDoc, mMatch, mPhase, mFound>>

Close ==
  /\ mPhase = "close" /\ Len(mStack) = mMatch
  /\ mPhase' = "nodes" /\ mPos' = mElem[mPos].parent /\ mStack' = Front(mStack)
  /\ UNCHANGED <<mDoc, mElem, mMatch, mFound>>

IsWellFormed ==
  /\ "illformed" \notin mElem[0].flags
  /\ mElem[0].child # 0
  /\ mElem[mElem[0].child].next = 0

\* Find_packages_inXML: Load, and FindElem and IntoElem on the root.
Loaded ==
  /\ mPhase = "end" /\ mStack = <<>>
  /\ mPhase' = IF IsWellFormed THEN "find" ELSE "over"
  /\ mPos' = 0
  /\ UNCHANGED <<mDoc, mElem, mStack, mMatch, mFound>>

\* Mutant: FindElem begins behind the first child.
NextElemLate == IF mPos = 0 THEN mElem[mElem[mElem[0].child].child].next ELSE mElem[mPos].next

\* x_FindElem, one candidate after the other.
NextElem == IF mPos = 0 THEN mElem[mElem[0].child].child ELSE mElem[mPos].next

FindElem ==
  /\ mPhase = "find"
  /\ mPos' = NextElem
  /\ LET n == mDoc[mElem[NextElem].start]
     IN  mFound' = (NextElem # 0 /\ n.tag = "package" /\ n.pkg = MWanted)
  /\ mPhase' = IF mFound' \/ NextElem = 0 THEN "over" ELSE "find"
  /\ UNCHANGED <<mDoc, mElem, mStack, mMatch>>

MNext == ParseElem \/ EndOfDocument \/ Unend \/ Close \/ Loaded \/ FindElem

MSpec == MInit /\ [][MNext]_mVars

(* What the document says, told from its nodes alone. *)

Elems == {k \in DOMAIN mDoc : mDoc[k].kind \in {"start", "empty"}}
Depth(k) == Cardinality({j \in 1 .. k : mDoc[j].kind = "start"})
            - Cardinality({j \in 1 .. k : mDoc[j].kind = "end"})
LastOf(S) == CHOOSE k \in S : \A l \in S : l <= k

\* The start tag that an element or an end tag at k lies in; 0 if none.
Enclosing(k) ==
  LET S == {j \in 1 .. k - 1 : mDoc[j].kind = "start" /\ Depth(j) = Depth(k - 1)}
  IN  IF Depth(k - 1) = 0 THEN 0 ELSE LastOf(S)

WellFormed ==
  /\ \A k \in DOMAIN mDoc :
       /\ mDoc[k].kind # "bad" /\ Depth(k) >= 0
       /\ mDoc[k].kind = "end" => mDoc[Enclosing(k)].tag = mDoc[k].tag
  /\ Depth(Len(mDoc)) = 0
  /\ Cardinality({k \in Elems : Depth(k - 1) = 0}) = 1

Parsed == mPhase \in {"find", "over"}

(***************************************************************************)
(* In a well-formed document every element has the parent it lies in, its  *)
(* children are linked in the order of the text, both ways and round, and  *)
(* it reaches up to its end tag.                                           *)
(***************************************************************************)
TreeRight ==
  Parsed /\ WellFormed =>
    \A n \in DOMAIN mElem \ {0} :
      LET up   == Enclosing(mElem[n].start)
          sibs == Kids(mElem, mElem[n].parent)
          at   == {i \in DOMAIN sibs : sibs[i] = n}
          ends == {k \in DOMAIN mDoc : mDoc[k].kind = "end"
                                       /\ Enclosing(k) = mElem[n].start}
      IN  /\ mElem[mElem[n].parent].start = up
          /\ {mElem[m].start : m \in ToSet(sibs)} = {k \in Elems : Enclosing(k) = up}
          /\ \A i \in at : mElem[n].prev = IF i = 1 THEN Last(sibs) ELSE sibs[i - 1]
          /\ mElem[n].start + mElem[n].length - 1 =
               IF ends = {} THEN mElem[n].start ELSE LastOf(ends)

(***************************************************************************)
(* However broken the document is, no element of it is lost and none is    *)
(* found twice: each is on the chain of its parent's children once, in the *)
(* order of the text, and the text of an element lies within its parent's. *)
(***************************************************************************)
NoElementLost ==
  Parsed =>
    /\ Cardinality(DOMAIN mElem) = Cardinality(Elems) + 1
    /\ \A n \in DOMAIN mElem :
         LET kids == Kids(mElem, n)
         IN  /\ ToSet(kids) = {m \in DOMAIN mElem \ {0} : mElem[m].parent = n}
             /\ \A i, j \in DOMAIN kids :
                  i < j => mElem[kids[i]].start < mElem[kids[j]].start
             /\ n # 0 => \A i \in DOMAIN kids :
                  LET k == mElem[kids[i]]
                  IN  k.start + k.length <= mElem[n].start + mElem[n].length

(***************************************************************************)
(* The parser accepts just the documents that are well-formed: the nodes   *)
(* nest, every end tag has the name of its start tag, there is one root.   *)
(* The package is reported as installed just if the document is one and a  *)
(* package element right under the root names it.                          *)
(***************************************************************************)
LookupRight ==
  /\ Parsed => (IsWellFormed <=> WellFormed)
  /\ mPhase = "over" =>
       (mFound <=> WellFormed /\ \E k \in Elems : Depth(k - 1) = 1 /\ mDoc[k].tag = "package"
                                                /\ mDoc[k].pkg = MWanted)
=============================================================================
