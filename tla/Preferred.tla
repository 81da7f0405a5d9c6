------------------------------ MODULE Preferred ------------------------------
(***************************************************************************)
(* Fixed_preferred_Item makes the picture viewer and the launcher the      *)
(* preferred applications in packages.xml: it walks over the items under   *)
(* preferred-activities, renames those for MAIN and VIEW, adds an item for *)
(* VIEW if there is none, and saves the file.                              *)
(*                                                                         *)
(* CMarkup edits the text in place and shifts the positions of all         *)
(* elements behind the edit (x_Adjust), so that its tree must go on        *)
(* agreeing with the text.  A text is a sequence of tokens; every name and *)
(* every end of line counts as one.                                        *)
(***************************************************************************)
EXTENDS Integers, Sequences, FiniteSets, SequencesExt

CONSTANT PfDocs   \* the files tried

VARIABLES
  pfDoc,      \* m_strDoc
  pfElem,     \* ELEM(0), the virtual parent, and the elements
  pfParent,   \* m_iPosParent
  pfPos,      \* m_iPos; m_iPosChild is always 0 here
  pfSaved,    \* the position saved as "item_in_preferred", 0 if none
  pfFound,    \* intent_find2
  pfPc,       \* the next call
  pfCall,     \* the next call that adds the item
  pfStart,    \* the file before this run
  pfRun       \* the function is run twice

pfVars == <<pfDoc, pfElem, pfParent, pfPos, pfSaved, pfFound, pfPc, pfCall, pfStart, pfRun>>

Launcher == <<"launcher7">>           \* info.tikusoft.launcher7/.MainScreen
Viewer   == <<"alensw", "PicFolder">> \* com.alensw.PicFolder/.PictureActivity

-----------------------------------------------------------------------------
(* The tree of a text, as the parser makes it (see module Markup). *)

Starts(doc) == {p \in DOMAIN doc : doc[p] = "<"}
TagClose(doc, p) == CHOOSE q \in p .. Len(doc) :
                    doc[q] = ">" /\ \A r \in p .. q - 1 : doc[r] # ">"
Closing(doc, p) == doc[p + 1] = "/"
SelfEnding(doc, p) == doc[TagClose(doc, p) - 1] = "/"
Opening(doc) == {p \in Starts(doc) : ~Closing(doc, p)}

Greatest(S) == CHOOSE p \in S \cup {0} : \A q \in S : q <= p
Least(S) == IF S = {} THEN 0 ELSE CHOOSE p \in S : \A q \in S : p <= q

\* How many elements are open before each position; ds is for those up to p.
RECURSIVE DepthsFrom(_, _, _)
DepthsFrom(doc, p, ds) ==
  IF p = Len(doc) THEN ds
  ELSE DepthsFrom(doc, p + 1,
         Append(ds, IF doc[p] # "<" THEN ds[p]
                    ELSE IF Closing(doc, p) THEN ds[p] - 1
                    ELSE IF SelfEnding(doc, p) THEN ds[p] ELSE ds[p] + 1))

Depths(doc) == DepthsFrom(doc, 1, <<0>>)

\* Of the openings S, with depths d: the element around p; p and its siblings;
\* its first child.
Around(S, d, p)   == Greatest({o \in S : o < p /\ d[o] < d[p]})
Siblings(S, d, p) ==
  LET up == Around(S, d, p)
      to == Least({o \in S : o > p /\ d[o] < d[p]})
  IN  {q \in S : q > up /\ (to # 0 => q < to) /\ d[q] = d[p]}
Child(S, d, p) ==
  LET q == Least({o \in S : o > p}) IN IF q # 0 /\ d[q] > d[p] THEN q ELSE 0

\* What the text says of its elements.
Readings(doc) ==
  LET S    == Opening(doc)
      d    == Depths(doc)
      Close(p) == Least({q \in Starts(doc) : q > p /\ Closing(doc, q) /\ d[q] = d[p] + 1})
      Of(p) ==
        LET sibs   == Siblings(S, d, p)
            before == {q \in sibs : q < p}
            stop   == TagClose(doc, IF SelfEnding(doc, p) THEN p ELSE Close(p))
        IN  [ start  |-> p,
              tag    |-> TagClose(doc, p) - p + 1,
              end    |-> IF SelfEnding(doc, p) THEN 0 ELSE stop - Close(p) + 1,
              len    |-> stop - p + 1,
              parent |-> Around(S, d, p),
              child  |-> Child(S, d, p),
              next   |-> Least({q \in sibs : q > p}),
              prev   |-> Greatest(IF before = {} THEN sibs ELSE before) ]
  IN  {Of(p) : p \in S}

\* x_ParseDoc: the elements are numbered in the order of the text.
Parse(doc) ==
  LET S        == Opening(doc)
      readings == Readings(doc)
      Index(p) == Cardinality({q \in S : q <= p})
      Element(n) ==
        LET r == CHOOSE r \in readings : Index(r.start) = n
        IN  [r EXCEPT !.parent = Index(@), !.child = Index(@),
                      !.next = Index(@), !.prev = Index(@)]
      Root == [start |-> 0, tag |-> 0, end |-> 0, len |-> Len(doc), parent |-> 0,
               child |-> 1, next |-> 0, prev |-> 0]
  IN  [n \in 0 .. Cardinality(S) |-> IF n = 0 THEN Root ELSE Element(n)]

-----------------------------------------------------------------------------
(* Moving about *)

NameOf(n) == pfDoc[pfElem[n].start + 1]

RECURSIVE NextNamed(_, _)
NextNamed(n, name) == IF n = 0 \/ NameOf(n) = name THEN n ELSE NextNamed(pfElem[n].next, name)

\* x_FindElem: the next sibling of pos, or the first child of parent.
FindNext(parent, pos, name) ==
  NextNamed(IF pos # 0 THEN pfElem[pos].next ELSE pfElem[parent].child, name)

At(parent, pos) == pfParent' = parent /\ pfPos' = pos

\* IntoElem, at element n.
IntoElem(n) == At(n, 0)

\* Mutant: the saved position is only used while the item is looked into.
RestoredStay == <<pfParent, pfPos>>

\* SavePos: one name is used, and the position is at an element.
SavePos(n) == pfSaved' = n

\* RestorePos does nothing if nothing was saved.
Restored ==
  IF pfSaved = 0 THEN <<pfParent, pfPos>> ELSE <<pfElem[pfSaved].parent, pfSaved>>

\* FindAttrib: where the names of the attributes stand in the tag at s.
AttribNames(doc, s) ==
  {p \in s + 2 .. TagClose(doc, s) : doc[p - 1] = " " /\ doc[p + 1] = "="}

\* The value of the attribute whose name is at p: name = q value q.
ValueAt(doc, p) ==
  SubSeq(doc, p + 3, Least({q \in DOMAIN doc : q > p + 2 /\ doc[q] = "q"}) - 1)

\* GetAttribName(0), and GetAttrib of it.
FirstAttrib(n) ==
  LET names == AttribNames(pfDoc, pfElem[n].start)
  IN  IF names = {} THEN [name |-> "", value |-> <<>>]
      ELSE [name |-> pfDoc[Least(names)], value |-> ValueAt(pfDoc, Least(names))]

-----------------------------------------------------------------------------
(* Editing: each yields the new text and the new tree. *)

\* Mutant: going up, elements behind the parent are passed over.
ClimbPast(e, n, top) == top

\* x_Adjust: the next sibling of an ancestor below top.
RECURSIVE Climb(_, _, _)
Climb(e, n, top) ==
  LET p == e[n].parent
  IN  IF p = top THEN top ELSE IF e[p].next # 0 THEN e[p].next ELSE Climb(e, p, top)

\* One round of x_Adjust: starts shift by d on the way, lengths at the top.
Round(s, d) ==
  LET e     == s.elem
      n     == s.pos
      atTop == n = s.top
      top   == IF atTop THEN e[n].parent ELSE s.top
      to    == IF ~atTop /\ e[n].child # 0 THEN e[n].child
               ELSE IF e[n].next # 0 THEN e[n].next ELSE Climb(e, n, top)
  IN  IF e[n].tag = 0 THEN s
      ELSE [pos |-> to, top |-> top,
            elem |-> IF to # top THEN [e EXCEPT ![to].start = @ + d]
                     ELSE [e EXCEPT ![to].len = @ + d]]

Adjust(e, n, d) ==
  FoldLeft(LAMBDA s, i : Round(s, d), [pos |-> n, top |-> e[n].parent, elem |-> e],
           [i \in 1 .. 2 * Cardinality(DOMAIN e) |-> i]).elem

\* x_StrInsertReplace.
Splice(at, replace, text) ==
  SubSeq(pfDoc, 1, at - 1) \o text \o SubSeq(pfDoc, at + replace, Len(pfDoc))

InQuotes(value) == <<"q">> \o value \o <<"q">>

\* x_SetAttrib.
SetAttrib(n, name, value) ==
  LET s       == pfElem[n].start
      p       == Least({a \in AttribNames(pfDoc, s) : pfDoc[a] = name})
      last    == Greatest({q \in s .. TagClose(pfDoc, s) - 1 : pfDoc[q] \notin {" ", "/"}})
      at      == IF p # 0 THEN p + 2 ELSE last + 1
      replace == IF p # 0 THEN Len(ValueAt(pfDoc, p)) + 2 ELSE 0
      text    == IF p # 0 THEN InQuotes(value) ELSE <<" ", name, "=">> \o InQuotes(value)
      d       == Len(text) - replace
  IN  [doc  |-> Splice(at, replace, text),
       elem |-> Adjust([pfElem EXCEPT ![n].tag = @ + d, ![n].len = @ + d], n, d)]

\* x_LinkElem: behind sibling b, or as the first child.
Link(e, parent, b, new, rec) ==
  LET next  == IF b # 0 THEN e[b].next ELSE 0
      first == e[parent].child
      all   == (new :> [rec EXCEPT !.parent = parent, !.next = next,
                                   !.prev = IF b # 0 THEN b ELSE new]) @@ e
  IN  IF b = 0 THEN [all EXCEPT ![parent].child = new]
      ELSE IF next # 0 THEN [all EXCEPT ![b].next = new, ![next].prev = new]
      ELSE [[all EXCEPT ![b].next = new] EXCEPT ![first].prev = new]

\* WhitespaceToTag.
ToTag(p) ==
  LET q == Least({r \in p .. Len(pfDoc) : pfDoc[r] \notin {" ", "EOL"}})
  IN  IF q = 0 THEN Len(pfDoc) + 1 ELSE IF pfDoc[q] = "<" THEN q ELSE p

\* x_InsertNew: where an element goes that comes behind the current one or at
\* the end of the parent, and which text, if it is told by meta; an empty
\* parent is split into two tags.
InsertNew(meta) ==
  LET up    == pfElem[pfParent]
      split == up.tag = up.len
      bare  == up.len = up.tag + up.end
      place == IF pfPos # 0 THEN ToTag(pfElem[pfPos].start + pfElem[pfPos].len)
               ELSE IF split THEN up.start + up.tag - 1
               ELSE ToTag(up.start + up.len - up.end)
  IN  [split |-> split,
       start |-> IF bare THEN place + 1 ELSE place,
       at    |-> IF split THEN up.start + up.len - 2
                 ELSE IF bare THEN up.start + up.tag ELSE place,
       text  |-> IF split THEN <<">", "EOL">> \o meta \o <<"<", "/", NameOf(pfParent)>>
                 ELSE IF bare THEN <<"EOL">> \o meta ELSE meta]

\* x_AddElem, for an empty element.
AddElem(name) ==
  LET in     == InsertNew(<<"<", name, "/", ">", "EOL">>)
      first  == pfElem[pfParent].child
      b      == IF pfPos = 0 /\ first # 0 THEN pfElem[first].prev ELSE pfPos
      parted == IF in.split
                THEN [pfElem EXCEPT ![pfParent].tag = @ - 1, ![pfParent].end = 4]
                ELSE pfElem
      new    == Cardinality(DOMAIN pfElem)
      rec    == [start |-> in.start, len |-> 4, tag |-> 4, end |-> 0, child |-> 0,
                 parent |-> 0, next |-> 0, prev |-> 0]
      cut    == IF in.split THEN 1 ELSE 0
  IN  [doc  |-> Splice(in.at, cut, in.text),
       elem |-> Adjust(Link(parted, pfParent, b, new, rec), new, Len(in.text) - cut)]

Edited(r) == pfDoc' = r.doc /\ pfElem' = r.elem
Unedited  == UNCHANGED <<pfDoc, pfElem>>

-----------------------------------------------------------------------------
(* Fixed_preferred_Item *)

PfInit ==
  /\ pfDoc \in PfDocs /\ pfStart = pfDoc
  /\ pfElem = <<>> /\ pfParent = 0 /\ pfPos = 0 /\ pfSaved = 0 /\ pfFound = FALSE
  /\ pfPc = "load" /\ pfCall = 1 /\ pfRun = 1

\* Load, which fails just if the file is not well-formed: then it is left as it
\* is, and such files are not tried.  FindElem and IntoElem on the root.
LoadFile ==
  /\ pfPc = "load" /\ pfPc' = "into"
  /\ pfElem' = Parse(pfDoc) /\ At(1, 0)
  /\ pfSaved' = 0 /\ pfFound' = FALSE /\ pfCall' = 1 /\ pfStart' = pfDoc
  /\ UNCHANGED <<pfDoc, pfRun>>

\* Without preferred-activities IntoElem fails, and the walk is over the
\* children of the root.
IntoPreferred ==
  /\ pfPc = "into" /\ pfPc' = "items"
  /\ LET p == FindNext(pfParent, pfPos, "preferred")
     IN  IF p # 0 THEN IntoElem(p) ELSE UNCHANGED <<pfParent, pfPos>>
  /\ Unedited /\ UNCHANGED <<pfSaved, pfFound, pfCall, pfStart, pfRun>>

\* The next item is saved, and entered as far as filter and action are there.
NextItem ==
  /\ pfPc = "items"
  /\ LET item   == FindNext(pfParent, pfPos, "item")
         filter == FindNext(item, 0, "filter")
         action == FindNext(filter, 0, "action")
     IN  IF item = 0
         THEN pfPc' = "add" /\ UNCHANGED <<pfParent, pfPos, pfSaved>>
         ELSE /\ SavePos(item)
              /\ IF filter = 0 THEN pfPc' = "add" /\ IntoElem(item)
                 ELSE IF action = 0 THEN pfPc' = "add" /\ IntoElem(filter)
                 ELSE pfPc' = "look" /\ At(filter, action)
  /\ Unedited /\ UNCHANGED <<pfFound, pfCall, pfStart, pfRun>>

Mentions(intent) == intent \in ToSet(FirstAttrib(pfPos).value)

\* Back at the item; its first attribute is set if it is the name.
Rename(to) ==
  /\ At(Restored[1], Restored[2])
  /\ LET n == Restored[2]
     IN  IF FirstAttrib(n).name = "name" THEN Edited(SetAttrib(n, "name", to)) ELSE Unedited

FixMain ==
  /\ pfPc = "look" /\ pfPc' = "items" /\ Mentions("MAIN")
  /\ Rename(Launcher)
  /\ UNCHANGED <<pfSaved, pfFound, pfCall, pfStart, pfRun>>

FixView ==
  /\ pfPc = "look" /\ pfPc' = "items" /\ ~Mentions("MAIN") /\ Mentions("VIEW")
  /\ Rename(Viewer)
  /\ pfFound' = TRUE
  /\ UNCHANGED <<pfSaved, pfCall, pfStart, pfRun>>

\* Neither: the position stays inside the filter, where the loop finds no item.
OtherIntent ==
  /\ pfPc = "look" /\ pfPc' = "items" /\ ~Mentions("MAIN") /\ ~Mentions("VIEW")
  /\ Unedited
  /\ UNCHANGED <<pfParent, pfPos, pfSaved, pfFound, pfCall, pfStart, pfRun>>

Decide ==
  /\ pfPc = "add"
  /\ IF pfFound THEN pfPc' = "save" /\ UNCHANGED <<pfParent, pfPos>>
     ELSE pfPc' = "calls" /\ At(Restored[1], Restored[2])
  /\ Unedited /\ UNCHANGED <<pfSaved, pfFound, pfCall, pfStart, pfRun>>

Elem(name)          == [call |-> "elem", name |-> name, value |-> <<>>]
Attrib(name, value) == [call |-> "attrib", name |-> name, value |-> value]
Into                == [call |-> "into", name |-> "", value |-> <<>>]

Calls ==
  << Elem("item"), Attrib("name", Viewer), Attrib("match", <<"600000">>),
     Attrib("set", <<"1">>), Into,
     Elem("set"), Attrib("name", Viewer), Elem("filter"), Into,
     Elem("action"), Attrib("name", <<"VIEW">>), Elem("cat"), Attrib("name", <<"DEFAULT">>),
     Elem("type"), Attrib("name", <<"image">>) >>

AddItem ==
  /\ pfPc = "calls"
  /\ LET c == Calls[pfCall]
     IN  \/ /\ c.call = "elem" /\ Edited(AddElem(c.name))
            /\ At(pfParent, Cardinality(DOMAIN pfElem))
         \/ /\ c.call = "attrib" /\ Edited(SetAttrib(pfPos, c.name, c.value))
            /\ UNCHANGED <<pfParent, pfPos>>
         \/ c.call = "into" /\ IntoElem(pfPos) /\ Unedited
  /\ pfCall' = pfCall + 1
  /\ pfPc' = IF pfCall = Len(Calls) THEN "save" ELSE "calls"
  /\ UNCHANGED <<pfSaved, pfFound, pfStart, pfRun>>

Save ==
  /\ pfPc = "save" /\ pfPc' = "done"
  /\ Unedited
  /\ UNCHANGED <<pfParent, pfPos, pfSaved, pfFound, pfCall, pfStart, pfRun>>

\* The function is called again on the file it saved.
Again ==
  /\ pfPc = "done" /\ pfRun = 1 /\ pfRun' = 2 /\ pfPc' = "load"
  /\ UNCHANGED <<pfDoc, pfElem, pfParent, pfPos, pfSaved, pfFound, pfCall, pfStart>>

PfNext ==
  \/ LoadFile \/ IntoPreferred \/ NextItem \/ FixMain \/ FixView \/ OtherIntent
  \/ Decide \/ AddItem \/ Save \/ Again

-----------------------------------------------------------------------------
(* What the files say, told from their texts alone. *)

ChildrenNamed(doc, o, name) ==
  LET S == Opening(doc)
      d == Depths(doc)
  IN  {p \in S : doc[p + 1] = name /\ Around(S, d, p) = o}

\* The items the function is about: those of the first preferred-activities,
\* or of the root if there is none.
Holder(doc) == LET S == ChildrenNamed(doc, 1, "preferred") IN IF S = {} THEN 1 ELSE Least(S)
Items(doc) == ChildrenNamed(doc, Holder(doc), "item")

Value1(doc, p) ==
  IF AttribNames(doc, p) = {} THEN <<>> ELSE ValueAt(doc, Least(AttribNames(doc, p)))

\* The intent in the first action of the first filter of an item.
Intent(doc, item) ==
  LET filter == Least(ChildrenNamed(doc, item, "filter"))
      action == IF filter = 0 THEN 0 ELSE Least(ChildrenNamed(doc, filter, "action"))
      value  == IF action = 0 THEN {} ELSE ToSet(Value1(doc, action))
  IN  IF "MAIN" \in value THEN "MAIN" ELSE IF "VIEW" \in value THEN "VIEW" ELSE "other"

TextOrder(doc, S) == SelectSeq([p \in DOMAIN doc |-> p], LAMBDA p : p \in S)

AttribList(doc, p) ==
  LET names == TextOrder(doc, AttribNames(doc, p))
  IN  [i \in DOMAIN names |-> <<doc[names[i]], ValueAt(doc, names[i])>>]

\* The elements in the order of the text, each with its depth and attributes.
Shape(doc) ==
  LET order == TextOrder(doc, Opening(doc))
      d     == Depths(doc)
  IN  [i \in DOMAIN order |->
        [name |-> doc[order[i] + 1], depth |-> d[order[i]],
         attribs |-> AttribList(doc, order[i])]]

\* The same with the items for MAIN and VIEW named as they should be.
Renamed(doc) ==
  LET order == TextOrder(doc, Opening(doc))
      shape == Shape(doc)
      items == Items(doc)
      to    == [MAIN |-> Launcher, VIEW |-> Viewer]
      Due(p) == /\ p \in items /\ Intent(doc, p) # "other"
                /\ AttribList(doc, p) # <<>> /\ AttribList(doc, p)[1][1] = "name"
  IN  [i \in DOMAIN order |->
        IF Due(order[i])
        THEN [shape[i] EXCEPT !.attribs[1] = <<"name", to[Intent(doc, order[i])]>>]
        ELSE shape[i]]

\* The item for VIEW, at depth d.
ViewItem(d) ==
  LET E(name, depth, attribs) == [name |-> name, depth |-> depth, attribs |-> attribs]
  IN  << E("item", d, << <<"name", Viewer>>, <<"match", <<"600000">> >>, <<"set", <<"1">> >> >>),
         E("set", d + 1, << <<"name", Viewer>> >>), E("filter", d + 1, <<>>),
         E("action", d + 2, << <<"name", <<"VIEW">> >> >>),
         E("cat", d + 2, << <<"name", <<"DEFAULT">> >> >>),
         E("type", d + 2, << <<"name", <<"image">> >> >>) >>

(***************************************************************************)
(* After every edit the tree is the one that a parser would make of the    *)
(* new text: each element's start, length and tags, its parent, first      *)
(* child and neighbours, wherever in the document the edit was and whether *)
(* it lengthened, shortened or split a tag.                                *)
(***************************************************************************)
TreeAgrees ==
  pfElem # <<>> =>
    LET Start(n) == pfElem[n].start
        Links(n) == [pfElem[n] EXCEPT !.parent = Start(@), !.child = Start(@),
                                      !.next = Start(@), !.prev = Start(@)]
    IN  /\ {Links(n) : n \in DOMAIN pfElem \ {0}} = Readings(pfDoc)
        /\ Cardinality(DOMAIN pfElem) = Cardinality(Opening(pfDoc)) + 1
        /\ pfElem[0].len = Len(pfDoc)

(***************************************************************************)
(* The file saved differs from the one loaded in the names of the items    *)
(* for MAIN and VIEW and in at most one new item, and in nothing else.  If *)
(* every item is for MAIN or VIEW, all of them have the right names, the   *)
(* item is added just if there was none for VIEW, and a second run changes *)
(* nothing.  (Any other item ends the loop, for the position stays inside  *)
(* its filter: the items behind it are not seen, and another item for VIEW *)
(* is added by every run.)                                                 *)
(***************************************************************************)
FileRight ==
  pfPc = "done" =>
    LET Views(doc) == {p \in Items(doc) : Intent(doc, p) = "VIEW"}
        known == \A p \in Items(pfStart) : Intent(pfStart, p) # "other"
        old   == Renamed(pfStart)
        new   == IF known THEN Shape(pfDoc) ELSE Renamed(pfDoc)
        added == ViewItem(Depths(pfStart)[Holder(pfStart)] + 1)
    IN  /\ \/ new = old
           \/ \E j \in 0 .. Len(old) :
                new = SubSeq(old, 1, j) \o added \o SubSeq(old, j + 1, Len(old))
        /\ known => /\ (new = old) <=> (Views(pfStart) # {})
                    /\ Views(pfDoc) # {}
                    /\ pfRun = 2 => pfDoc = pfStart
=============================================================================
