------------------------------ MODULE TokenPos ------------------------------
(***************************************************************************)
(* TokenPos of Markup.cpp: ParseNode cuts a text into nodes, character by  *)
(* character, and FindAttrib finds an attribute in a start tag by scanning *)
(* the tag again with rules of its own.                                    *)
(*                                                                         *)
(* "x", "y" stand for letters, "D", "E", "C" for those of DOCTYPE, ELEMENT *)
(* and CDATA, "q" for the double quote, "_" for white space.               *)
(***************************************************************************)
EXTENDS Integers, Sequences, FiniteSets, SequencesExt

CONSTANTS
  TPieces,     \* nodes as they should be: records of type, text, empty, attribs
  TMaxPieces,  \* bound: pieces of a text
  TChars,      \* characters of the texts without structure
  TMaxChars    \* bound: their length

Character == STRING

ASSUME TokenAssumption ==
  /\ TMaxPieces \in Nat /\ TMaxChars \in Nat
  /\ TChars \subseteq Character /\ \A p \in TPieces : p.text \in Seq(Character)

VARIABLES
  tPieces,     \* the pieces of the text, <<>> for a text without structure
  tText,
  tD,          \* pD
  tN,          \* the other variables of ParseNode
  tNodes,      \* the nodes found
  tA,          \* the variables of FindAttrib
  tPhase

tVars == <<tPieces, tText, tD, tN, tNodes, tA, tPhase>>

NodeAt(p) == [start |-> p, type |-> "bad", end |-> <<>>, flags |-> {}, name |-> 0,
              minus1 |-> "0", minus2 |-> "0", empty |-> FALSE]

NoAttrib == [node |-> 0, nth |-> 0, next |-> 0, count |-> -1, name |-> <<>>,
             found |-> <<>>, equal |-> FALSE, value |-> <<>>, reach |-> 0]

\* The text of the first pieces.
Written(pieces) ==
  LET f[k \in 0 .. Len(pieces)] == IF k = 0 THEN <<>> ELSE f[k - 1] \o pieces[k].text
  IN  f

TInit ==
  /\ \/ /\ tPieces \in BoundedSeq(TPieces, TMaxPieces)
        /\ tText = Written(tPieces)[Len(tPieces)]
     \/ tPieces = <<>> /\ tText \in BoundedSeq(TChars, TMaxChars)
  /\ tD = 1 /\ tN = NodeAt(1) /\ tNodes = <<>> /\ tA = NoAttrib /\ tPhase = "nodes"

(* Classes of characters. *)

Space == {"_"}
EndName == Space \cup {"/", ">"}
EndAttribName == Space \cup {"=", ">", "/", "?"}
EndUnquoted == Space \cup {">"}
Letters == {"x", "y", "D", "E", "C"}

(* ParseNode *)

Char == tText[tD]
Reading == tPhase = "nodes" /\ tD <= Len(tText)

Go(n) == tN' = n /\ tD' = tD + 1 /\ UNCHANGED <<tPieces, tText, tNodes, tA, tPhase>>

\* The node ends before position p.
Finish(n, p) ==
  /\ tNodes' = Append(tNodes, [type |-> n.type, from |-> n.start, to |-> p - 1,
                               empty |-> n.empty])
  /\ tN' = NodeAt(p) /\ tD' = p
  /\ UNCHANGED <<tPieces, tText, tA, tPhase>>

Has(f) == f \in tN.flags
Toggle(S, f) == IF f \in S THEN S \ {f} ELSE S \cup {f}

\* FINDNODETYPE, FINDNODETYPENAME, FINDNODEBAD.
FindType(n, end, type) == [n EXCEPT !.end = end, !.type = type]
FindName(n, end, type, at) == [FindType(n, end, type) EXCEPT !.name = at]
FindBad(n) == FindType(n, <<">">>, "bad")

EndOfText ==
  /\ tPhase = "nodes" /\ tD > Len(tText)
  /\ IF tN.start = tD
     THEN /\ tPhase' = "attrib"
          /\ UNCHANGED <<tPieces, tText, tD, tN, tNodes, tA>>
     ELSE Finish([tN EXCEPT !.type = IF @ \in {"white", "text"} THEN @ ELSE "bad"], tD)

Naming == tN.name # 0

InName ==
  /\ Reading /\ Naming
  /\ IF Char \in EndName
     THEN /\ tN' = [tN EXCEPT !.name = 0, !.minus1 = "0", !.minus2 = "0"]
          /\ UNCHANGED <<tPieces, tText, tD, tNodes, tA, tPhase>>
     ELSE Go(tN)

Ending == Reading /\ ~Naming /\ tN.end # <<>>
Quoted == Has("inS") \/ Has("inD")

\* Mutant: a '>' between quotes ends the tag.
ClosesAnyQuote == Char = ">"

Closes == Char = ">" /\ ~Quoted

\* The characters before '>' are those of the end looked for; the comparison
\* is left out at the very start of the text.
Ends ==
  LET k == Len(tN.end) - 1
  IN  k = 0 \/ (tD - 1 > k + 1 /\ SubSeq(tText, tD - k, tD - 1) = SubSeq(tN.end, 1, k))

\* The '/' before '>' belongs to an unquoted value.
SlashOfValue == Has("noquote") /\ tN.minus2 \notin Space \cup {"0", "q", "'"}

TagEnd ==
  /\ Ending /\ Closes
  /\ LET empty == tN.type = "element" /\ tN.minus1 = "/" /\ ~SlashOfValue
         n == [tN EXCEPT !.flags = @ \ {"noquote"},
                         !.end = IF Ends THEN <<>> ELSE @,
                         !.empty = @ \/ (Len(tN.end) = 1 /\ empty)]
     IN  IF Ends /\ ~Has("doctype") THEN Finish(n, tD + 1) ELSE Go(n)

\* A '<' ends a text and a bad node.
TextEnd ==
  /\ Ending /\ ~Closes /\ Char = "<" /\ tN.type \in {"text", "bad"}
  /\ Finish(tN, tD)

\* Quotes count behind '=' only; without a quote the value goes up to a space.
QuoteFlags ==
  LET F == tN.flags
  IN  IF Quoted \/ Has("noquote")
      THEN CASE Char = "q" /\ Has("inD") -> F \ {"inD"}
             [] Char = "'" /\ Has("inS") -> F \ {"inS"}
             [] Has("noquote") /\ Char \in Space -> F \ {"noquote"}
             [] OTHER -> F
      ELSE CASE Char = "q" /\ Has("equals") -> (F \ {"equals"}) \cup {"inD"}
             [] Char = "'" /\ Has("equals") -> (F \ {"equals"}) \cup {"inS"}
             [] Char = "=" /\ tN.minus1 # "=" /\ ~Has("equals") -> F \cup {"equals"}
             [] Has("equals") /\ Char \notin Space \cup {"q", "'"} -> (F \ {"equals"}) \cup {"noquote"}
             [] OTHER -> F

InTag ==
  /\ Ending /\ ~Closes /\ ~(Char = "<" /\ tN.type \in {"text", "bad"})
  /\ CASE tN.type \in {"element", "bad"} ->
            Go([tN EXCEPT !.flags = QuoteFlags, !.minus2 = tN.minus1, !.minus1 = Char])
       [] tN.type = "doctype" /\ Char = "q" /\ ~Has("inS") ->
            Go([tN EXCEPT !.flags = Toggle(@, "inD")])
       [] tN.type = "doctype" /\ Char = "'" /\ ~Has("inD") ->
            Go([tN EXCEPT !.flags = Toggle(@, "inS")])
       [] OTHER -> Go(tN)

Starting == Reading /\ ~Naming /\ tN.end = <<>>

\* What a node is, by its first characters.
TextOrSpace ==
  /\ Starting /\ Has("textorws")
  /\ CASE Char = "<" -> Finish([tN EXCEPT !.type = "white"], tD)
       [] Char \in Space -> Go(tN)
       [] OTHER -> Go(FindType([tN EXCEPT !.flags = @ \ {"textorws"}], <<"<">>, "text"))

OpenTag ==
  /\ Starting /\ ~Has("textorws") /\ Has("open")
  /\ LET n == [tN EXCEPT !.flags = @ \ {"open"}]
     IN  Go(CASE Char \in Letters -> FindName(n, <<">">>, "element", tD)
              [] Char = "/" -> FindName(n, <<">">>, "end", tD + 1)
              [] Char = "!" -> [n EXCEPT !.flags = @ \cup {"bang"}]
              [] Char = "?" -> FindName(n, <<"?", ">">>, "pi", tD + 1)
              [] OTHER -> FindBad(n))

Bang ==
  /\ Starting /\ ~Has("textorws") /\ ~Has("open") /\ Has("bang")
  /\ LET n == [tN EXCEPT !.flags = @ \ {"bang"}]
         with(f) == [n EXCEPT !.flags = @ \cup {f}]
     IN  Go(CASE Char = "-" -> with("dash")
              [] Char = "E" /\ Has("doctype") -> FindType(n, <<">">>, "doctype")
              [] Char = "[" /\ ~Has("doctype") -> with("bracket")
              [] Char = "D" /\ ~Has("doctype") -> with("doctype")
              [] OTHER -> FindBad(n))

DashOrBracket ==
  /\ Starting /\ tN.flags \cap {"textorws", "open", "bang"} = {}
  /\ \/ Has("dash") /\ LET n == [tN EXCEPT !.flags = @ \ {"dash"}]
                       IN  Go(IF Char = "-" THEN FindType(n, <<"-", "-", ">">>, "comment")
                              ELSE FindBad(n))
     \/ ~Has("dash") /\ Has("bracket")
        /\ LET n == [tN EXCEPT !.flags = @ \ {"bracket"}]
           IN  Go(IF Char = "C" THEN FindType(n, <<"]", "]", ">">>, "cdata") ELSE FindBad(n))

Doctype ==
  /\ Starting /\ Has("doctype")
  /\ tN.flags \cap {"textorws", "open", "bang", "dash", "bracket"} = {}
  /\ CASE Char = "<" -> Go([tN EXCEPT !.flags = @ \cup {"open"}])
       [] Char = ">" -> Finish([tN EXCEPT !.type = "doctype"], tD + 1)
       [] OTHER -> Go(tN)

First ==
  /\ Starting /\ tN.flags = {}
  /\ Go(CASE Char = "<" -> [tN EXCEPT !.flags = {"open"}]
          [] Char \in Space -> [tN EXCEPT !.flags = {"textorws"}, !.type = "white"]
          [] OTHER -> FindType(tN, <<"<">>, "text"))

(* FindAttrib: GetAttribName(nth) on the start tag of a node, and GetAttrib of
   the name found. *)

\* The first position from p on whose character is in S; behind the text if none.
NextIn(p, S) ==
  LET hits == {k \in p .. Len(tText) : tText[k] \in S}
  IN  IF hits = {} THEN Len(tText) + 1 ELSE CHOOSE k \in hits : \A h \in hits : k <= h

\* FindAny.
FindAny(p) ==
  LET hits == {k \in p .. Len(tText) : tText[k] \notin Space}
  IN  IF hits = {} THEN Len(tText) + 1 ELSE CHOOSE k \in hits : \A h \in hits : k <= h

\* Mutant: a quoted value ends at either quote.
TokenAnyQuote(p, equal) ==
  IF p > Len(tText) THEN [text |-> <<>>, next |-> p, quoted |-> FALSE]
  ELSE IF tText[p] \in {"q", "'"}
  THEN LET q == NextIn(p + 1, {"q", "'"})
       IN  [text |-> SubSeq(tText, p + 1, q - 1),
            next |-> IF q <= Len(tText) THEN q + 1 ELSE q, quoted |-> TRUE]
  ELSE LET e == NextIn(p, IF equal THEN EndUnquoted ELSE EndAttribName)
           next == IF e = p THEN p + 1 ELSE e
       IN  [text |-> SubSeq(tText, p, next - 1), next |-> next, quoted |-> FALSE]

\* The token at p: its text, where the next one starts, and whether it was
\* quoted.
Token(p, equal) ==
  IF p > Len(tText) THEN [text |-> <<>>, next |-> p, quoted |-> FALSE]
  ELSE IF tText[p] \in {"q", "'"}
  THEN LET q == NextIn(p + 1, {tText[p]})
       IN  [text |-> SubSeq(tText, p + 1, q - 1),
            next |-> IF q <= Len(tText) THEN q + 1 ELSE q, quoted |-> TRUE]
  ELSE LET e == NextIn(p, IF equal THEN EndUnquoted ELSE EndAttribName)
           next == IF e = p THEN p + 1 ELSE e
       IN  [text |-> SubSeq(tText, p, next - 1), next |-> next, quoted |-> FALSE]

GetAttribName ==
  /\ tPhase = "attrib" /\ tPhase' = "name"
  /\ \E k \in DOMAIN tNodes, n \in 0 .. 1 :
       /\ tNodes[k].type = "element"
       /\ tA' = [NoAttrib EXCEPT !.node = k, !.nth = n, !.next = tNodes[k].from + 1]
  /\ UNCHANGED <<tPieces, tText, tD, tN, tNodes>>

\* One round of the loop in FindAttrib, by number or by name.
FindAttrib ==
  /\ tPhase \in {"name", "value"}
  /\ LET p == FindAny(tA.next)
         t == Token(p, tA.equal)
         over == p > Len(tText)
         plain == ~tA.equal /\ ~t.quoted
         a == [tA EXCEPT !.next = t.next, !.equal = FALSE,
                         !.reach = IF t.next - 1 > @ THEN t.next - 1 ELSE @]
         more(b) == tA' = b /\ UNCHANGED tPhase
         \* When an attribute has no value the value is its name.
         leave == IF tA.found = <<>> THEN tA' = a /\ tPhase' = "none"
                  ELSE tA' = [a EXCEPT !.value = IF tA.equal THEN t.text ELSE tA.found]
                       /\ tPhase' = "got"
     IN  CASE over -> leave
           [] ~over /\ plain /\ t.text = <<"=">> -> more([a EXCEPT !.equal = TRUE])
           [] ~over /\ plain /\ t.text[1] \in {">", "/", "?"} -> leave
           [] ~over /\ plain /\ t.text # <<"=">> /\ t.text[1] \notin {">", "/", "?"} ->
                IF tA.found # <<>> THEN leave
                ELSE IF tPhase = "name" /\ tA.count = tA.nth
                THEN /\ tPhase' = "value"
                     /\ tA' = [a EXCEPT !.name = t.text, !.count = -1,
                                        !.next = tNodes[tA.node].from + 1]
                ELSE more([a EXCEPT !.count = @ + 1,
                                    !.found = IF tPhase = "value" /\ tA.count # -1
                                                 /\ t.text = tA.name
                                              THEN t.text ELSE <<>>])
           [] ~over /\ ~plain -> IF tA.found # <<>> THEN leave ELSE more(a)
  /\ UNCHANGED <<tPieces, tText, tD, tN, tNodes>>

TNext ==
  \/ EndOfText \/ InName \/ TagEnd \/ TextEnd \/ InTag
  \/ TextOrSpace \/ OpenTag \/ Bang \/ DashOrBracket \/ Doctype \/ First
  \/ GetAttribName \/ FindAttrib

TSpec == TInit /\ [][TNext]_tVars

NodesDone == tPhase # "nodes"

\* Whatever the text, the nodes cover it one after the other: none is empty, so
\* that the parser comes to an end, and nothing is left out.
Covered ==
  /\ \A k \in DOMAIN tNodes :
       /\ tNodes[k].to >= tNodes[k].from
       /\ tNodes[k].from = IF k = 1 THEN 1 ELSE tNodes[k - 1].to + 1
  /\ NodesDone => IF tNodes = <<>> THEN tText = <<>> ELSE Last(tNodes).to = Len(tText)

(***************************************************************************)
(* The nodes cover every text.  A text made of proper tags, comments,      *)
(* instructions, CDATA sections and document types is cut into just these, *)
(* each of its type, and the start tags without content are told from the  *)
(* others: a '>' or '/' in a quoted value, or a '<' in a comment, does not *)
(* matter.                                                                 *)
(***************************************************************************)
PiecesFound ==
  /\ Covered
  /\ tPieces # <<>> /\ NodesDone =>
       /\ Len(tNodes) = Len(tPieces)
       /\ \A k \in DOMAIN tPieces :
            /\ tNodes[k].type = tPieces[k].type
            /\ SubSeq(tText, tNodes[k].from, tNodes[k].to) = tPieces[k].text
            /\ tNodes[k].empty = tPieces[k].empty

(***************************************************************************)
(* In a proper start tag the attribute of each number is found by its      *)
(* name, its value is the one written first for that name, and the search  *)
(* stays within the tag.                                                   *)
(***************************************************************************)
AttribRight ==
  tPieces # <<>> /\ tA.node # 0 =>
    LET attribs == tPieces[tA.node].attribs
        same == {i \in DOMAIN attribs : attribs[i].name = tA.name}
    IN  /\ tA.reach <= tNodes[tA.node].to
        /\ tPhase \in {"value", "got"} =>
             tA.nth < Len(attribs) /\ tA.name = attribs[tA.nth + 1].name
        /\ tPhase = "got" =>
             tA.value = attribs[CHOOSE i \in same : \A j \in same : i <= j].value
        /\ tPhase = "none" => tA.nth >= Len(attribs)
=============================================================================
