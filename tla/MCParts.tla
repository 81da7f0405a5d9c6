------------------------------ MODULE MCParts ------------------------------
(* The parts of the program that compute something by themselves, each with
   its own variables.  A behaviour runs one of them; the others stay idle. *)
EXTENDS IndexFile, StudentList, MCClock, Config, InfoZip, Markup, TokenPos,
        Preferred, PicViewer, Personal, TLC

CONSTANTS d1, d2

VARIABLE part

(* Inputs. *)

MCTablet  == "d1"
MCTablets == {MCTablet, "d2"}

MCSids  == {<<"1">>, <<"1", "1">>, <<"2">>}
MCNames == {<<>>, <<"a">>, <<"a", "b">>, <<"a", ".">>}

Named(n, v) == [name |-> n, value |-> v]
Tag(e, attribs, text) ==
  [type |-> "element", text |-> text, empty |-> e, attribs |-> attribs]

Values == {<<>>, <<"x">>, <<"/">>, <<"=", "'">>, <<"_", ">">>, <<"/", ">">>}
Attribs ==
  {<<Named(<<"x">>, v), <<"x", "=", "q">> \o v \o <<"q">> >> : v \in Values}
  \cup {<<Named(<<"y">>, <<"q", "<">>), <<"y", "_", "=", "_", "'", "q", "<", "'">> >>,
        <<Named(<<"y">>, <<"y">>), <<"y">> >>}   \* without a value
TagEnds == {<<FALSE, <<">">> >>, <<TRUE, <<"/", ">">> >>, <<TRUE, <<"_", "/", ">">> >>}

Tags ==
  {Tag(e[1], <<>>, <<"<", "x">> \o e[2]) : e \in TagEnds}
  \cup {Tag(e[1], <<a[1]>>, <<"<", "x", "_">> \o a[2] \o e[2]) : a \in Attribs, e \in TagEnds}
  \cup {Tag(FALSE, <<a[1], b[1]>>, <<"<", "D", "_">> \o a[2] \o <<"_">> \o b[2] \o <<">">>) :
          a \in Attribs, b \in Attribs}
  \cup {Tag(e[1], <<Named(<<"y">>, e[2])>>, <<"<", "x", "_", "y", "=">> \o e[3]) :   \* unquoted
          e \in {<<FALSE, <<"x">>, <<"x", ">">> >>, <<FALSE, <<"x", "/">>, <<"x", "/", ">">> >>,
                 <<TRUE, <<"x">>, <<"x", "_", "/", ">">> >>}}

Other(t, open, body, close) ==
  [type |-> t, text |-> open \o body \o close, empty |-> FALSE, attribs |-> <<>>]

\* Comments that do not begin with '>' or '->' and hold no '--'.
CommentText(b) ==
  /\ b # <<>> => b[1] # ">" /\ Last(b) # "-"
  /\ Len(b) > 1 => b[1] # "-" \/ b[2] \notin {">", "-"}

Others ==
  {Other("end", <<"<", "/", "x">>, b, <<">">>) : b \in {<<>>, <<"_">>}}
  \cup {Other("comment", <<"<", "!", "-", "-">>, b, <<"-", "-", ">">>) :
          b \in {t \in BoundedSeq({"-", ">", "<", "q"}, 2) : CommentText(t)}}
  \cup {Other("pi", <<"<", "?", "x">>, b, <<"?", ">">>) :
          b \in {<<>>, <<"_", "q", ">", "q">>}}
  \cup {Other("cdata", <<"<", "!", "[", "C", "[">>, b, <<"]", "]", ">">>) :
          b \in {<<>>, <<"<", "x", ">">>, <<"]", ">">>, <<"]">>}}
  \cup {Other("doctype", <<"<", "!", "D", "_", "x">>, b, <<">">>) :
          b \in {<<>>, <<"[", "<", "!", "E", "_", "q", ">", "q", ">", "]">>,
                 <<"[", "<", "!", "-", "-", "_", ">", "-", "-", ">", "]">>}}

MCPieces == Tags \cup Others

\* Files for Preferred: with and without spaces and ends of line.
Layouts == {[eol |-> <<>>, sp |-> <<>>], [eol |-> <<"EOL">>, sp |-> <<>>],
            [eol |-> <<"EOL">>, sp |-> <<" ">>]}
PfAttr(n, v) == <<" ", n, "=", "q">> \o v \o <<"q">>
Single(name, attribs, l) == <<"<", name>> \o attribs \o l.sp \o <<"/", ">">> \o l.eol
Double(name, attribs, body, l) ==
  <<"<", name>> \o attribs \o <<">">> \o l.eol \o body \o <<"<", "/", name, ">">> \o l.eol

Short == PfAttr("name", <<"a">>)
Long  == PfAttr("name", <<"a", "b", "c">>)
Match == PfAttr("match", <<"1">>)
Filter(intent, l) ==
  Double("filter", <<>>, Single("action", PfAttr("name", <<intent>>), l)
                         \o Single("cat", Short, l), l)

MCItems(l) ==
  { Double("item", Short \o Match, Filter("MAIN", l), l),
    Double("item", Long, Single("set", Short, l) \o Filter("VIEW", l), l),
    Double("item", Match \o Long, Filter("VIEW", l), l),
    Double("item", Short, Filter("EDIT", l), l),
    Double("item", Short, Single("filter", <<>>, l), l),
    Single("item", Short, l) }

MCPreferred(l, n) ==
  {<<>>, Single("preferred", <<>>, l)}
  \cup {Double("preferred", <<>>, FlattenSeq(b), l) : b \in BoundedSeq(MCItems(l), n)}

\* Two items in one layout, one in the others.
MCDocs ==
  UNION {{Double("packages", <<>>, o \o p \o o, l) :
            o \in {<<>>, Single("package", Short, l)},
            p \in MCPreferred(l, IF l.sp = <<>> /\ l.eol = <<>> THEN 2 ELSE 1)} : l \in Layouts}

\* The tablets of Personal; nothing else tells one from another.
Alike == Permutations(Devices)

(* One part at a time. *)

IxIdle == /\ ixRows = <<>> /\ ixBuf = <<"NUL">> /\ ixPos = 1 /\ ixInst = <<>>
          /\ ixFlag = FALSE /\ ixState = "idle"
SlIdle == /\ slRows = <<>> /\ slFound = 0 /\ slI = 1 /\ slJ = 1 /\ slBuf = <<>>
          /\ slItems = <<>> /\ slSel = 0 /\ slUser = <<>> /\ slState = "idle"
CkIdle == ckDate = 0 /\ ckTime = 0 /\ ckText = <<>>
CfIdle == /\ cfRows = <<>> /\ cfI = 1 /\ cfTemp = FALSE /\ cfFirst = 0 /\ cfTablet = 0
          /\ cfPending = {} /\ cfFailed = FALSE /\ cfState = "idle"
PfIdle == /\ pfDoc = <<>> /\ pfElem = <<>> /\ pfParent = 0 /\ pfPos = 0 /\ pfSaved = 0
          /\ pfFound = FALSE /\ pfPc = "idle" /\ pfCall = 1 /\ pfStart = <<>> /\ pfRun = 1
TIdle  == /\ tPieces = <<>> /\ tText = <<>> /\ tD = 1 /\ tN = NodeAt(1) /\ tNodes = <<>>
          /\ tA = NoAttrib /\ tPhase = "idle"

PvIdle == /\ pvViewer = [d \in PvTablets |-> FALSE] /\ pvDev = MCTablet /\ pvPc = "idle"
          /\ pvList = "none" /\ pvZip = FALSE /\ pvApk = FALSE
          /\ pvFaults = {} /\ pvDied = FALSE

\* One start for each tablet, the same up to Alike.
PsIdle == PsInit /\ student = 0 /\ \A d \in Devices : tiles[d].home[1].filled

Parts == {"index", "students", "clock", "config", "zip", "markup", "tokens", "preferred",
          "viewer", "personal"}

\* The start of InfoZip and of Markup is a single state each.
Init ==
  /\ part \in Parts
  /\ ZInit /\ MInit
  /\ IF part = "index"     THEN IxInit ELSE IxIdle
  /\ IF part = "students"  THEN SlInit ELSE SlIdle
  /\ IF part = "clock"     THEN CkInit ELSE CkIdle
  /\ IF part = "config"    THEN CfInit ELSE CfIdle
  /\ IF part = "tokens"    THEN TInit  ELSE TIdle
  /\ IF part = "preferred" THEN PfInit ELSE PfIdle
  /\ IF part = "viewer"    THEN PvInit ELSE PvIdle
  /\ IF part = "personal"  THEN PsInit ELSE PsIdle

Next ==
  /\ UNCHANGED part
  /\ \/ part = "index" /\ IxNext
        /\ UNCHANGED <<slVars, ckVars, cfVars, zVars, mVars, tVars, pfVars, pvVars, psVars>>
     \/ part = "students" /\ SlNext
        /\ UNCHANGED <<ixVars, ckVars, cfVars, zVars, mVars, tVars, pfVars, pvVars, psVars>>
     \/ part = "clock" /\ SetTime
        /\ UNCHANGED <<ixVars, slVars, cfVars, zVars, mVars, tVars, pfVars, pvVars, psVars>>
     \/ part = "config" /\ CfNext
        /\ UNCHANGED <<ixVars, slVars, ckVars, zVars, mVars, tVars, pfVars, pvVars, psVars>>
     \/ part = "zip" /\ ZNext
        /\ UNCHANGED <<ixVars, slVars, ckVars, cfVars, mVars, tVars, pfVars, pvVars, psVars>>
     \/ part = "markup" /\ MNext
        /\ UNCHANGED <<ixVars, slVars, ckVars, cfVars, zVars, tVars, pfVars, pvVars, psVars>>
     \/ part = "tokens" /\ TNext
        /\ UNCHANGED <<ixVars, slVars, ckVars, cfVars, zVars, mVars, pfVars, pvVars, psVars>>
     \/ part = "preferred" /\ PfNext
        /\ UNCHANGED <<ixVars, slVars, ckVars, cfVars, zVars, mVars, tVars, pvVars, psVars>>
     \/ part = "viewer" /\ PvNext
        /\ UNCHANGED <<ixVars, slVars, ckVars, cfVars, zVars, mVars, tVars, pfVars, psVars>>
     \/ part = "personal" /\ PsNext
        /\ UNCHANGED <<ixVars, slVars, ckVars, cfVars, zVars, mVars, tVars, pfVars, pvVars>>
=============================================================================
