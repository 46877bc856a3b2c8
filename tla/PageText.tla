------------------------------ MODULE PageText ------------------------------
(***************************************************************************)
(* The text that web_fetch makes of a page (extractText, filterByQuery and *)
(* the cut to maxChars of internal/tools/web/fetch.go).                    *)
(*                                                                         *)
(* A page is the sequence of the nodes of its tree in document order, of   *)
(* which the first is the document itself; a node names its parent.  The   *)
(* text of a node is the set of its words, and none is blank text.  A line *)
(* of text counts as one character, and a node as one byte.                *)
(***************************************************************************)
EXTENDS Naturals, Sequences, FiniteSets

CONSTANTS
  HiddenTags, \* script, style, noscript and template
  None        \* an empty query or selector, or no ETag

Node == [parent : Nat, type : {"document", "element", "text"},
         names : SUBSET (STRING \ {None}), words : SUBSET STRING]

(* The names of an element are its tag, its id and its classes, which are  *)
(* what the three forms of a selector ask for.                             *)
Matches(node, selector) == node.type = "element" /\ selector \in node.names

Hidden(node) == node.type = "element" /\ node.names \cap HiddenTags # {}

(* n.FirstChild and c.NextSibling; nil is one past the last node.          *)
Nil(page) == Len(page) + 1

First(page, T) == IF T = {} THEN Nil(page) ELSE CHOOSE n \in T : \A m \in T : n <= m

FirstChild(page, n) == First(page, {m \in DOMAIN page : page[m].parent = n})

NextSibling(page, n) ==
  First(page, {m \in DOMAIN page : m > n /\ page[m].parent = page[n].parent})

(* collectMatchingNodes and collectText: a node, if it is to be taken, and *)
(* then its children, one after the other; what is left out is left out    *)
(* with all below it.  siblings[n] is what the loop over the children      *)
(* collects from n on.                                                     *)
CollectNode(page, n, taken, left, siblings) ==
  IF n \in left THEN <<>>
  ELSE (IF n \in taken THEN <<n>> ELSE <<>>) \o siblings[FirstChild(page, n)]

CollectSiblings(page, taken, left) ==
  LET siblings[n \in 1..Nil(page)] ==
        IF n = Nil(page) THEN <<>>
        ELSE CollectNode(page, n, taken, left, siblings) \o siblings[NextSibling(page, n)]
  IN  siblings

Collect(page, root, taken, left) ==
  CollectNode(page, root, taken, left, CollectSiblings(page, taken, left))

(* One included node may be part of another.                               *)
IncludedNodes(page, selector) ==
  Collect(page, 1, {n \in DOMAIN page : Matches(page[n], selector)}, {})

NodeText(page, root, selector) ==
  LET nodes == Collect(page, root, {n \in DOMAIN page : page[n].words # {}},
                       {n \in DOMAIN page : Matches(page[n], selector) \/ Hidden(page[n])})
  IN  [i \in DOMAIN nodes |-> page[nodes[i]].words]

(* Sequences one after the other.                                          *)
Join(seqs) ==
  LET out[i \in 0..Len(seqs)] == IF i = 0 THEN <<>> ELSE out[i - 1] \o seqs[i]
  IN  out[Len(seqs)]

(* extractText: plain text becomes one line, as normalizeWhitespace joins  *)
(* what newlines part; of a tree, the included nodes, or all of it.        *)
ExtractText(page, type, include, exclude) ==
  LET roots == IncludedNodes(page, include)
      words == UNION {page[n].words : n \in DOMAIN page}
  IN  IF type = "text/plain"
      THEN IF words = {} THEN <<>> ELSE <<words>>
      ELSE IF roots = <<>> THEN NodeText(page, 1, exclude)
      ELSE Join([i \in DOMAIN roots |-> NodeText(page, roots[i], exclude)])

FilterByQuery(text, query) ==
  LET out[i \in 0..Len(text)] ==
        IF i = 0 THEN <<>>
        ELSE IF query \in text[i] THEN Append(out[i - 1], text[i]) ELSE out[i - 1]
  IN  out[Len(text)]

Cut(seq, n) == IF Len(seq) > n THEN SubSeq(seq, 1, n) ELSE seq

(* Mutant of Text: the text is cut before it is filtered.                  *)
TextCutFirst(page, type, k) ==
  LET all == Cut(ExtractText(Cut(page, k.maxBytes), type, k.include, k.exclude), k.maxChars)
  IN  IF k.query = None THEN all ELSE FilterByQuery(all, k.query)

(* The text that the handler makes of what it reads of a page: its first   *)
(* maxBytes bytes.                                                         *)
Text(page, type, k) ==
  LET all == ExtractText(Cut(page, k.maxBytes), type, k.include, k.exclude)
  IN  Cut(IF k.query = None THEN all ELSE FilterByQuery(all, k.query), k.maxChars)

-----------------------------------------------------------------------------
(* The same by a definition that looks upwards: a line is the text of a    *)
(* node, below an included node, with nothing that is excluded or hidden   *)
(* between the two.                                                        *)

(* The nodes from n up to the document.                                    *)
Path(page, n) ==
  LET up[m \in DOMAIN page] ==
        {m} \cup (IF page[m].parent = 0 THEN {} ELSE up[page[m].parent])
  IN  up[n]

IsTree(page) ==
  /\ page \in Seq(Node)
  /\ page # <<>> /\ page[1].type = "document"
  /\ \A n \in DOMAIN page :
       /\ page[n].parent < n
       /\ n > 1 => page[n].parent > 0 /\ page[n].type # "document"
       /\ page[n].words # {} => page[n].type = "text"

(* In document order a node comes after its parent, and before it only     *)
(* what is below an earlier child of that parent.                          *)
IsPage(page) ==
  IsTree(page) /\ \A n \in DOMAIN page \ {1} : page[n].parent \in Path(page, n - 1)

(* The elements of a set of numbers in their order.                        *)
InOrder(T) ==
  [i \in 1..Cardinality(T) |-> CHOOSE n \in T : Cardinality({m \in T : m <= n}) = i]

VisibleFrom(page, root, exclude, n) ==
  /\ page[n].words # {}
  /\ root \in Path(page, n)
  /\ \A m \in Path(page, n) :
       m >= root => ~Hidden(page[m]) /\ ~Matches(page[m], exclude)

(* The lines below one root after the other, each in document order.       *)
VisibleLines(page, include, exclude) ==
  LET roots == InOrder({n \in DOMAIN page : Matches(page[n], include)})
      below(r) == InOrder({n \in DOMAIN page : VisibleFrom(page, r, exclude, n)})
      lines(r) == [i \in DOMAIN below(r) |-> page[below(r)[i]].words]
  IN  IF roots = <<>> THEN lines(1)
      ELSE Join([i \in DOMAIN roots |-> lines(roots[i])])

(* The lines that match a query.                                           *)
Matching(lines, query) ==
  LET kept == InOrder({i \in DOMAIN lines : query \in lines[i]})
  IN  [i \in DOMAIN kept |-> lines[kept[i]]]

(* What an answer promises of its body: the visible lines, of those the    *)
(* ones that match the query, and of those the first maxChars.             *)
IsTextOf(body, page, type, k) ==
  LET read  == SubSeq(page, 1, IF k.maxBytes < Len(page) THEN k.maxBytes ELSE Len(page))
      words == UNION {read[n].words : n \in DOMAIN read}
      lines == IF type # "text/plain" THEN VisibleLines(read, k.include, k.exclude)
               ELSE IF words = {} THEN <<>> ELSE <<words>>
      wanted == IF k.query = None THEN lines ELSE Matching(lines, k.query)
  IN  /\ Len(body) = IF Len(wanted) < k.maxChars THEN Len(wanted) ELSE k.maxChars
      /\ \A i \in 1..Len(body) : body[i] = wanted[i]
=============================================================================
