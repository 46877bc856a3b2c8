---------------------------- MODULE MCFetchCache ----------------------------
EXTENDS FetchCache

Doc       == [parent |-> 0, type |-> "document", names |-> {}, words |-> {}]
El(p, ns) == [parent |-> p, type |-> "element", names |-> ns, words |-> {}]
Tx(p, ws) == [parent |-> p, type |-> "text", names |-> {}, words |-> ws]

(* Two trees with parts that are included twice, excluded within what is   *)
(* included, and hidden; and an error page in plain text, without an ETag. *)
MCPage ==
  [old |-> <<Doc, El(1, {"title"}), Tx(2, {"x"}), El(1, {".a", "div"}), Tx(4, {"x", "y"}),
             El(4, {".a", "p"}), Tx(6, {"y"}), El(4, {"script"}), Tx(8, {"x"}), Tx(1, {})>>,
   new |-> <<Doc, El(1, {"div"}), El(2, {"p"}), El(3, {"b"}), Tx(4, {"x"}), Tx(1, {"y"})>>,
   error |-> <<Doc, Tx(1, {"x"}), Tx(1, {"z"})>>]

MCType == [old |-> "text/html", new |-> "text/html", error |-> "text/plain"]
MCTag  == [old |-> "tag1", new |-> "tag2", error |-> ""]

Plain == [query |-> "", include |-> "", exclude |-> "", maxChars |-> 0, maxBytes |-> 0,
          types |-> {}]

MCRequests ==
  {[Plain EXCEPT !.query = "y", !.maxChars = 1, !.maxBytes = 20],
   [Plain EXCEPT !.include = ".a", !.exclude = "p", !.types = {"text/html"}]}

(* With a query and without.                                               *)
FilterRequests == {Plain, [Plain EXCEPT !.query = "x"]}

-----------------------------------------------------------------------------
(* On every tree of four nodes below the document, whose texts all differ, *)
(* the text that is extracted is what the definition looking upwards says. *)
Words == <<"v", "w", "x", "y", "z">>

SmallNodes(n) ==
  LET below == 1..n - 1
  IN  {Tx(p, {Words[n]}) : p \in below} \cup
      {El(p, {ns}) : p \in below, ns \in {"a", "b", "script"}}

SmallPages ==
  {t \in {<<Doc, i, j, k, l>> : i \in SmallNodes(2), j \in SmallNodes(3),
                               k \in SmallNodes(4), l \in SmallNodes(5)} :
     IsPage(t) /\ \A n \in 2..5 : t[t[n].parent].type # "text"}

ASSUME ExtractionAgrees ==
  \A t \in SmallPages, include, exclude \in {"", "a", "b"} :
    ExtractText(t, "text/html", include, exclude) = VisibleLines(t, include, exclude)
=============================================================================
