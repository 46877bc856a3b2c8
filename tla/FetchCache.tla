----------------------------- MODULE FetchCache -----------------------------
(***************************************************************************)
(* web_fetch and its cache (internal/tools/web/fetch.go), for one URL: the *)
(* entries of other URLs have nothing to do with it.                       *)
(*                                                                         *)
(* A caller is a handler in its own goroutine.  One step of it is what it  *)
(* does under the lock of the cache, or what comes back from the network.  *)
(* The web server shows one version of the page and may show another one   *)
(* at any time, an earlier one too; versions are known by their ETag, when *)
(* they have one (Last-Modified is used in the same way).                  *)
(***************************************************************************)
EXTENDS PageText, Integers

CONSTANTS
  Callers,
  Versions,        \* what the web server may show: a page, an error page
  Page,            \* the tree of each version
  Type,            \* its content type
  Tag,             \* its ETag, or None
  Requests,        \* what clients ask for, as they write it
  Types,           \* defaultAllowedCTypes
  DefaultMaxChars, DefaultMaxBytes,
  MaxAllowedReadBytes

(* A request: a query, selectors, limits and content types, all optional.  *)
RequestType == [query : STRING, include : STRING, exclude : STRING, maxChars : Int,
                maxBytes : Int, types : SUBSET (STRING \ {None})]

ASSUME FetchAssumption ==
  /\ Versions # {}
  /\ \A v \in Versions : IsPage(Page[v])
  /\ \A v, w \in Versions : Tag[v] = Tag[w] /\ Tag[v] # None => v = w
  /\ None \notin Versions
  /\ None \notin Types /\ Types # {}
  /\ Requests \subseteq RequestType
  /\ DefaultMaxChars \in Nat \ {0}
  /\ DefaultMaxBytes \in 1..MaxAllowedReadBytes /\ MaxAllowedReadBytes \in Nat

VARIABLES
  page,     \* the version that the web server shows
  entry,    \* the URL's entry in the cache
  pc,       \* "idle", "sent" or "served", for each caller
  req,      \* the caller's options
  match,    \* the ETag it sent in If-None-Match, or None
  resp,     \* the response it received
  answer,   \* the last answer to its client
  stored,   \* history: options of the calls whose text was put into the cache
  shown,    \* history: versions that the web server showed during the call
  raced     \* history: has another call stored an entry since it looked?

vars == <<page, entry, pc, req, match, resp, answer, stored, shown, raced>>

NoEntry == [tag |-> None, text |-> <<>>, of |-> None]

(* A response: of a 304, no version and no content type is sent.           *)
NotModified == [status |-> "notModified", of |-> None, type |-> None]
Full(v)     == [status |-> "full", of |-> v, type |-> Type[v]]
NoResponse  == [status |-> "none", of |-> None, type |-> None]

(* Of an answer, "of" is history: the version whose text the body is.      *)
NoAnswer == [result |-> "none", cached |-> FALSE, of |-> None, body |-> <<>>]
Error    == [NoAnswer EXCEPT !.result = "error"]
Body(v, isCached, text) ==
  [result |-> "page", cached |-> isCached, of |-> v, body |-> text]

(* No content types, or none of those that are written, are the default.   *)
AllowedTypes(ts) == IF ts = {} THEN Types ELSE ts

(* Mutant of Options: there is no upper bound to what is read.             *)
OptionsUnbounded(k) ==
  [k EXCEPT
    !.maxChars = IF @ <= 0 THEN DefaultMaxChars ELSE @,
    !.maxBytes = IF @ <= 0 THEN DefaultMaxBytes ELSE @,
    !.types = AllowedTypes(@)]

(* The options of a request: what is out of bounds, or left out, becomes   *)
(* the default.                                                            *)
Options(k) ==
  [k EXCEPT
    !.maxChars = IF @ <= 0 THEN DefaultMaxChars ELSE @,
    !.maxBytes = IF @ <= 0 \/ @ > MaxAllowedReadBytes THEN DefaultMaxBytes ELSE @,
    !.types = AllowedTypes(@)]

Init ==
  /\ page \in Versions
  /\ entry = NoEntry
  /\ pc = [c \in Callers |-> "idle"]
  /\ req \in [Callers -> {Options(k) : k \in Requests}]
  /\ match = [c \in Callers |-> None]
  /\ resp = [c \in Callers |-> NoResponse]
  /\ answer = [c \in Callers |-> NoAnswer]
  /\ stored = {}
  /\ shown = [c \in Callers |-> {}]
  /\ raced = [c \in Callers |-> FALSE]

-----------------------------------------------------------------------------
(* The web server, outside the program.                                    *)

Publish(v) ==
  /\ page' = v
  /\ shown' = [c \in Callers |-> IF pc[c] = "sent" THEN shown[c] \cup {v} ELSE shown[c]]
  /\ UNCHANGED <<entry, pc, req, match, resp, answer, stored, raced>>

(* It may answer 304 when the version it shows is the one that is asked    *)
(* about, and otherwise sends the head of a full response.                 *)
Serve(c) ==
  /\ pc[c] = "sent"
  /\ pc' = [pc EXCEPT ![c] = "served"]
  /\ resp' \in {[resp EXCEPT ![c] = r] :
                  r \in {Full(page)} \cup
                        {n \in {NotModified} : match[c] # None /\ match[c] = Tag[page]}}
  /\ UNCHANGED <<page, entry, req, match, answer, stored, shown, raced>>

-----------------------------------------------------------------------------
(* handleFetch.                                                            *)

(* The entry's ETag, if it has one, becomes a condition of the request.    *)
Request(c, k) ==
  /\ pc[c] = "idle"
  /\ pc' = [pc EXCEPT ![c] = "sent"]
  /\ req' = [req EXCEPT ![c] = Options(k)]
  /\ match' = [match EXCEPT ![c] = entry.tag]
  /\ answer' = [answer EXCEPT ![c] = NoAnswer]
  /\ shown' = [shown EXCEPT ![c] = {page}]
  /\ raced' = [raced EXCEPT ![c] = FALSE]
  /\ UNCHANGED <<page, entry, resp, stored>>

(* The caller answers its client and is done with its response.            *)
Return(c, from, a) ==
  /\ pc[c] = from
  /\ pc' = [pc EXCEPT ![c] = "idle"]
  /\ answer' = [answer EXCEPT ![c] = a]
  /\ match' = [match EXCEPT ![c] = None]
  /\ resp' = [resp EXCEPT ![c] = NoResponse]
  /\ shown' = [shown EXCEPT ![c] = {}]

(* client.Do fails: there is no connection, too many redirects, or the     *)
(* timeout has passed.                                                     *)
DoFails(c) ==
  /\ Return(c, "sent", Error)
  /\ raced' = [raced EXCEPT ![c] = FALSE]
  /\ UNCHANGED <<page, entry, req, stored>>

(* After a 304 the cache is looked at again, whatever it holds by now.     *)
IsCached(c) == resp[c].status = "notModified" /\ entry # NoEntry

AnswerCached(c) ==
  /\ IsCached(c)
  /\ Return(c, "served", Body(entry.of, TRUE, entry.text))
  /\ raced' = [raced EXCEPT ![c] = FALSE]
  /\ UNCHANGED <<page, entry, req, stored>>

(* A response without a content type is never allowed; a type that is      *)
(* asked for stands for all that begin with it.                            *)
Allowed(c) == resp[c].type \in req[c].types

RefuseType(c) ==
  /\ ~IsCached(c)
  /\ ~Allowed(c)
  /\ Return(c, "served", Error)
  /\ raced' = [raced EXCEPT ![c] = FALSE]
  /\ UNCHANGED <<page, entry, req, stored>>

(* Mutant of ReadFails: the timeout covers the head of the response only,  *)
(* and a connection that is open does not break off.                       *)
ReadFailsNever(c) ==
  /\ Allowed(c)
  /\ resp[c].status = "none"
  /\ Return(c, "served", Error)
  /\ raced' = [raced EXCEPT ![c] = FALSE]
  /\ UNCHANGED <<page, entry, req, stored>>

(* The response breaks off, or the client's timeout passes while its body  *)
(* is read.                                                                *)
ReadFails(c) ==
  /\ ~IsCached(c)
  /\ Allowed(c)
  /\ Return(c, "served", Error)
  /\ raced' = [raced EXCEPT ![c] = FALSE]
  /\ UNCHANGED <<page, entry, req, stored>>

TextFor(v, k) == Text(Page[v], Type[v], k)

(* Mutant of Store: a page without an ETag leaves the one that was there.  *)
StoreKeepsTag(c) ==
  LET v == resp[c].of
      text == TextFor(v, req[c])
  IN  /\ ~IsCached(c)
      /\ Allowed(c)
      /\ Return(c, "served", Body(v, FALSE, text))
      /\ entry' = [tag |-> IF Tag[v] = None THEN entry.tag ELSE Tag[v], text |-> text, of |-> v]
      /\ stored' = stored \cup {req[c]}
      /\ raced' = [d \in Callers |-> d # c /\ pc[d] # "idle"]
      /\ UNCHANGED <<page, req>>

(* The body is there: its text is stored and answered.                     *)
Store(c) ==
  LET v == resp[c].of
      text == TextFor(v, req[c])
  IN  /\ ~IsCached(c)
      /\ Allowed(c)
      /\ Return(c, "served", Body(v, FALSE, text))
      /\ entry' = [tag |-> Tag[v], text |-> text, of |-> v]
      /\ stored' = stored \cup {req[c]}
      /\ raced' = [d \in Callers |-> d # c /\ pc[d] # "idle"]
      /\ UNCHANGED <<page, req>>

-----------------------------------------------------------------------------
Timeout(c) == DoFails(c) \/ ReadFails(c)

Handle(c) == AnswerCached(c) \/ RefuseType(c)

Next ==
  \/ \E v \in Versions : Publish(v)
  \/ \E c \in Callers :
       \/ \E k \in Requests : Request(c, k)
       \/ Serve(c) \/ Handle(c) \/ Timeout(c) \/ Store(c)

Spec == Init /\ [][Next]_vars

(* The handler runs when it can, and the client's timer fires, which       *)
(* covers the connection, the redirects and the body.  Nothing makes the   *)
(* web server answer.                                                      *)
Fairness == \A c \in Callers : WF_vars(Handle(c)) /\ WF_vars(Timeout(c))

FairSpec == Spec /\ Fairness

-----------------------------------------------------------------------------
IsRequest(k) ==
  /\ k.maxChars > 0
  /\ k.maxBytes \in 1..MaxAllowedReadBytes
  /\ k.types # {} /\ None \notin k.types

(* What a caller and the cache may hold; the options in force are within   *)
(* their bounds, and a response is there exactly while it is worked on.    *)
TypeOK ==
  /\ page \in Versions
  /\ entry.of \in Versions \cup {None}
  /\ entry.tag = IF entry.of = None THEN None ELSE Tag[entry.of]
  /\ pc \in [Callers -> {"idle", "sent", "served"}]
  /\ \A c \in Callers : IsRequest(req[c])
  /\ {DOMAIN req, DOMAIN match, DOMAIN resp, DOMAIN answer} = {Callers}
  /\ \A c \in Callers :
       resp[c] \in IF pc[c] = "served" THEN {NotModified} \cup {Full(v) : v \in Versions}
                  ELSE {NoResponse}
  /\ \A c \in Callers :
       answer[c].result \in {"none", "error", "page"} /\ answer[c].of \in Versions \cup {None}
  /\ \A k \in stored : IsRequest(k)
  /\ shown \in [Callers -> SUBSET Versions]
  /\ raced \in [Callers -> BOOLEAN]

(* The body of an answer is the visible text of one version of the page,   *)
(* filtered and cut as its call asked; a cached body is filtered and cut   *)
(* as another call asked, one whose text was put into the cache before,    *)
(* and is never a mixture.                                                 *)
BodyExact ==
  \A c \in Callers : answer[c].result = "page" =>
    LET v == answer[c].of
        asked == IF answer[c].cached THEN stored ELSE {req[c]}
    IN  \E k \in asked : IsTextOf(answer[c].body, Page[v], Type[v], k)

(* The version that is answered was shown by the web server during the     *)
(* call, though the cache may have been filled long before and the server  *)
(* may have gone back to an earlier version: only when another fetch       *)
(* stored its page between the look that sent the ETag and the look that   *)
(* answers may it be another.                                              *)
AnswersFresh ==
  [][\A c \in Callers :
       (pc[c] = "served" /\ answer'[c].result = "page" /\ (answer'[c].cached => ~raced[c]))
         => answer'[c].of \in shown[c]]_vars

(* A fetch returns, whatever the web server does: the client's timeout     *)
(* covers the body too.                                                    *)
FetchReturns == \A c \in Callers : pc[c] # "idle" ~> pc[c] = "idle"

-----------------------------------------------------------------------------
(* What the tool's description says and the code does not do.              *)

(* "Optional case-insensitive filter; only matching text lines are         *)
(* returned." (fetch.go:35): each line of a body has the query in it, and  *)
(* nothing but what stands on lines of the page that have.                 *)
OnlyMatchingLines ==
  \A c \in Callers :
    LET query == req[c].query
        lines == {Page[answer[c].of][n].words : n \in DOMAIN Page[answer[c].of]}
    IN  answer[c].result = "page" /\ query # None =>
          \A i \in DOMAIN answer[c].body :
            /\ query \in answer[c].body[i]
            /\ answer[c].body[i] \subseteq UNION {line \in lines : query \in line}
=============================================================================
