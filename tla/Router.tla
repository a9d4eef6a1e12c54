------------------------------- MODULE Router -------------------------------
(***************************************************************************)
(* Which route of a Lua application answers a request: find_matching_route *)
(* of src/filters/filter-lua.c goes through the configured routes in their *)
(* order and asks route_resolve of vendor/router.c, the copy the Makefile    *)
(* builds, about each; that splits route and path at `/' (build_urimap)    *)
(* and compares them segment by segment (compare_urimaps).                 *)
(*                                                                         *)
(* A segment of a route is the character it starts with, if that has a     *)
(* meaning, and the words it is made of: {a,b} is [mark |-> "{",           *)
(* words |-> <<a, b>>] and :id=number is                                   *)
(* [mark |-> ":", words |-> <<"id", "number">>].  A path is the sequence   *)
(* of what stands behind each `/' of it, of the same form, with no words   *)
(* for nothing: `/' is <<Empty>> and /a/ is two pieces.                    *)
(***************************************************************************)
EXTENDS Naturals, Sequences

CONSTANTS
  Words,       \* words of paths
  Printable,   \* the ones made of printable ASCII only
  Numeric,     \* the ones made of digits only
  Pieces,      \* what paths are made of besides Empty
  Clip,        \* a word without its last character, if it has more than one
  Run,         \* a word with `/' and the (printable) character behind it
  Routes,      \* routes, sequences of segments, that may be configured
  MaxRoutes,   \* bound on the number of routes
  MaxPath      \* bound on the number of pieces of a path

Empty == [mark |-> "", words |-> << >>]
Root == <<Empty>>

ASSUME RouterAssumption ==
  /\ Printable \subseteq Words /\ Numeric \subseteq Words
  /\ Clip \in [Words -> Words] /\ Run \in [Words -> Words]
  /\ \A p \in Pieces : p.words \in Seq(Words) /\ (p.mark # "*" => p.words # << >>)
  /\ \A r \in Routes : Len(r) \in Nat /\ DOMAIN r = 1 .. Len(r)
  /\ MaxRoutes \in Nat /\ MaxPath \in Nat \ {0}

VARIABLES
  routes,  \* the configured routes, in order
  path,    \* the path of the request
  list,    \* its map: the strings of each element
  route,   \* index of the route under comparison
  segment, \* index of the piece to split off or the segment under comparison
  rpc,     \* control point
  match    \* index of the route that matched, 0 if none

vars == <<routes, path, list, route, segment, rpc, match>>

SeqsUpTo(S, n) == UNION {[1 .. m -> S] : m \in 0 .. n}

\* build_urimap: what one segment of a route becomes.
Type(s) ==
  CASE s.mark = "?" -> "SINGLE" [] s.mark = "*" -> "WILDCARD"
    [] s.mark = "{" -> "EITHER" [] s.mark = ":" -> "ID" [] OTHER -> "RAW"
MustBe(s) ==
  IF Type(s) \notin {"EITHER", "ID"} THEN "NONE"
  ELSE IF Len(s.words) = 1 THEN "ANY"
  ELSE IF Type(s) = "ID" /\ s.words[2] = "number" THEN "NUMBER"
  ELSE IF Type(s) = "ID" /\ s.words[2] = "string" THEN "STRING"
  ELSE "NONE"

\* compare_urimaps: whether word w passes segment s.  An :id that must be
\* neither anything nor a string is held to digits.
Alphabet(s) == IF MustBe(s) = "STRING" THEN Printable ELSE Numeric
Passes(s, w) ==
  CASE Type(s) = "EITHER" -> \E n \in DOMAIN s.words : s.words[n] = w
    [] Type(s) = "ID" -> MustBe(s) = "ANY" \/ w \in Alphabet(s)
    [] Type(s) = "RAW" -> s.words[1] = w
    [] OTHER -> TRUE

TypeOK ==
  /\ routes \in SeqsUpTo(Routes, MaxRoutes)
  /\ path \in SeqsUpTo(Pieces \cup {Empty}, MaxPath)
  /\ list \in Seq(Seq(Words)) /\ Len(list) <= MaxPath
  /\ route \in 1 .. MaxRoutes + 1 /\ segment \in 1 .. MaxPath + 1
  /\ rpc \in {"build", "resolve", "compare", "done", "crash"}
  /\ match \in 0 .. MaxRoutes

Init ==
  /\ routes \in SeqsUpTo(Routes, MaxRoutes)
  /\ path \in SeqsUpTo(Pieces \cup {Empty}, MaxPath) \ {<< >>}
  /\ list = << >> /\ route = 1 /\ segment = 1 /\ rpc = "build" /\ match = 0

\* What the i-th piece leaves in its element: a plain word before two `/' loses
\* a character, one with a mark gains some before any, `*' has no string.
Strings(i) ==
  LET p == path[i]
  IN IF p.mark = "" /\ i + 1 < Len(path) /\ path[i + 1] = Empty
       THEN <<Clip[p.words[1]]>>
     ELSE IF p.mark = ":" /\ Len(p.words) = 1 /\ i < Len(path)
       THEN <<Run[p.words[1]]>>
     ELSE p.words

\* build_urimap for the path, with the same result for every route: nothing
\* between two `/' is skipped.
Build ==
  /\ rpc = "build"
  /\ IF segment > Len(path) THEN rpc' = "resolve" /\ UNCHANGED <<list, segment>>
     ELSE /\ list' = IF path[segment] = Empty THEN list
                     ELSE Append(list, Strings(segment))
          /\ segment' = segment + 1 /\ UNCHANGED rpc
  /\ UNCHANGED <<routes, path, route, match>>

\* Without segments there are no lists to compare; only `/' by itself matches
\* the route `/' before that.
NoLists == routes[route] = << >> /\ list = << >> /\ path # Root

\* Mutant: the comparison resumes where the previous route failed.
ResolveResumes ==
  /\ rpc = "resolve" /\ route <= Len(routes)
  /\ IF Len(routes[route]) # Len(list)
       THEN route' = route + 1 /\ UNCHANGED <<segment, rpc>>
     ELSE IF NoLists THEN rpc' = "crash" /\ UNCHANGED <<segment, route>>
     ELSE rpc' = "compare" /\ UNCHANGED <<segment, route>>
  /\ UNCHANGED <<routes, path, list, match>>

\* route_resolve for the next route: the maps differ in length, or are
\* compared from their first segments on.
Resolve ==
  /\ rpc = "resolve" /\ route <= Len(routes)
  /\ IF Len(routes[route]) # Len(list)
       THEN route' = route + 1 /\ UNCHANGED <<segment, rpc>>
     ELSE IF NoLists THEN rpc' = "crash" /\ UNCHANGED <<segment, route>>
     ELSE rpc' = "compare" /\ segment' = 1 /\ UNCHANGED route
  /\ UNCHANGED <<routes, path, list, match>>

Comparing == rpc = "compare" /\ segment <= Len(list)
Current == routes[route][segment]
\* Only these look at the first string of the element.
Compared == Type(Current) \in {"EITHER", "ID", "RAW"}
HasText == list[segment] # << >>

SegmentPasses ==
  /\ Comparing
  /\ Compared => HasText /\ Passes(Current, list[segment][1])
  /\ segment' = segment + 1
  /\ UNCHANGED <<routes, path, list, route, rpc, match>>

SegmentFails ==
  /\ Comparing /\ Compared /\ HasText /\ ~Passes(Current, list[segment][1])
  /\ rpc' = "resolve" /\ route' = route + 1
  /\ UNCHANGED <<routes, path, list, segment, match>>

SegmentCrashes ==
  /\ Comparing /\ Compared /\ ~HasText
  /\ rpc' = "crash"
  /\ UNCHANGED <<routes, path, list, route, segment, match>>

\* Every segment has passed: the first such route is taken.
Match ==
  /\ rpc = "compare" /\ segment > Len(list)
  /\ match' = route /\ rpc' = "done"
  /\ UNCHANGED <<routes, path, list, route, segment>>

NotFound ==
  /\ rpc = "resolve" /\ route > Len(routes)
  /\ rpc' = "done"
  /\ UNCHANGED <<routes, path, list, route, segment, match>>

Next ==
  \/ Build \/ Resolve \/ SegmentPasses \/ SegmentFails \/ SegmentCrashes
  \/ Match \/ NotFound
Spec == Init /\ [][Next]_vars

-----------------------------------------------------------------------------
\* The texts a segment is meant for, written down independently of the loop.
Meant(s) ==
  CASE s.mark \in {"*", "?"} -> Words
    [] s.mark = "{" -> {w \in Words : \E n \in DOMAIN s.words : w = s.words[n]}
    [] s.mark = ":" -> IF Len(s.words) = 1 THEN Words
                       ELSE IF s.words[2] = "string" THEN Printable ELSE Numeric
    [] OTHER -> {s.words[1]}
Answers(r) ==
  /\ Len(r) = Len(list)
  /\ \A n \in DOMAIN r :
       IF list[n] = << >> THEN r[n].mark \in {"*", "?"} ELSE list[n][1] \in Meant(r[n])

\* A path of plain words, perhaps with a `/' at its end.
Plain ==
  \A i \in DOMAIN path :
    IF path[i] = Empty THEN i = Len(path)
    ELSE path[i].mark = "" /\ Len(path[i].words) = 1
\* A path that router.c reads a text of which there is none for: nothing but
\* `/', or a piece that starts with `*'.
Textless ==
  \/ \A i \in DOMAIN path : path[i] = Empty
  \/ \E i \in DOMAIN path : path[i].mark = "*"
WordsOf(p) == IF p[Len(p)] = Empty THEN SubSeq(p, 1, Len(p) - 1) ELSE p

\* The request goes to the first configured route that is meant for the texts
\* build_urimap finds in its path, which are the words of a plain path, and is
\* not found only if no route is.  Only a path without texts crashes the search.
FirstRouteAnswers ==
  /\ rpc = "done" =>
       /\ match # 0 => Answers(routes[match])
       /\ \A n \in DOMAIN routes :
            (match = 0 \/ n < match) => ~Answers(routes[n])
  /\ rpc # "build" /\ Plain =>
       list = [i \in DOMAIN WordsOf(path) |-> path[i].words]
  /\ rpc = "crash" => Textless /\ path # Root
=============================================================================
