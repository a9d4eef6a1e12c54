------------------------------ MODULE LuaProofs ------------------------------
(***************************************************************************)
(* Theorems about modules Router and LuaFilter: any words, routes and      *)
(* paths, and any site: its tables of routes, what its models return and   *)
(* the responses they set.                                                 *)
(***************************************************************************)
EXTENDS LuaFilter, SequenceTheorems, FiniteSetTheorems, WellFoundedInduction,
        TLAPS

(* The search for a route: module Router by itself.                        *)

\* compare_urimaps lets a word pass exactly where the segment is meant for it.
LEMMA PassesIsMeant ==
  ASSUME NEW s, NEW w \in Words
  PROVE  Passes(s, w) <=> w \in Meant(s)
<1>1. CASE s.mark \in {"*", "?"}
  BY <1>1 DEF Passes, Type, Meant
<1>2. CASE s.mark = "{"
  BY <1>2 DEF Passes, Type, Meant
<1>3. CASE s.mark = ":"
  BY <1>3 DEF Passes, Type, MustBe, Alphabet, Meant
<1>4. CASE s.mark \notin {"*", "?", "{", ":"}
  BY <1>4 DEF Passes, Type, Meant
<1> QED
  BY <1>1, <1>2, <1>3, <1>4

LEMMA UpToIsSeq ==
  ASSUME NEW S, NEW n \in Nat, NEW q \in SeqsUpTo(S, n)
  PROVE  q \in Seq(S)
<1>1. PICK m \in 0 .. n : q \in [1 .. m -> S]
  BY DEF SeqsUpTo
<1> QED
  BY <1>1, SeqDef

\* The element list[n] passes segment n of route r.
Fits(r, n) ==
  IF list[n] = << >> THEN r[n].mark \in {"*", "?"} ELSE list[n][1] \in Meant(r[n])

\* The pieces that have been split off, and what they have left.
Split == IF rpc = "build" THEN segment - 1 ELSE Len(path)
ListInv ==
  /\ Split \in 0 .. Len(path) /\ Len(list) <= Split
  /\ list = << >> => \A i \in 1 .. Split : path[i] = Empty
  /\ \A n \in 1 .. Len(list) : list[n] = << >> => \E i \in DOMAIN path : path[i].mark = "*"
  /\ Plain =>
       /\ Len(list) = IF Split # 0 /\ path[Split] = Empty THEN Split - 1 ELSE Split
       /\ \A n \in 1 .. Len(list) : list[n] = path[n].words

\* Routes before the one under comparison are not meant for the path; what
\* has been compared of this one is.
RouterInv ==
  /\ routes \in Seq(Routes) /\ path \in Seq(Pieces \cup {Empty}) /\ Len(path) > 0
  /\ list \in Seq(Seq(Words)) /\ ListInv
  /\ route \in Nat \ {0} /\ segment \in Nat \ {0}
  /\ rpc \in {"build", "resolve", "compare", "done", "crash"}
  /\ rpc = "build" => route = 1
  /\ rpc = "crash" => Textless /\ path # Root
  /\ \A n \in DOMAIN routes : n < route => ~Answers(routes[n])
  /\ rpc = "compare" =>
       /\ route \in DOMAIN routes /\ Len(routes[route]) = Len(list)
       /\ \A n \in 1 .. Len(list) : n < segment => Fits(routes[route], n)
  /\ rpc # "done" => match = 0
  /\ rpc = "done" =>
       \/ match = 0 /\ route > Len(routes)
       \/ match = route /\ route \in DOMAIN routes /\ Answers(routes[route])

LEMMA RouterInit == Init => RouterInv
<1> SUFFICES ASSUME Init PROVE RouterInv
  OBVIOUS
<1>1. routes \in Seq(Routes) /\ path \in Seq(Pieces \cup {Empty}) /\ path # << >>
  BY UpToIsSeq, RouterAssumption DEF Init
<1>2. Len(path) \in Nat /\ Len(path) > 0
  BY <1>1
<1>3. list = << >> /\ segment = 1 /\ rpc = "build"
  BY DEF Init
<1>4. ListInv
  BY <1>2, <1>3 DEF ListInv, Split
<1> QED
  BY <1>1, <1>2, <1>4 DEF Init, RouterInv

\* What a piece leaves are words, and none only of a piece that starts with `*'.
LEMMA StringsAre ==
  ASSUME NEW i \in DOMAIN path, path \in Seq(Pieces \cup {Empty}), path[i] # Empty
  PROVE  /\ Strings(i) \in Seq(Words)
         /\ Strings(i) = << >> => path[i].mark = "*"
         /\ Plain => Strings(i) = path[i].words
<1> DEFINE p == path[i]
<1>1. p \in Pieces /\ p.words \in Seq(Words) /\ (p.mark # "*" => p.words # << >>)
  BY RouterAssumption
<1>2. p.words # << >> => p.words[1] \in Words
  BY <1>1
<1>3. i \in 1 .. Len(path) /\ Len(path) \in Nat
  OBVIOUS
<1>4. CASE p.mark = "" /\ i + 1 < Len(path) /\ path[i + 1] = Empty
  <2>1. Strings(i) = <<Clip[p.words[1]]>>
    BY <1>4 DEF Strings
  <2>2. Clip[p.words[1]] \in Words
    BY <1>1, <1>2, <1>4, RouterAssumption
  <2>3. ~Plain
    <3>0. i \in Nat /\ DOMAIN path = 1 .. Len(path)
      BY <1>3
    <3>1. i + 1 \in DOMAIN path /\ i + 1 # Len(path)
      <4>1. i + 1 \in 1 .. Len(path) /\ i + 1 # Len(path)
        <5>1. \A a, b \in Nat : a + 1 < b => a + 1 \in 1 .. b /\ a + 1 # b
          OBVIOUS
        <5>2. i + 1 < Len(path) /\ Len(path) \in Nat
          BY <1>3, <1>4
        <5> QED
          BY <3>0, <5>1, <5>2
      <4> QED
        BY <3>0, <4>1
    <3> QED
      BY <1>4, <3>1 DEF Plain
  <2> QED
    BY <2>1, <2>2, <2>3
<1>5. CASE ~(p.mark = "" /\ i + 1 < Len(path) /\ path[i + 1] = Empty)
           /\ p.mark = ":" /\ Len(p.words) = 1 /\ i < Len(path)
  <2>1. Strings(i) = <<Run[p.words[1]]>>
    BY <1>5, Zenon DEF Strings
  <2>2. Run[p.words[1]] \in Words
    BY <1>1, <1>2, <1>5, RouterAssumption
  <2>3. ~Plain
    BY <1>5 DEF Plain
  <2> QED
    BY <2>1, <2>2, <2>3
<1>6. CASE ~(p.mark = "" /\ i + 1 < Len(path) /\ path[i + 1] = Empty)
           /\ ~(p.mark = ":" /\ Len(p.words) = 1 /\ i < Len(path))
  <2>1. Strings(i) = p.words
    BY <1>6, Zenon DEF Strings
  <2> QED
    BY <1>1, <2>1
<1> QED
  BY <1>4, <1>5, <1>6

LEMMA BuildStep ==
  ASSUME RouterInv, Build
  PROVE  list' \in Seq(Seq(Words)) /\ ListInv'
<1> USE DEF RouterInv
<1>1. /\ rpc = "build" /\ path' = path /\ Len(path) \in Nat /\ Len(list) \in Nat
      /\ Split = segment - 1 /\ (Plain' <=> Plain)
  BY DEF Build, Split, Plain
<1>2. CASE segment > Len(path)
  <2>1. list' = list /\ segment' = segment /\ rpc' = "resolve"
    BY <1>2 DEF Build
  <2>2. Split' = Split
    BY <1>1, <1>2, <2>1 DEF Split, ListInv
  <2> QED
    BY <1>1, <2>1, <2>2 DEF ListInv
<1>3. CASE segment <= Len(path) /\ path[segment] = Empty
  <2>1. list' = list /\ segment' = segment + 1 /\ rpc' = "build"
    BY <1>1, <1>3 DEF Build
  <2>2. Split' = segment /\ segment \in DOMAIN path
    BY <1>1, <1>3, <2>1 DEF Split
  <2>3. list = << >> => \A i \in 1 .. segment : path[i] = Empty
    BY <1>1, <1>3 DEF ListInv
  <2>4. Plain => Len(list) = segment - 1
    <3> SUFFICES ASSUME Plain PROVE Len(list) = segment - 1
      OBVIOUS
    <3>1. ~(segment - 1 # 0 /\ path[segment - 1] = Empty)
      <4> SUFFICES ASSUME segment - 1 # 0, path[segment - 1] = Empty PROVE FALSE
        OBVIOUS
      <4>1. segment - 1 \in DOMAIN path /\ segment - 1 # Len(path)
        BY <1>1, <1>3
      <4> QED
        BY <4>1 DEF Plain
    <3> QED
      BY <1>1, <3>1 DEF ListInv
  <2> QED
    BY <1>1, <1>3, <2>1, <2>2, <2>3, <2>4 DEF ListInv
<1>4. CASE segment <= Len(path) /\ path[segment] # Empty
  <2>1. /\ list' = Append(list, Strings(segment))
        /\ segment' = segment + 1 /\ rpc' = "build"
    BY <1>1, <1>4 DEF Build
  <2>2. Split' = segment /\ segment \in DOMAIN path
    BY <1>1, <1>4, <2>1 DEF Split
  <2>3. /\ Strings(segment) \in Seq(Words)
        /\ Strings(segment) = << >> => path[segment].mark = "*"
        /\ Plain => Strings(segment) = path[segment].words
    BY <1>4, <2>2, StringsAre
  <2>4. /\ list' \in Seq(Seq(Words)) /\ Len(list') = Len(list) + 1
        /\ list'[Len(list) + 1] = Strings(segment)
        /\ \A n \in 1 .. Len(list) : list'[n] = list[n]
    BY <2>1, <2>3, AppendProperties
  <2>5. list' # << >> /\ Len(list') <= segment
    BY <1>1, <2>4 DEF ListInv
  <2>6. \A n \in 1 .. Len(list') : list'[n] = << >> =>
          \E i \in DOMAIN path : path[i].mark = "*"
    <3> TAKE n \in 1 .. Len(list')
    <3>1. n \in 1 .. Len(list) \/ n = Len(list) + 1
      BY <1>1, <2>4
    <3> QED
      BY <2>2, <2>3, <2>4, <3>1 DEF ListInv
  <2>7. ASSUME Plain
        PROVE  /\ Len(list') = segment
               /\ \A n \in 1 .. Len(list') : list'[n] = path[n].words
    <3>1. ~(segment - 1 # 0 /\ path[segment - 1] = Empty)
      <4> SUFFICES ASSUME segment - 1 # 0, path[segment - 1] = Empty PROVE FALSE
        OBVIOUS
      <4>1. segment - 1 \in DOMAIN path /\ segment - 1 # Len(path)
        BY <1>1, <1>4
      <4> QED
        BY <2>7, <4>1 DEF Plain
    <3>2. Len(list) = segment - 1 /\ Len(list) + 1 = segment
      BY <1>1, <2>7, <3>1 DEF ListInv
    <3>3. \A n \in 1 .. Len(list') : n \in 1 .. Len(list) \/ n = segment
      BY <2>4, <3>2
    <3> QED
      BY <2>3, <2>4, <2>7, <3>2, <3>3 DEF ListInv
  <2> QED
    BY <1>1, <1>4, <2>2, <2>4, <2>5, <2>6, <2>7 DEF ListInv
<1> QED
  BY <1>1, <1>2, <1>3, <1>4

LEMMA RouterStep == RouterInv /\ [Next]_vars => RouterInv'
<1> SUFFICES ASSUME RouterInv, [Next]_vars PROVE RouterInv'
  OBVIOUS
<1> USE DEF RouterInv
<1>0. ASSUME list' = list, NEW r
      PROVE  (Answers(r)' <=> Answers(r)) /\ \A n : Fits(r, n)' <=> Fits(r, n)
  BY <1>0 DEF Answers, Fits
<1>a. ASSUME list' = list, path' = path, rpc # "build", rpc' # "build"
      PROVE  ListInv' /\ (Textless' <=> Textless)
  BY <1>a DEF ListInv, Split, Plain, Textless
<1>b. path' = path /\ routes' = routes
  BY DEF Next, vars, Build, Resolve, SegmentPasses, SegmentFails, SegmentCrashes,
         Match, NotFound
<1>c. ~Build => list' = list
  BY DEF Next, vars, Resolve, SegmentPasses, SegmentFails, SegmentCrashes,
         Match, NotFound
<1>d. ASSUME segment \in 1 .. Len(list), list[segment] # << >>
      PROVE  list[segment][1] \in Words
  BY <1>d
<1>e. Len(list) \in Nat /\ DOMAIN list = 1 .. Len(list)
  OBVIOUS
<1>1. CASE Resolve
  <2>1. CASE Len(routes[route]) # Len(list)
    <3>1. ~Answers(routes[route])
      BY <2>1 DEF Answers
    <3> QED
      BY <1>1, <1>0, <1>a, <1>b, <2>1, <3>1 DEF Resolve
  <2>2. CASE Len(routes[route]) = Len(list) /\ NoLists
    <3>1. Textless /\ path # Root
      BY <1>1, <2>2 DEF NoLists, Textless, ListInv, Split, Resolve
    <3> QED
      BY <1>1, <1>0, <1>a, <1>b, <2>2, <3>1 DEF Resolve
  <2>3. CASE Len(routes[route]) = Len(list) /\ ~NoLists
    BY <1>1, <1>0, <1>a, <1>b, <2>3 DEF Resolve
  <2> QED
    BY <2>1, <2>2, <2>3
<1>2. CASE SegmentPasses
  <2>1. segment \in 1 .. Len(list)
    BY <1>2, <1>e DEF SegmentPasses, Comparing
  <2>2. Fits(routes[route], segment)
    <3>1. CASE Compared
      BY <1>2, <1>d, <2>1, <3>1, PassesIsMeant
         DEF SegmentPasses, HasText, Current, Fits
    <3>2. CASE ~Compared
      <4>1. Current.mark \in {"*", "?"}
        BY <3>2 DEF Compared, Type
      <4> QED
        BY <1>d, <2>1, <4>1 DEF Fits, Current, Meant
    <3> QED
      BY <3>1, <3>2
  <2>3. \A n \in 1 .. Len(list) : n < segment + 1 => n < segment \/ n = segment
    BY <1>e
  <2>4. \A n \in 1 .. Len(list) : n < segment + 1 => Fits(routes[route], n)
    BY <1>2, <2>2, <2>3 DEF SegmentPasses, Comparing
  <2>5. /\ rpc = "compare" /\ rpc' = rpc /\ segment' = segment + 1
        /\ route' = route /\ match' = match /\ list' = list
    BY <1>2 DEF SegmentPasses, Comparing
  <2>6. \A n \in 1 .. Len(list) : n < segment' => Fits(routes[route], n)'
    <3>1. Len(list)' = Len(list)
      BY <2>5
    <3>2. \A n : Fits(routes[route], n)' <=> Fits(routes[route], n)
      BY <1>b, <2>5 DEF Fits
    <3> QED
      BY <2>4, <2>5, <3>1, <3>2
  <2> QED
    BY <1>0, <1>a, <1>b, <2>5, <2>6
<1>3. CASE SegmentFails
  <2>1. segment \in 1 .. Len(list)
    BY <1>3, <1>e DEF SegmentFails, Comparing
  <2>2. list[segment] # << >> /\ list[segment][1] \notin Meant(routes[route][segment])
    BY <1>3, <1>d, <2>1, PassesIsMeant DEF SegmentFails, HasText, Current
  <2>3. routes[route] \in Routes
    BY <1>3 DEF SegmentFails, Comparing
  <2>4. segment \in DOMAIN routes[route]
    BY <1>3, <2>1, <2>3, RouterAssumption DEF SegmentFails, Comparing
  <2>5. ~Answers(routes[route])
    BY <2>2, <2>4 DEF Answers
  <2> QED
    BY <1>3, <1>0, <1>a, <1>b, <2>5 DEF SegmentFails, Comparing
<1>4. CASE SegmentCrashes
  <2>1. segment \in 1 .. Len(list)
    BY <1>4, <1>e DEF SegmentCrashes, Comparing
  <2>2. PICK i \in DOMAIN path : path[i].mark = "*"
    BY <1>4, <2>1 DEF SegmentCrashes, HasText, ListInv
  <2>3. path # Root
    <3> SUFFICES ASSUME path = Root PROVE FALSE
      OBVIOUS
    <3>1. path[1] = Empty /\ Len(path) = 1
      BY DEF Root
    <3>2. i = 1
      BY <3>1
    <3>3. Empty.mark = ""
      BY DEF Empty
    <3> QED
      BY <2>2, <3>1, <3>2, <3>3
  <2> QED
    BY <1>4, <1>0, <1>a, <1>b, <2>2, <2>3 DEF SegmentCrashes, Comparing, Textless
<1>5. CASE Match
  <2>1. routes[route] \in Routes
    BY <1>5 DEF Match
  <2>2. DOMAIN routes[route] = 1 .. Len(list)
    BY <1>5, <2>1, RouterAssumption DEF Match
  <2>3. Answers(routes[route])
    BY <1>5, <2>2 DEF Match, Answers, Fits
  <2> QED
    BY <1>5, <1>0, <1>a, <1>b, <2>3 DEF Match
<1>6. CASE NotFound
  BY <1>6, <1>0, <1>a, <1>b DEF NotFound
<1>7. CASE Build
  <2>1. list' \in Seq(Seq(Words)) /\ ListInv'
    BY <1>7, BuildStep
  <2>2. /\ route' = route /\ match' = match /\ rpc' \in {"build", "resolve"}
        /\ segment' \in {segment, segment + 1} /\ route = 1 /\ rpc = "build"
    BY <1>7 DEF Build
  <2>3. \A n \in DOMAIN routes : ~(n < 1)
    OBVIOUS
  <2> QED
    BY <1>b, <2>1, <2>2, <2>3
<1>8. CASE UNCHANGED vars
  <2>1. ListInv' /\ (Textless' <=> Textless)
    BY <1>8 DEF vars, ListInv, Split, Plain, Textless
  <2> QED
    BY <1>8, <1>0, <2>1 DEF vars
<1> QED
  BY <1>1, <1>2, <1>3, <1>4, <1>5, <1>6, <1>7, <1>8 DEF Next

LEMMA UpToLength ==
  ASSUME NEW S, NEW n \in Nat, NEW q \in SeqsUpTo(S, n)
  PROVE  Len(q) \in 0 .. n /\ DOMAIN q = 1 .. Len(q)
<1>1. PICK m \in 0 .. n : q \in [1 .. m -> S]
  BY DEF SeqsUpTo
<1> QED
  BY <1>1

\* The type invariant of the search: it stays within the routes, the pieces of
\* the path and the elements made of them.
THEOREM RouterTypes == Spec => []TypeOK
<1> USE RouterAssumption
<1>1. Init => TypeOK
  BY DEF Init, TypeOK
<1>2. TypeOK /\ RouterInv /\ [Next]_vars /\ RouterInv' => TypeOK'
  <2> SUFFICES ASSUME TypeOK, RouterInv, [Next]_vars, RouterInv' PROVE TypeOK'
    OBVIOUS
  <2>1. /\ Len(routes) \in 0 .. MaxRoutes /\ DOMAIN routes = 1 .. Len(routes)
        /\ Len(path) \in 0 .. MaxPath
    BY UpToLength DEF TypeOK
  <2>2. path' = path /\ routes' = routes
    BY DEF Next, vars, Build, Resolve, SegmentPasses, SegmentFails, SegmentCrashes,
           Match, NotFound
  <2>3. list' \in Seq(Seq(Words)) /\ Len(list') <= MaxPath
    <3>1. list' \in Seq(Seq(Words)) /\ Split' \in 0 .. Len(path) /\ Len(list') <= Split'
      BY <2>2 DEF RouterInv, ListInv
    <3>2. Len(list') \in Nat
      BY <3>1
    <3> QED
      BY <2>1, <3>1, <3>2
  <2>4. Len(list) <= MaxPath
    BY DEF TypeOK
  <2>5. /\ route' \in 1 .. MaxRoutes + 1 /\ segment' \in 1 .. MaxPath + 1
        /\ match' \in 0 .. MaxRoutes
    <3>1. CASE Build
      BY <2>1, <3>1 DEF TypeOK, Build
    <3>2. CASE Resolve
      BY <2>1, <3>2 DEF TypeOK, Resolve
    <3>3. CASE SegmentPasses \/ SegmentFails \/ SegmentCrashes
      <4>1. Len(list) \in Nat
        BY DEF RouterInv
      <4> QED
        BY <2>1, <2>4, <3>3, <4>1
           DEF TypeOK, RouterInv, SegmentPasses, SegmentFails, SegmentCrashes, Comparing
    <3>4. CASE Match \/ NotFound \/ UNCHANGED vars
      BY <2>1, <3>4 DEF TypeOK, RouterInv, Match, NotFound, vars
    <3> QED
      BY <3>1, <3>2, <3>3, <3>4 DEF Next
  <2> QED
    BY <2>2, <2>3, <2>5 DEF TypeOK, RouterInv
<1> QED
  BY RouterInit, RouterStep, <1>1, <1>2, PTL DEF Spec

LEMMA SearchIsRight == RouterInv => FirstRouteAnswers
<1> SUFFICES ASSUME RouterInv PROVE FirstRouteAnswers
  OBVIOUS
<1> USE DEF RouterInv
<1>1. ASSUME rpc # "build", Plain
      PROVE  list = [i \in DOMAIN WordsOf(path) |-> path[i].words]
  <2>1. Len(path) \in Nat /\ Split = Len(path) /\ Len(list) \in Nat
    BY <1>1 DEF Split
  <2>2. DOMAIN WordsOf(path) = 1 .. Len(list)
    <3>1. CASE path[Len(path)] = Empty
      <4>1. Len(list) = Len(path) - 1
        BY <1>1, <2>1, <3>1 DEF ListInv
      <4>2. DOMAIN SubSeq(path, 1, Len(path) - 1) = 1 .. Len(path) - 1
        BY <2>1
      <4> QED
        BY <3>1, <4>1, <4>2 DEF WordsOf
    <3>2. CASE path[Len(path)] # Empty
      <4>1. Len(list) = Len(path)
        BY <1>1, <2>1, <3>2 DEF ListInv
      <4> QED
        BY <3>2, <4>1 DEF WordsOf
    <3> QED
      BY <3>1, <3>2
  <2>3. \A n \in 1 .. Len(list) : list[n] = path[n].words
    BY <1>1 DEF ListInv
  <2>4. list = [n \in 1 .. Len(list) |-> list[n]]
    OBVIOUS
  <2> QED
    BY <2>2, <2>3, <2>4
<1> QED
  BY <1>1 DEF FirstRouteAnswers

\* The first configured route that is meant for the texts of a path answers it,
\* and a path is not found only if no route is meant for it; the search crashes
\* only on a path without such texts.
THEOREM FirstRouteWins == Spec => []FirstRouteAnswers
BY RouterInit, RouterStep, SearchIsRight, PTL DEF Spec

-----------------------------------------------------------------------------
(* The request: an invariant of LuaSpec.                                   *)

Kinds == {"table", "empty", "scalar"}
Keys == {"model", "config", "item"} \X Nat
Values == [kind : {"nil", "table", "scalar"}, keys : SUBSET Keys]
Sets == Responses \cup {NoResponse}

Causes ==
  {"none", "config", "routefile", "fewtables", "twotables", "manytables",
   "nofiles", "missing", "emptyfile", "path", "longpath", "search", "doubled",
   "noroutes", "noroute", "model", "response", "table", "text", "view", "nothing"}

LdType ==
  [table : Seq([key : STRING, value : {"text", "list", "child"}]),
   files : Seq({"model", "query", "view"}), at : Nat \ {0},
   stack : Seq(Values), tcount : Nat, model : Values, response : Sets,
   zmodel : SUBSET Keys, rendered : Nat, cause : Causes,
   returned : Seq(Seq(Kinds)), responses : Seq(Sets)]

LuaTypes ==
  /\ pc \in {"state", "config", "static", "route", "models", "response",
             "model", "views", "done", "crash"}
  /\ ld \in LdType
  /\ res \in [status : Nat, headers : Nat, msg : BOOLEAN,
             body : {"none", "error", "static", "response", "json", "views"}]

\* Under way nothing is answered, what is held is what free_ld releases, and
\* the headers' table of a response that a model has delayed.
HeldInv ==
  pc \notin {"done", "crash"} =>
    /\ res.body = "none" /\ ~res.msg
    /\ held \subseteq Ld \cup {"rt", "content"}
    /\ "content" \in held => pc = "views"
    /\ "rt" \in held => Delayed

\* The stack is empty but between a model and what is made of its response.
StackInv ==
  /\ pc \in {"state", "config", "static", "route"} => ld = NewLd
  /\ pc \in {"models", "model", "views"} => ld.stack = << >>

\* A response is one that a model has set.  The loop goes on after it only if
\* it is delayed, so only the last one can be final.
ResponseInv ==
  /\ ld.response.set => \E i \in DOMAIN ld.responses : ld.responses[i] = ld.response
  /\ pc \in {"models", "model", "views"} =>
       /\ \A i \in DOMAIN ld.responses : ~Final(i)
       /\ ld.response.set => ld.response.delay
  /\ pc = "response" =>
       /\ \A i \in DOMAIN ld.responses : Final(i) => i = Len(ld.responses)
       /\ \A i \in DOMAIN ld.responses : Final(i) => ld.response = ld.responses[i]
       /\ ld.response.set /\ ~ld.response.delay =>
            Len(ld.responses) > 0 /\ Final(Len(ld.responses))

\* Models run in the order of the files, each once.
Before(n) == {i \in 1 .. n : ld.files[i] = "model"}
RanInv ==
  /\ pc = "models" =>
       /\ ld.at - 1 <= Len(ld.files)
       /\ Len(ld.returned) = Cardinality(Before(ld.at - 1))
  /\ pc = "response" =>
       /\ ld.at <= Len(ld.files)
       /\ Len(ld.returned) = Cardinality(Before(ld.at))
  /\ pc \in {"model", "views"} => ModelsRan

\* The model has a key for each model that returned a table, or no keys since
\* something that is no table with keys is on top of the stack.
ModelKeys(v) == {k \in v.keys : k[1] = "model"}
ModelInv ==
  /\ pc \in {"models", "response"} =>
       /\ ld.tcount = 0 <=> ld.model = Nothing
       /\ \A k \in ModelKeys(ld.model) :
            k[2] < ld.at \/ (pc = "response" /\ k[2] = ld.at)
  /\ pc # "crash" =>
       /\ ld.tcount = 0 => TablesReturned = {}
       /\ ld.model # Nothing /\ ld.model.keys = {} => Valueless
       /\ ld.model.keys # {} =>
            /\ IsFiniteSet(ModelKeys(ld.model))
            /\ Cardinality(ModelKeys(ld.model)) = Cardinality(TablesReturned)

\* For views there is a table with keys, and it has become their model.
ViewInv ==
  /\ pc = "model" /\ Views # {} =>
       ld.model.kind = "table" /\ ld.model.keys # {}
  /\ pc = "views" /\ Views # {} =>
       Has("view") /\ ld.model.keys # {} /\ ld.zmodel = ld.model.keys

LuaInv ==
  /\ LuaTypes /\ HeldInv /\ StackInv /\ ResponseInv /\ RanInv /\ ModelInv
  /\ ViewInv /\ NothingLeaks /\ CrashCauses /\ AnswerSource

-----------------------------------------------------------------------------
(* Lemmas about the operators.                                             *)

LEMMA LeastOfNaturals ==
  ASSUME NEW T, T \subseteq Nat, T # {}
  PROVE  \E m \in T : \A k \in T : m <= k
<1> DEFINE R == OpToRel(<, Nat)
<1>1. IsWellFoundedOn(R, Nat)
  BY NatLessThanWellFounded
<1> HIDE DEF R
<1>2. PICK m \in T : \A k \in T : ~(<<k, m>> \in R)
  BY <1>1, WFMin
<1>3. \A k \in T : ~(k < m)
  BY <1>2 DEF R, OpToRel
<1>4. \A k \in T : k \in Nat /\ m \in Nat
  OBVIOUS
<1> QED
  BY <1>3, <1>4

LEMMA GreatestUpTo ==
  ASSUME NEW n \in Nat, NEW T, T \subseteq 0 .. n, T # {}
  PROVE  Max(T) \in T /\ \A k \in T : k <= Max(T)
<1> DEFINE D == {n - k : k \in T}
<1>0. \A k \in T : k \in 0 .. n
  OBVIOUS
<1>1. D \subseteq Nat /\ D # {}
  <2>1. \A k \in T : n - k \in Nat
    BY <1>0
  <2> QED
    BY <2>1
<1>2. PICK m \in D : \A k \in D : m <= k
  BY <1>1, LeastOfNaturals
<1>3. PICK g \in T : m = n - g
  BY <1>2
<1>4. \A k \in T : g >= k
  <2> TAKE k \in T
  <2>1. n - g <= n - k
    BY <1>2, <1>3
  <2> QED
    BY <1>0, <2>1
<1>5. \E x \in T : \A k \in T : x >= k
  BY <1>4
<1>6. Max(T) \in T /\ \A k \in T : Max(T) >= k
  BY <1>5 DEF Max
<1> QED
  BY <1>6

LEMMA AppendIs ==
  ASSUME NEW S, NEW q \in Seq(S), NEW e \in S, NEW p, p = Append(q, e)
  PROVE  /\ p \in Seq(S) /\ Len(q) \in Nat /\ Len(p) = Len(q) + 1
         /\ DOMAIN q = 1 .. Len(q) /\ DOMAIN p = 1 .. (Len(q) + 1)
         /\ p[Len(q) + 1] = e /\ \A i \in 1 .. Len(q) : p[i] = q[i]
<1>1. p \in Seq(S) /\ Len(p) = Len(q) + 1
  BY AppendProperties
<1>2. p[Len(q) + 1] = e /\ \A i \in 1 .. Len(q) : p[i] = q[i]
  BY AppendProperties
<1> QED
  BY <1>1, <1>2, LenProperties

-----------------------------------------------------------------------------
(* What the recursive definitions compute.  A function that satisfies the  *)
(* equation is built up along the length of the sequence; what holds of    *)
(* all its values follows from the least length where it does not.         *)

\* What holds at 0 and is passed on holds up to n.
LEMMA UpTo ==
  ASSUME NEW n \in Nat, NEW H, H \subseteq 0 .. n, 0 \in H,
         \A k \in 1 .. n : k - 1 \in H => k \in H
  PROVE  H = 0 .. n
<1> SUFFICES ASSUME H # 0 .. n PROVE FALSE
  OBVIOUS
<1> DEFINE L == (0 .. n) \ H
<1>1. L \subseteq Nat /\ L # {}
  <2>1. \E k \in 0 .. n : k \notin H
    <3> SUFFICES ASSUME \A k \in 0 .. n : k \in H PROVE H = 0 .. n
      OBVIOUS
    <3> QED
      OBVIOUS
  <2>2. L # {}
    BY <2>1
  <2>3. L \subseteq Nat
    OBVIOUS
  <2> QED
    BY <2>2, <2>3
<1>2. PICK m \in L : \A k \in L : m <= k
  BY <1>1, LeastOfNaturals
<1>3. m \in 1 .. n /\ m \notin H
  <2>1. m \in 0 .. n /\ m # 0
    BY <1>2
  <2> QED
    BY <1>2, <2>1
<1>4. m - 1 \in 0 .. n /\ m - 1 < m
  BY <1>3
<1>5. m - 1 \in H
  <2> SUFFICES ASSUME m - 1 \notin H PROVE FALSE
    OBVIOUS
  <2>1. m - 1 \in L
    BY <1>4
  <2>2. m <= m - 1
    BY <1>2, <2>1
  <2> QED
    BY <1>3, <2>2
<1> QED
  BY <1>3, <1>5

\* The greatest of the first places, and the others.
LEMMA UpToMax ==
  ASSUME NEW i \in Nat, i # 0
  PROVE  Max(1 .. i) = i /\ (1 .. i) \ {i} = 1 .. (i - 1)
<1>1. \A x \in 1 .. i : i >= x
  OBVIOUS
<1>2. i \in 1 .. i
  OBVIOUS
<1>3. Max(1 .. i) \in 1 .. i /\ \A y \in 1 .. i : Max(1 .. i) >= y
  BY <1>1, <1>2 DEF Max
<1>4. Max(1 .. i) = i
  BY <1>1, <1>2, <1>3
<1>5. \A x : x \in (1 .. i) \ {i} <=> x \in 1 .. (i - 1)
  OBVIOUS
<1> QED
  BY <1>4, <1>5

\* g is what a fold from the left computes for every set of places.
Folding(g, n, T, base, step) ==
  /\ g \in [SUBSET (1 .. n) -> T]
  /\ g[{}] = base
  /\ \A s \in SUBSET (1 .. n) :
       s # {} => g[s] = step[<<Max(s), g[s \ {Max(s)}]>>]

\* g is what is made of base by the first i steps, for every i.
Iteration(g, n, T, base, step) ==
  /\ g \in [0 .. n -> T]
  /\ g[0] = base
  /\ \A i \in 1 .. n : g[i] = step[<<i, g[i - 1]>>]

\* A fold from the left visits the positions in their order.
LEMMA FoldExists ==
  ASSUME NEW n \in Nat, NEW T, NEW base \in T, NEW step \in [(1 .. n) \X T -> T]
  PROVE  \E g : Folding(g, n, T, base, step)
<1> DEFINE Sol(k, g) == /\ g \in [SUBSET (1 .. k) -> T]
                        /\ \A s \in SUBSET (1 .. k) :
                             g[s] = IF s = {} THEN base
                                    ELSE step[<<Max(s), g[s \ {Max(s)}]>>]
           H == {k \in 0 .. n : \E g : Sol(k, g)}
<1>1. 0 \in H
  <2> DEFINE g0 == [s \in SUBSET (1 .. 0) |-> base]
  <2>1. SUBSET (1 .. 0) = {{}}
    <3>1. 1 .. 0 = {}
      OBVIOUS
    <3> QED
      BY <3>1
  <2>2. Sol(0, g0)
    BY <2>1
  <2>3. 0 \in 0 .. n
    OBVIOUS
  <2> HIDE DEF Sol
  <2> QED
    BY <2>2, <2>3
<1>2. ASSUME NEW k \in 1 .. n, k - 1 \in H PROVE k \in H
  <2>1. PICK g : Sol(k - 1, g)
    BY <1>2
  <2> DEFINE h == [s \in SUBSET (1 .. k) |->
                     IF k \in s THEN step[<<k, g[s \ {k}]>>] ELSE g[s]]
  <2>2. ASSUME NEW s \in SUBSET (1 .. k)
        PROVE  s \ {k} \in SUBSET (1 .. k - 1) /\ (k \notin s => s \in SUBSET (1 .. k - 1))
    <3>1. \A x \in 1 .. k : x # k => x \in 1 .. k - 1
      OBVIOUS
    <3> QED
      BY <3>1
  <2>3. h \in [SUBSET (1 .. k) -> T]
    <3> SUFFICES ASSUME NEW s \in SUBSET (1 .. k) PROVE h[s] \in T
      OBVIOUS
    <3>1. CASE k \in s
      <4>1. g[s \ {k}] \in T
        BY <2>1, <2>2
      <4> QED
        BY <3>1, <4>1
    <3>2. CASE k \notin s
      BY <2>1, <2>2, <3>2
    <3> QED
      BY <3>1, <3>2
  <2>4. ASSUME NEW s \in SUBSET (1 .. k)
        PROVE  h[s] = IF s = {} THEN base ELSE step[<<Max(s), h[s \ {Max(s)}]>>]
    <3>1. CASE k \in s
      <4>1. Max(s) = k
        <5>1. \A x \in s : k >= x
          OBVIOUS
        <5>2. \E x \in s : \A y \in s : x >= y
          BY <3>1, <5>1
        <5>3. Max(s) \in s /\ \A y \in s : Max(s) >= y
          BY <5>2 DEF Max
        <5>4. Max(s) >= k /\ k >= Max(s) /\ Max(s) \in 1 .. k
          BY <3>1, <5>1, <5>3
        <5> QED
          BY <5>4
      <4>2. h[s] = step[<<k, g[s \ {k}]>>]
        BY <3>1
      <4>3. s \ {k} \in SUBSET (1 .. k) /\ k \notin s \ {k}
        BY <2>2
      <4>4. h[s \ {k}] = g[s \ {k}]
        BY <4>3
      <4> QED
        BY <3>1, <4>1, <4>2, <4>4
    <3>2. CASE k \notin s
      <4>1. s \in SUBSET (1 .. k - 1) /\ h[s] = g[s]
        BY <2>2, <3>2
      <4>2. CASE s = {}
        BY <2>1, <4>1, <4>2
      <4>3. CASE s # {}
        <5>1. h[s \ {Max(s)}] = g[s \ {Max(s)}]
          BY <3>2
        <5>2. g[s] = step[<<Max(s), g[s \ {Max(s)}]>>]
          BY <2>1, <4>1, <4>3
        <5> QED
          BY <4>1, <4>3, <5>1, <5>2
      <4> QED
        BY <4>2, <4>3
    <3> QED
      BY <3>1, <3>2
  <2>5. Sol(k, h)
    <3> HIDE DEF h
    <3> QED
      BY <2>3, <2>4
  <2>6. k \in 0 .. n
    OBVIOUS
  <2> HIDE DEF Sol, h
  <2> QED
    BY <2>5, <2>6
<1>3. H = 0 .. n
  <2> HIDE DEF Sol
  <2>1. H \subseteq 0 .. n
    OBVIOUS
  <2> HIDE DEF H
  <2> QED
    BY <1>1, <1>2, <2>1, UpTo
<1>4. PICK g : Sol(n, g)
  <2> HIDE DEF Sol
  <2>1. n \in 0 .. n
    OBVIOUS
  <2> QED
    BY <1>3, <2>1
<1>5. {} \in SUBSET (1 .. n)
  OBVIOUS
<1>6. g[{}] = base /\ \A s \in SUBSET (1 .. n) :
        s # {} => g[s] = step[<<Max(s), g[s \ {Max(s)}]>>]
  BY <1>4, <1>5
<1>7. Folding(g, n, T, base, step)
  BY <1>4, <1>6 DEF Folding
<1> QED
  BY <1>7

\* What a step makes of a base value n times, in the order of the places.
LEMMA IterExists ==
  ASSUME NEW n \in Nat, NEW T, NEW base \in T, NEW step \in [(1 .. n) \X T -> T]
  PROVE  \E g : Iteration(g, n, T, base, step)
<1>0. PICK G : Folding(G, n, T, base, step)
  BY FoldExists
<1>1. /\ G \in [SUBSET (1 .. n) -> T]
      /\ G[{}] = base
      /\ \A s \in SUBSET (1 .. n) :
           s # {} => G[s] = step[<<Max(s), G[s \ {Max(s)}]>>]
  BY <1>0 DEF Folding
<1> DEFINE g == [i \in 0 .. n |-> G[1 .. i]]
<1>2. \A i \in 0 .. n : 1 .. i \in SUBSET (1 .. n)
  OBVIOUS
<1>3. g \in [0 .. n -> T]
  <2>1. \A i \in 0 .. n : G[1 .. i] \in T
    BY <1>1, <1>2
  <2> QED
    BY <2>1
<1>4. g[0] = base
  <2>1. 1 .. 0 = {} /\ 0 \in 0 .. n
    OBVIOUS
  <2> QED
    BY <1>1, <2>1
<1>5. ASSUME NEW i \in 1 .. n PROVE g[i] = step[<<i, g[i - 1]>>]
  <2>1. Max(1 .. i) = i /\ (1 .. i) \ {i} = 1 .. (i - 1)
    BY UpToMax
  <2>2. i \in 0 .. n /\ i - 1 \in 0 .. n /\ 1 .. i # {}
    OBVIOUS
  <2>3. G[1 .. i] = step[<<Max(1 .. i), G[(1 .. i) \ {Max(1 .. i)}]>>]
    BY <1>1, <1>2, <2>2
  <2> QED
    BY <2>1, <2>2, <2>3
<1> HIDE DEF g
<1>6. Iteration(g, n, T, base, step)
  BY <1>3, <1>4, <1>5 DEF Iteration
<1> QED
  BY <1>6

\* g is what FlattenSeq makes of the first i sequences of q, for every i.
Joining(g, q, S) ==
  /\ g \in [0 .. Len(q) -> Seq(S)]
  /\ g[0] = << >> /\ FlattenSeq(q) = g[Len(q)]
  /\ \A i \in 1 .. Len(q) : g[i] = g[i - 1] \o q[i]

\* What FlattenSeq joins, sequence by sequence.
LEMMA FlattenIs ==
  ASSUME NEW S, NEW q \in Seq(Seq(S))
  PROVE  \E g : Joining(g, q, S)
<1> DEFINE n == Len(q)
           T == Seq(S)
           step == [p \in (1 .. n) \X T |-> p[2] \o q[p[1]]]
<1>1. n \in Nat /\ \A i \in 1 .. n : q[i] \in T
  OBVIOUS
<1>2. step \in [(1 .. n) \X T -> T]
  <2> SUFFICES ASSUME NEW p \in (1 .. n) \X T PROVE p[2] \o q[p[1]] \in T
    OBVIOUS
  <2>1. p[2] \in T /\ q[p[1]] \in T
    BY <1>1
  <2> QED
    BY <2>1, ConcatProperties
<1>3. << >> \in T
  OBVIOUS
<1>4. PICK g : /\ g \in [0 .. n -> T] /\ g[0] = << >>
               /\ \A i \in 1 .. n : g[i] = step[<<i, g[i - 1]>>]
  <2>1. \E g : Iteration(g, n, T, << >>, step)
    <3> HIDE DEF step, T, n
    <3> QED
      BY <1>1, <1>2, <1>3, IterExists
  <2> HIDE DEF step, T, n
  <2> QED
    BY <2>1 DEF Iteration
<1>5. \A i \in 1 .. n : g[i] = g[i - 1] \o q[i]
  <2> TAKE i \in 1 .. n
  <2>1. i - 1 \in 0 .. n
    OBVIOUS
  <2>2. g[i - 1] \in T
    <3> HIDE DEF T, n, step
    <3> QED
      BY <1>4, <2>1
  <2>3. <<i, g[i - 1]>> \in (1 .. n) \X T
    BY <2>2
  <2> QED
    BY <1>4, <2>3
<1>6. CASE n = 0
  <2>1. FlattenSeq(q) = q /\ q = << >>
    BY <1>6 DEF FlattenSeq
  <2>2. Joining(g, q, S)
    BY <1>4, <1>5, <1>6, <2>1 DEF Joining
  <2> QED
    BY <2>2
<1>7. CASE n # 0
  <2> DEFINE Eq(f) == f = [i \in 1 .. Len(q) |-> IF i = 1 THEN q[i] ELSE f[i - 1] \o q[i]]
             k == [i \in 1 .. n |-> g[i]]
  <2>1. Eq(k)
    <3>1. ASSUME NEW i \in 1 .. n
          PROVE  k[i] = IF i = 1 THEN q[i] ELSE k[i - 1] \o q[i]
      <4>1. CASE i = 1
        <5>1. g[i] = g[i - 1] \o q[i]
          BY <1>5
        <5>2. i - 1 = 0
          BY <4>1
        <5>3. g[i - 1] = << >> /\ q[i] \in Seq(S)
          BY <1>1, <1>4, <5>2
        <5>4. g[i] = q[i]
          BY <5>1, <5>3
        <5> QED
          BY <4>1, <5>4
      <4>2. CASE i # 1
        <5>1. i - 1 \in 1 .. n
          BY <4>2
        <5> QED
          BY <1>5, <4>2, <5>1
      <4> QED
        BY <4>1, <4>2
    <3> QED
      BY <3>1
  <2>2. FlattenSeq(q) = (CHOOSE f : Eq(f))[Len(q)]
    BY <1>7 DEF FlattenSeq
  <2>3. PICK f : Eq(f) /\ FlattenSeq(q) = f[n]
    <3> HIDE DEF Eq, k
    <3> QED
      BY <2>1, <2>2
  <2> DEFINE H == {i \in 0 .. n : i # 0 => f[i] = g[i]}
  <2>4. 0 \in H
    BY <1>1
  <2>5. ASSUME NEW i \in 1 .. n, i - 1 \in H PROVE i \in H
    <3>1. f[i] = IF i = 1 THEN q[i] ELSE f[i - 1] \o q[i]
      BY <2>3
    <3>2. CASE i = 1
      <4>1. g[i] = g[i - 1] \o q[i]
        BY <1>5
      <4>2. i - 1 = 0 /\ i \in 0 .. n
        BY <1>1, <3>2
      <4>3. g[i] = q[i] /\ f[i] = q[i]
        BY <1>1, <1>4, <3>1, <3>2, <4>1, <4>2
      <4> QED
        BY <4>2, <4>3
    <3>3. CASE i # 1
      <4>1. g[i] = g[i - 1] \o q[i]
        BY <1>5
      <4>2. f[i - 1] = g[i - 1]
        BY <2>5, <3>3
      <4>3. i \in 0 .. n
        BY <1>1
      <4> QED
        BY <3>1, <3>3, <4>1, <4>2, <4>3
    <3> QED
      BY <3>2, <3>3
  <2>6. H \subseteq 0 .. n
    OBVIOUS
  <2>7. H = 0 .. n
    <3> HIDE DEF H
    <3> QED
      BY <1>1, <2>4, <2>5, <2>6, UpTo
  <2>8. n \in H
    BY <1>1, <2>7
  <2>9. FlattenSeq(q) = g[n]
    BY <1>7, <2>3, <2>8
  <2>10. Joining(g, q, S)
    BY <1>4, <1>5, <2>9 DEF Joining
  <2> QED
    BY <2>10
<1> QED
  BY <1>6, <1>7

-----------------------------------------------------------------------------
(* The files of a route.                                                   *)

FileKinds == {"model", "query", "view"}
ListStates ==
  [depth : Int, mset : FileKinds \cup {"none", "ctype"},
   type : {"none", "text", "table", "end"}, files : Seq(FileKinds)]

\* Nothing is open: what make_mvc_list is in between two entries.
Between(s) == s \in ListStates /\ s.depth = 1 /\ s.mset \in {"none", "ctype"}

RouteEntry(e) ==
  /\ e \in [key : STRING, value : {"text", "list", "child"}]
  /\ e.key = "content-type" => e.value = "text"

LEMMA AppendJoins ==
  ASSUME NEW S, NEW q \in Seq(S), NEW e \in S
  PROVE  Append(q, e) = q \o <<e>>
<1>1. Append(q, e) \in Seq(S) /\ Len(Append(q, e)) = Len(q) + 1
  BY AppendProperties
<1>2. <<e>> \in Seq(S) /\ Len(<<e>>) = 1 /\ <<e>>[1] = e
  OBVIOUS
<1>3. q \o <<e>> \in Seq(S) /\ Len(q \o <<e>>) = Len(q) + 1
  BY <1>2, ConcatProperties
<1>4. ASSUME NEW i \in 1 .. Len(q) + 1 PROVE Append(q, e)[i] = (q \o <<e>>)[i]
  <2>1. (q \o <<e>>)[i] = IF i <= Len(q) THEN q[i] ELSE <<e>>[i - Len(q)]
    BY <1>2, ConcatProperties
  <2>2. Append(q, e)[i] = IF i <= Len(q) THEN q[i] ELSE e
    BY AppendProperties, LenProperties
  <2>3. Len(q) \in Nat
    BY LenProperties
  <2> QED
    BY <1>2, <2>1, <2>2, <2>3
<1> QED
  BY <1>1, <1>3, <1>4, SeqEqual

LEMMA MsetIs ==
  ASSUME NEW key
  PROVE  /\ key \in Reserved => (Mset(key) \in FileKinds \/ key = "content-type")
         /\ Mset(key) \in FileKinds \cup {"ctype"}
         /\ key = "content-type" => key \in Reserved /\ Mset(key) = "ctype"
  BY DEF Mset, Reserved, FileKinds

\* A text below the first level, and the end of what it is in.
LEMMA InnerText ==
  ASSUME NEW s \in ListStates, s.depth = 2, NEW k
  PROVE  LET r == ListEntry(s, Item(k, "text"))
         IN /\ r \in ListStates /\ r.depth = 2 /\ r.type = s.type
            /\ r.mset = IF s.type = "text" THEN "none" ELSE s.mset
            /\ r.files = IF s.mset \in FileKinds THEN s.files \o <<s.mset>> ELSE s.files
<1> DEFINE r == ListEntry(s, Item(k, "text"))
           added == IF s.mset \in FileKinds THEN Append(s.files, s.mset) ELSE s.files
           mset == IF s.type = "text" THEN "none" ELSE s.mset
<1>1. r = [files |-> added, type |-> s.type, mset |-> mset, depth |-> s.depth]
  BY DEF ListEntry, Item, FileKinds
<1>2. /\ s.depth \in Int /\ s.mset \in FileKinds \cup {"none", "ctype"}
      /\ s.type \in {"none", "text", "table", "end"} /\ s.files \in Seq(FileKinds)
  BY DEF ListStates
<1>3. s.mset \in FileKinds => Append(s.files, s.mset) = s.files \o <<s.mset>>
                         /\ s.files \o <<s.mset>> \in Seq(FileKinds)
  BY <1>2, AppendJoins, AppendProperties
<1>4. /\ added = IF s.mset \in FileKinds THEN s.files \o <<s.mset>> ELSE s.files
      /\ added \in Seq(FileKinds)
  BY <1>2, <1>3
<1>5. mset \in FileKinds \cup {"none", "ctype"}
  BY <1>2
<1> HIDE DEF added, r, mset
<1>6. r \in ListStates /\ r.depth = 2 /\ r.type = s.type /\ r.files = added /\ r.mset = mset
  BY <1>1, <1>2, <1>4, <1>5 DEF ListStates
<1> QED
  BY <1>4, <1>6 DEF r, mset

LEMMA InnerEnd ==
  ASSUME NEW s \in ListStates, s.depth = 2
  PROVE  LET r == ListEntry(s, Item("end", "end"))
         IN Between(r) /\ r.files = s.files
<1>1. ListEntry(s, Item("end", "end")) =
        [files |-> s.files, type |-> s.type, mset |-> "none", depth |-> s.depth - 1]
  BY DEF ListEntry, Item
<1> QED
  BY <1>1 DEF ListStates, Between

\* A table on the first level.
LEMMA OuterTable ==
  ASSUME NEW s, Between(s), NEW k, k # "content-type"
  PROVE  LET r == ListEntry(s, Item(k, "table"))
         IN /\ r \in ListStates /\ r.depth = 2 /\ r.files = s.files
            /\ k \in Reserved => r.mset = Mset(k) /\ r.mset \in FileKinds /\ r.type = "table"
            /\ k \notin Reserved => r.mset \notin FileKinds
<1>1. Mset(k) # "ctype" \/ k \notin Reserved
  BY MsetIs DEF FileKinds
<1>2. ListEntry(s, Item(k, "table")) =
        [s EXCEPT !.mset = IF k \in Reserved THEN Mset(k) ELSE s.mset,
                  !.type = IF k \in Reserved THEN "table" ELSE s.type,
                  !.depth = s.depth + 1]
  BY <1>1 DEF ListEntry, Item, Between
<1>3. k \in Reserved => Mset(k) \in FileKinds
  BY MsetIs
<1>4. s \in ListStates /\ s.depth = 1 /\ s.mset \in {"none", "ctype"}
  BY DEF Between
<1> DEFINE r == ListEntry(s, Item(k, "table"))
           mset == IF k \in Reserved THEN Mset(k) ELSE s.mset
           type == IF k \in Reserved THEN "table" ELSE s.type
<1>5. mset \in FileKinds \cup {"none", "ctype"} /\ type \in {"none", "text", "table", "end"}
  BY <1>3, <1>4 DEF ListStates
<1>6. r = [s EXCEPT !.mset = mset, !.type = type, !.depth = s.depth + 1]
  BY <1>2
<1>7. k \notin Reserved => mset \notin FileKinds
  BY <1>4 DEF FileKinds
<1>8. k \in Reserved => mset = Mset(k) /\ mset \in FileKinds /\ type = "table"
  BY <1>3
<1> HIDE DEF r, mset, type
<1>9. r \in ListStates /\ r.depth = 2 /\ r.files = s.files /\ r.mset = mset /\ r.type = type
  <2>1. s.depth + 1 = 2 /\ s.depth + 1 \in Int
    BY <1>4
  <2>2. r \in ListStates
    BY <1>4, <1>5, <1>6, <2>1 DEF ListStates
  <2>3. r.depth = s.depth + 1 /\ r.files = s.files /\ r.mset = mset /\ r.type = type
    BY <1>4, <1>6 DEF ListStates
  <2> QED
    BY <2>1, <2>2, <2>3
<1> QED
  BY <1>7, <1>8, <1>9 DEF r

\* A text on the first level.
LEMMA OuterText ==
  ASSUME NEW s, Between(s), NEW k
  PROVE  LET r == ListEntry(s, Item(k, "text"))
         IN /\ Between(r)
            /\ r.files = IF k \in Reserved /\ Mset(k) # "ctype" THEN s.files \o <<Mset(k)>>
                         ELSE s.files
<1>1. s \in ListStates /\ s.depth = 1 /\ s.mset \in {"none", "ctype"}
  BY DEF Between
<1>2. CASE k \in Reserved /\ Mset(k) = "ctype"
  <2>1. ListEntry(s, Item(k, "text")) = [s EXCEPT !.mset = "ctype", !.type = "text"]
    BY <1>1, <1>2 DEF ListEntry, Item
  <2> QED
    BY <1>1, <1>2, <2>1 DEF ListStates, Between
<1>3. CASE k \in Reserved /\ Mset(k) # "ctype"
  <2>1. Mset(k) \in FileKinds
    BY <1>3, MsetIs
  <2>2. ListEntry(s, Item(k, "text")) =
          [files |-> Append(s.files, Mset(k)), type |-> "text", mset |-> "none",
           depth |-> s.depth]
    BY <1>1, <1>3, <2>1 DEF ListEntry, Item, FileKinds
  <2>3. Append(s.files, Mset(k)) = s.files \o <<Mset(k)>>
        /\ s.files \o <<Mset(k)>> \in Seq(FileKinds)
    <3>1. s.files \in Seq(FileKinds)
      BY <1>1 DEF ListStates
    <3> QED
      BY <2>1, <3>1, AppendJoins, AppendProperties
  <2> DEFINE r == ListEntry(s, Item(k, "text"))
             files == s.files \o <<Mset(k)>>
  <2>4. r = [files |-> files, type |-> "text", mset |-> "none", depth |-> 1]
    BY <1>1, <2>2, <2>3
  <2>5. files \in Seq(FileKinds)
    BY <2>3
  <2> HIDE DEF r, files
  <2>6. Between(r) /\ r.files = files
    BY <2>4, <2>5 DEF ListStates, Between
  <2> QED
    BY <1>3, <2>6 DEF r, files
<1>4. CASE k \notin Reserved
  <2>1. ListEntry(s, Item(k, "text")) =
          [files |-> s.files, type |-> s.type,
           mset |-> IF s.type = "text" THEN "none" ELSE s.mset, depth |-> s.depth]
    BY <1>1, <1>4 DEF ListEntry, Item
  <2> QED
    BY <1>1, <1>4, <2>1 DEF ListStates, Between
<1> QED
  BY <1>2, <1>3, <1>4

\* One entry of a route, of whatever kind, adds its own files.
LEMMA EntryKeeps ==
  ASSUME NEW e, RouteEntry(e), NEW h, NEW a \in Nat, Between(h[a]),
         \A j \in 1 .. Len(Flat(e)) : h[a + j] = ListEntry(h[a + j - 1], Flat(e)[j])
  PROVE  /\ Between(h[a + Len(Flat(e))])
         /\ h[a + Len(Flat(e))].files = h[a].files \o Own(e)
<1> DEFINE k == e.key
           s == h[a]
<1>1. /\ e.value \in {"text", "list", "child"}
      /\ k = "content-type" => e.value = "text"
  BY DEF RouteEntry
<1>2. s \in ListStates /\ s.files \in Seq(FileKinds) /\ s.files \o << >> = s.files
  BY ConcatEmptySeq DEF Between, ListStates
<1>3. CASE e.value = "text"
  <2>1. Flat(e) = <<Item(k, "text")>>
    BY <1>3 DEF Flat
  <2>2. Len(Flat(e)) = 1 /\ Flat(e)[1] = Item(k, "text")
    BY <2>1
  <2>3. h[a + 1] = ListEntry(s, Item(k, "text"))
    <3>1. 1 \in 1 .. Len(Flat(e)) /\ a + 1 - 1 = a
      BY <2>2
    <3> QED
      BY <2>2, <3>1
  <2>4. Own(e) = IF k \in Reserved /\ Mset(k) # "ctype" THEN <<Mset(k)>> ELSE << >>
    BY <1>3 DEF Own
  <2>5. /\ Between(h[a + 1])
        /\ h[a + 1].files = IF k \in Reserved /\ Mset(k) # "ctype"
                              THEN s.files \o <<Mset(k)>> ELSE s.files
    BY <1>1, <2>3, OuterText
  <2>6. h[a + 1].files = s.files \o Own(e)
    BY <1>2, <2>4, <2>5
  <2> QED
    BY <2>2, <2>5, <2>6
<1>4. CASE e.value = "list"
  <2>1. Flat(e) = <<Item(k, "table"), Item("0", "text"), Item("1", "text"),
                    Item("end", "end")>>
    BY <1>4 DEF Flat
  <2>2. /\ Len(Flat(e)) = 4 /\ Flat(e)[1] = Item(k, "table")
        /\ Flat(e)[2] = Item("0", "text") /\ Flat(e)[3] = Item("1", "text")
        /\ Flat(e)[4] = Item("end", "end")
    BY <2>1
  <2>3. /\ h[a + 1] = ListEntry(s, Item(k, "table"))
        /\ h[a + 2] = ListEntry(h[a + 1], Item("0", "text"))
        /\ h[a + 3] = ListEntry(h[a + 2], Item("1", "text"))
        /\ h[a + 4] = ListEntry(h[a + 3], Item("end", "end"))
    <3>1. /\ a + 1 - 1 = a /\ a + 2 - 1 = a + 1 /\ a + 3 - 1 = a + 2
          /\ a + 4 - 1 = a + 3 /\ {1, 2, 3, 4} \subseteq 1 .. Len(Flat(e))
      BY <2>2
    <3> QED
      BY <2>2, <3>1
  <2>4. k # "content-type" /\ (k \in Reserved => Mset(k) # "ctype")
    BY <1>1, <1>4, MsetIs DEF FileKinds
  <2>5. Own(e) = IF k \in Reserved THEN <<Mset(k), Mset(k)>> ELSE << >>
    BY <1>4, <2>4 DEF Own
  <2>6. /\ h[a + 1] \in ListStates /\ h[a + 1].depth = 2 /\ h[a + 1].files = s.files
        /\ k \in Reserved => h[a + 1].mset = Mset(k) /\ h[a + 1].mset \in FileKinds
                             /\ h[a + 1].type = "table"
        /\ k \notin Reserved => h[a + 1].mset \notin FileKinds
    BY <2>3, <2>4, OuterTable
  <2>7. /\ h[a + 2] \in ListStates /\ h[a + 2].depth = 2 /\ h[a + 2].type = h[a + 1].type
        /\ h[a + 2].mset = IF h[a + 1].type = "text" THEN "none" ELSE h[a + 1].mset
        /\ h[a + 2].files = IF h[a + 1].mset \in FileKinds
                              THEN h[a + 1].files \o <<h[a + 1].mset>>
                            ELSE h[a + 1].files
    BY <2>3, <2>6, InnerText
  <2>8. /\ h[a + 3] \in ListStates /\ h[a + 3].depth = 2
        /\ h[a + 3].files = IF h[a + 2].mset \in FileKinds
                              THEN h[a + 2].files \o <<h[a + 2].mset>>
                            ELSE h[a + 2].files
    BY <2>3, <2>7, InnerText
  <2>9. Between(h[a + 4]) /\ h[a + 4].files = h[a + 3].files
    BY <2>3, <2>8, InnerEnd
  <2>10. CASE k \in Reserved
    <3> DEFINE m == Mset(k)
    <3>1. m \in FileKinds /\ h[a + 1].type # "text"
      BY <2>6, <2>10
    <3>2. h[a + 4].files = (s.files \o <<m>>) \o <<m>>
      BY <2>6, <2>7, <2>8, <2>9, <2>10, <3>1
    <3>3. <<m>> \in Seq(FileKinds) /\ <<m>> \o <<m>> = <<m, m>>
      <4> HIDE DEF m
      <4>1. <<m>> \in Seq(FileKinds) /\ Len(<<m>>) = 1 /\ <<m>>[1] = m
        BY <3>1
      <4>2. <<m, m>> \in Seq(FileKinds) /\ Len(<<m, m>>) = 2
        BY <3>1
      <4>3. /\ Append(<<m>>, m) \in Seq(FileKinds) /\ Len(Append(<<m>>, m)) = 2
            /\ Append(<<m>>, m)[1] = m /\ Append(<<m>>, m)[2] = m
        BY <3>1, <4>1, AppendIs
      <4>4. \A i \in 1 .. 2 : Append(<<m>>, m)[i] = <<m, m>>[i]
        BY <4>3
      <4>5. Append(<<m>>, m) = <<m, m>>
        BY <4>2, <4>3, <4>4, SeqEqual
      <4> QED
        BY <3>1, <4>1, <4>5, AppendJoins
    <3>4. h[a + 4].files = s.files \o <<m, m>>
      <4>1. (s.files \o <<m>>) \o <<m>> = s.files \o (<<m>> \o <<m>>)
        <5> HIDE DEF m, s
        <5> QED
          BY <1>2, <3>3, ConcatAssociative
      <4> QED
        BY <3>2, <3>3, <4>1
    <3> QED
      BY <2>2, <2>5, <2>9, <2>10, <3>4
  <2>11. CASE k \notin Reserved
    <3>1. h[a + 2].mset \notin FileKinds
      BY <2>6, <2>7, <2>11 DEF FileKinds
    <3>2. h[a + 4].files = s.files
      BY <2>6, <2>7, <2>8, <2>9, <2>11, <3>1
    <3> QED
      BY <1>2, <2>2, <2>5, <2>9, <2>11, <3>2
  <2> QED
    BY <2>10, <2>11
<1>5. CASE e.value = "child"
  <2>1. Flat(e) = <<Item(k, "table"), Item("model", "text"), Item("end", "end")>>
    BY <1>5 DEF Flat
  <2>2. /\ Len(Flat(e)) = 3 /\ Flat(e)[1] = Item(k, "table")
        /\ Flat(e)[2] = Item("model", "text") /\ Flat(e)[3] = Item("end", "end")
    BY <2>1
  <2>3. /\ h[a + 1] = ListEntry(s, Item(k, "table"))
        /\ h[a + 2] = ListEntry(h[a + 1], Item("model", "text"))
        /\ h[a + 3] = ListEntry(h[a + 2], Item("end", "end"))
    <3>1. /\ a + 1 - 1 = a /\ a + 2 - 1 = a + 1 /\ a + 3 - 1 = a + 2
          /\ {1, 2, 3} \subseteq 1 .. Len(Flat(e))
      BY <2>2
    <3> QED
      BY <2>2, <3>1
  <2>4. k # "content-type" /\ (k \in Reserved => Mset(k) # "ctype")
    BY <1>1, <1>5, MsetIs DEF FileKinds
  <2>5. Own(e) = IF k \in Reserved THEN <<Mset(k)>> ELSE << >>
    BY <1>5, <2>4 DEF Own
  <2>6. /\ h[a + 1] \in ListStates /\ h[a + 1].depth = 2 /\ h[a + 1].files = s.files
        /\ k \in Reserved => h[a + 1].mset = Mset(k) /\ h[a + 1].mset \in FileKinds
        /\ k \notin Reserved => h[a + 1].mset \notin FileKinds
    BY <2>3, <2>4, OuterTable
  <2>7. /\ h[a + 2] \in ListStates /\ h[a + 2].depth = 2
        /\ h[a + 2].files = IF h[a + 1].mset \in FileKinds
                              THEN h[a + 1].files \o <<h[a + 1].mset>>
                            ELSE h[a + 1].files
    BY <2>3, <2>6, InnerText
  <2>8. Between(h[a + 3]) /\ h[a + 3].files = h[a + 2].files
    BY <2>3, <2>7, InnerEnd
  <2>9. h[a + 3].files = s.files \o Own(e)
    BY <1>2, <2>5, <2>6, <2>7, <2>8
  <2> QED
    BY <2>2, <2>8, <2>9
<1> QED
  BY <1>1, <1>3, <1>4, <1>5

FlatItems == [key : STRING \cup {"0", "1", "model", "end"},
              value : {"text", "table", "end"}]

LEMMA ListEntryTypes ==
  ASSUME NEW s \in ListStates, NEW e \in FlatItems
  PROVE  ListEntry(s, e) \in ListStates
<1> DEFINE named == s.depth = 1 /\ e.key \in Reserved
           mset == IF named THEN Mset(e.key) ELSE s.mset
           type == IF named THEN e.value ELSE s.type
           added == IF mset \in {"model", "query", "view"} /\ e.value = "text"
                      THEN Append(s.files, mset) ELSE s.files
           open == IF e.value = "end" \/ type = "text" THEN "none" ELSE mset
           depth == IF e.value = "end" THEN s.depth - 1 ELSE s.depth
<1>1. /\ s.depth \in Int /\ s.mset \in FileKinds \cup {"none", "ctype"}
      /\ s.type \in {"none", "text", "table", "end"} /\ s.files \in Seq(FileKinds)
      /\ e.value \in {"text", "table", "end"}
  BY DEF ListStates, FlatItems
<1>2. ListEntry(s, e) =
        IF named /\ mset = "ctype" THEN [s EXCEPT !.mset = mset, !.type = type]
        ELSE IF e.value = "table"
          THEN [s EXCEPT !.mset = mset, !.type = type, !.depth = s.depth + 1]
        ELSE [files |-> added, type |-> type, mset |-> open, depth |-> depth]
  BY DEF ListEntry
<1>3. mset \in FileKinds \cup {"none", "ctype"} /\ type \in {"none", "text", "table", "end"}
  BY <1>1, MsetIs
<1>4. open \in FileKinds \cup {"none", "ctype"} /\ depth \in Int /\ s.depth + 1 \in Int
  BY <1>1, <1>3
<1>5. added \in Seq(FileKinds)
  BY <1>1, <1>3, AppendProperties DEF FileKinds
<1> HIDE DEF named, mset, type, added, open, depth
<1>6. [s EXCEPT !.mset = mset, !.type = type] \in ListStates
  BY <1>3 DEF ListStates
<1>7. [s EXCEPT !.mset = mset, !.type = type, !.depth = s.depth + 1] \in ListStates
  BY <1>3, <1>4 DEF ListStates
<1>8. [files |-> added, type |-> type, mset |-> open, depth |-> depth] \in ListStates
  BY <1>3, <1>4, <1>5 DEF ListStates
<1> QED
  BY <1>2, <1>6, <1>7, <1>8

\* h is what make_mvc_list has made of the first i entries, for every i.
Listing(h, base, items) ==
  /\ h \in [0 .. Len(items) -> ListStates]
  /\ h[0] = base /\ FoldLeft(ListEntry, base, items) = h[Len(items)]
  /\ \A i \in 1 .. Len(items) : h[i] = ListEntry(h[i - 1], items[i])

LEMMA ListingIs ==
  ASSUME NEW base \in ListStates, NEW items \in Seq(FlatItems)
  PROVE  \E h : Listing(h, base, items)
<1> DEFINE n == Len(items)
           step == [p \in (1 .. n) \X ListStates |-> ListEntry(p[2], items[p[1]])]
<1>1. n \in Nat /\ DOMAIN items = 1 .. n /\ \A i \in 1 .. n : items[i] \in FlatItems
  BY LenProperties
<1>2. step \in [(1 .. n) \X ListStates -> ListStates]
  <2> SUFFICES ASSUME NEW p \in (1 .. n) \X ListStates
               PROVE  ListEntry(p[2], items[p[1]]) \in ListStates
    OBVIOUS
  <2> QED
    BY <1>1, ListEntryTypes
<1>3. PICK G : Folding(G, n, ListStates, base, step)
  <2> HIDE DEF n, step
  <2> QED
    BY <1>1, <1>2, FoldExists
<1>4. /\ G \in [SUBSET (1 .. n) -> ListStates] /\ G[{}] = base
      /\ \A s \in SUBSET (1 .. n) :
           s # {} => G[s] = step[<<Max(s), G[s \ {Max(s)}]>>]
  BY <1>3, Zenon DEF Folding
<1>5. ASSUME NEW s \in SUBSET (1 .. n), s # {}
      PROVE  G[s] = ListEntry(G[s \ {Max(s)}], items[Max(s)])
  <2>1. Max(s) \in 1 .. n
    <3>1. s \subseteq 0 .. n
      OBVIOUS
    <3> QED
      BY <1>1, <1>5, <3>1, GreatestUpTo
  <2>2. G[s \ {Max(s)}] \in ListStates
    <3>1. s \ {Max(s)} \in SUBSET (1 .. n)
      OBVIOUS
    <3> HIDE DEF n, step
    <3> QED
      BY <1>4, <3>1
  <2>3. <<Max(s), G[s \ {Max(s)}]>> \in (1 .. n) \X ListStates
    BY <2>1, <2>2
  <2>4. step[<<Max(s), G[s \ {Max(s)}]>>] = ListEntry(G[s \ {Max(s)}], items[Max(s)])
    BY <2>3
  <2> QED
    BY <1>4, <1>5, <2>4
<1> DEFINE Eq(f) == f = [s \in SUBSET DOMAIN items |->
                           IF s = {} THEN base
                           ELSE ListEntry(f[s \ {Max(s)}], items[Max(s)])]
<1>6. Eq(G)
  <2>1. SUBSET DOMAIN items = SUBSET (1 .. n)
    BY <1>1
  <2>2. ASSUME NEW s \in SUBSET (1 .. n)
        PROVE  G[s] = IF s = {} THEN base
                      ELSE ListEntry(G[s \ {Max(s)}], items[Max(s)])
    BY <1>4, <1>5
  <2> HIDE DEF n
  <2> QED
    BY <1>4, <2>1, <2>2
<1>7. FoldLeft(ListEntry, base, items) = (CHOOSE f : Eq(f))[DOMAIN items]
  BY DEF FoldLeft, MapThenFoldSet
<1>8. PICK F : Eq(F) /\ FoldLeft(ListEntry, base, items) = F[DOMAIN items]
  <2> HIDE DEF Eq
  <2> QED
    BY <1>6, <1>7
<1> DEFINE h == [i \in 0 .. n |-> G[1 .. i]]
<1>9. \A i \in 0 .. n : 1 .. i \in SUBSET (1 .. n)
  BY <1>1
<1>10. h \in [0 .. n -> ListStates] /\ h[0] = base
  <2>1. \A i \in 0 .. n : G[1 .. i] \in ListStates
    <3> HIDE DEF n
    <3> QED
      BY <1>4, <1>9
  <2>2. 1 .. 0 = {} /\ 0 \in 0 .. n
    BY <1>1
  <2>3. h[0] = base
    BY <1>4, <2>2
  <2>4. h \in [0 .. n -> ListStates]
    BY <2>1
  <2> QED
    BY <2>3, <2>4
<1>11. ASSUME NEW i \in 1 .. n
       PROVE  /\ h[i] = ListEntry(h[i - 1], items[i])
              /\ F[1 .. i] = ListEntry(F[1 .. (i - 1)], items[i])
  <2>1. Max(1 .. i) = i /\ (1 .. i) \ {i} = 1 .. (i - 1)
    BY <1>1, UpToMax
  <2>2. i \in 0 .. n /\ i - 1 \in 0 .. n /\ 1 .. i # {}
    BY <1>1
  <2>3. G[1 .. i] = ListEntry(G[1 .. (i - 1)], items[i])
    BY <1>5, <1>9, <2>1, <2>2
  <2>4. F[1 .. i] = ListEntry(F[1 .. (i - 1)], items[i])
    <3>1. 1 .. i \in SUBSET DOMAIN items
      BY <1>1, <1>9, <2>2
    <3> QED
      BY <1>8, <2>1, <2>2, <3>1
  <2> QED
    BY <2>2, <2>3, <2>4
<1>12. {i \in 0 .. n : F[1 .. i] = h[i]} = 0 .. n
  <2> DEFINE H == {i \in 0 .. n : F[1 .. i] = h[i]}
  <2>1. 0 \in H
    <3>1. 1 .. 0 = {} /\ {} \in SUBSET DOMAIN items /\ 0 \in 0 .. n
      BY <1>1
    <3>2. F[{}] = base
      BY <1>8, <3>1
    <3> QED
      BY <1>10, <3>1, <3>2
  <2>2. ASSUME NEW i \in 1 .. n, i - 1 \in H PROVE i \in H
    <3>1. F[1 .. (i - 1)] = h[i - 1]
      BY <2>2
    <3>2. i \in 0 .. n
      BY <1>1
    <3> HIDE DEF h, n, Eq
    <3> QED
      BY <1>11, <3>1, <3>2
  <2>3. H \subseteq 0 .. n
    OBVIOUS
  <2> HIDE DEF H
  <2>4. H = 0 .. n
    BY <1>1, <2>1, <2>2, <2>3, UpTo
  <2> QED
    BY <2>4 DEF H
<1>13. FoldLeft(ListEntry, base, items) = h[n]
  <2>1. n \in 0 .. n
    BY <1>1
  <2>2. F[1 .. n] = h[n]
    <3> HIDE DEF h, n, Eq
    <3> QED
      BY <1>12, <2>1
  <2> HIDE DEF Eq, h
  <2> QED
    BY <1>1, <1>8, <2>2
<1>14. Listing(h, base, items)
  <2> HIDE DEF h
  <2> QED
    BY <1>10, <1>11, <1>13 DEF Listing
<1> QED
  BY <1>14

\* Each sequence has its place in what is joined.
Placed(g, q) ==
  \A k \in 1 .. Len(q) :
    /\ Len(g[k]) = Len(g[k - 1]) + Len(q[k]) /\ Len(g[k]) <= Len(g[Len(q)])
    /\ \A j \in 1 .. Len(q[k]) : g[Len(q)][Len(g[k - 1]) + j] = q[k][j]

LEMMA JoiningPlaces ==
  ASSUME NEW S, NEW q \in Seq(Seq(S)), NEW g, Joining(g, q, S)
  PROVE  Placed(g, q)
<1> DEFINE n == Len(q)
<1>1. n \in Nat /\ \A i \in 1 .. n : q[i] \in Seq(S) /\ Len(q[i]) \in Nat
  OBVIOUS
<1>2. /\ \A i \in 0 .. n : g[i] \in Seq(S) /\ Len(g[i]) \in Nat
      /\ \A i \in 1 .. n : g[i] = g[i - 1] \o q[i]
  BY <1>1 DEF Joining
<1>3. ASSUME NEW i \in 1 .. n
      PROVE  /\ Len(g[i]) = Len(g[i - 1]) + Len(q[i])
             /\ \A j \in 1 .. Len(g[i - 1]) : g[i][j] = g[i - 1][j]
             /\ \A j \in 1 .. Len(q[i]) : g[i][Len(g[i - 1]) + j] = q[i][j]
  <2>1. /\ i - 1 \in 0 .. n /\ g[i - 1] \in Seq(S) /\ q[i] \in Seq(S)
        /\ Len(g[i - 1]) \in Nat /\ Len(q[i]) \in Nat
    BY <1>1, <1>2
  <2> DEFINE a == g[i - 1]
             b == q[i]
  <2>2. g[i] = a \o b
    BY <1>2
  <2>3. a \in Seq(S) /\ b \in Seq(S) /\ Len(a) \in Nat /\ Len(b) \in Nat
    BY <2>1
  <2> HIDE DEF a, b
  <2>4. /\ Len(a \o b) = Len(a) + Len(b)
        /\ \A j \in 1 .. Len(a) + Len(b) :
             (a \o b)[j] = IF j <= Len(a) THEN a[j] ELSE b[j - Len(a)]
    BY <2>3, ConcatProperties
  <2>5. \A j \in 1 .. Len(a) : (a \o b)[j] = a[j]
    BY <2>3, <2>4
  <2>6. ASSUME NEW j \in 1 .. Len(b) PROVE (a \o b)[Len(a) + j] = b[j]
    <3>1. Len(a) + j \in 1 .. Len(a) + Len(b) /\ ~(Len(a) + j <= Len(a))
          /\ (Len(a) + j) - Len(a) = j
      BY <2>3
    <3> QED
      BY <2>4, <3>1
  <2> QED
    BY <2>2, <2>4, <2>5, <2>6 DEF a, b
<1> DEFINE Begins(m, k) == /\ Len(g[m]) <= Len(g[k])
                           /\ \A j \in 1 .. Len(g[m]) : g[k][j] = g[m][j]
           H == {k \in 0 .. n : \A m \in 0 .. k : Begins(m, k)}
<1>4. 0 \in H
  <2>1. 0 \in 0 .. n /\ \A m \in 0 .. 0 : m = 0
    BY <1>1
  <2>2. Begins(0, 0)
    BY <1>2, <2>1
  <2> HIDE DEF Begins, n
  <2> QED
    BY <2>1, <2>2
<1>5. ASSUME NEW k \in 1 .. n, k - 1 \in H PROVE k \in H
  <2>1. k \in 0 .. n /\ k - 1 \in 0 .. n
    BY <1>1
  <2>2. ASSUME NEW m \in 0 .. k PROVE Begins(m, k)
    <3>1. Len(g[k]) \in Nat /\ Len(g[k - 1]) \in Nat /\ Len(q[k]) \in Nat
      BY <1>1, <1>2, <2>1
    <3>2. CASE m = k
      BY <3>1, <3>2
    <3>3. CASE m # k
      <4>1. m \in 0 .. k - 1 /\ m \in 0 .. n
        BY <1>1, <3>3
      <4>2. Begins(m, k - 1)
        <5> HIDE DEF Begins, n
        <5> QED
          BY <1>5, <4>1
      <4>3. Len(g[m]) \in Nat
        BY <1>2, <4>1
      <4>4. Len(g[m]) <= Len(g[k])
        <5>1. Len(g[k]) = Len(g[k - 1]) + Len(q[k])
          BY <1>3
        <5>2. Len(g[m]) <= Len(g[k - 1])
          BY <4>2
        <5>3. \A a, b, c \in Nat : a <= b => a <= b + c
          OBVIOUS
        <5> QED
          BY <3>1, <4>3, <5>1, <5>2, <5>3
      <4>5. ASSUME NEW j \in 1 .. Len(g[m]) PROVE g[k][j] = g[m][j]
        <5>1. g[k - 1][j] = g[m][j] /\ j \in 1 .. Len(g[k - 1])
          BY <3>1, <4>2, <4>3
        <5> QED
          BY <1>3, <5>1
      <4> QED
        BY <4>4, <4>5
    <3> QED
      BY <3>2, <3>3
  <2> HIDE DEF Begins, n
  <2> QED
    BY <2>1, <2>2
<1>6. H = 0 .. n
  <2>1. H \subseteq 0 .. n
    OBVIOUS
  <2> HIDE DEF H
  <2> QED
    BY <1>1, <1>4, <1>5, <2>1, UpTo
<1>7. \A k \in 0 .. n : Begins(k, n)
  <2>1. n \in 0 .. n
    BY <1>1
  <2> HIDE DEF Begins, n
  <2> QED
    BY <1>6, <2>1
<1>8. ASSUME NEW k \in 1 .. n
      PROVE  /\ Len(g[k]) = Len(g[k - 1]) + Len(q[k]) /\ Len(g[k]) <= Len(g[n])
             /\ \A j \in 1 .. Len(q[k]) : g[n][Len(g[k - 1]) + j] = q[k][j]
  <2>1. k \in 0 .. n /\ k - 1 \in 0 .. n
    BY <1>1
  <2>2. Begins(k, n) /\ Len(g[k]) \in Nat /\ Len(g[k - 1]) \in Nat /\ Len(q[k]) \in Nat
    BY <1>1, <1>2, <1>7, <2>1
  <2>3. ASSUME NEW j \in 1 .. Len(q[k]) PROVE g[n][Len(g[k - 1]) + j] = q[k][j]
    <3>1. Len(g[k - 1]) + j \in 1 .. Len(g[k])
      <4>1. Len(g[k]) = Len(g[k - 1]) + Len(q[k])
        BY <1>3
      <4>2. \A a, b \in Nat : \A i \in 1 .. b : a + i \in 1 .. a + b
        OBVIOUS
      <4> QED
        BY <2>2, <4>1, <4>2
    <3>2. g[n][Len(g[k - 1]) + j] = g[k][Len(g[k - 1]) + j]
      BY <2>2, <3>1
    <3> QED
      BY <1>3, <3>2
  <2> QED
    BY <1>3, <2>2, <2>3
<1> QED
  BY <1>8 DEF Placed

OwnOf(t) == [i \in DOMAIN t |-> Own(t[i])]

\* The files that make_mvc_list finds are those of the entries, joined.
LEMMA MvcFiles ==
  ASSUME NEW t \in RouteTables
  PROVE  MvcList(t) \in Seq(FileKinds) /\ MvcList(t) = FlattenSeq(OwnOf(t))
<1> DEFINE n == Len(t)
           q == [i \in DOMAIN t |-> Flat(t[i])]
           w == OwnOf(t)
           base == [depth |-> 1, mset |-> "none", type |-> "none", files |-> << >>]
           items == FlattenSeq(q)
<1>1. /\ t \in Seq([key : STRING, value : {"text", "list", "child"}])
      /\ n \in Nat /\ DOMAIN t = 1 .. n /\ \A i \in 1 .. n : RouteEntry(t[i])
  <2>1. t \in Seq([key : STRING, value : {"text", "list", "child"}])
    BY FilterAssumption
  <2>2. n \in Nat /\ DOMAIN t = 1 .. n
    BY <2>1, LenProperties
  <2>3. ASSUME NEW i \in 1 .. n PROVE RouteEntry(t[i])
    <3>1. t[i] \in [key : STRING, value : {"text", "list", "child"}]
      BY <2>1, ElementOfSeq
    <3>2. t[i].key = "content-type" => t[i].value = "text"
      BY <2>2, FilterAssumption
    <3> QED
      BY <3>1, <3>2 DEF RouteEntry
  <2> QED
    BY <2>1, <2>2, <2>3
<1>2. \A i \in 1 .. n : Flat(t[i]) \in Seq(FlatItems) /\ Own(t[i]) \in Seq(FileKinds)
  <2> TAKE i \in 1 .. n
  <2>1. RouteEntry(t[i]) /\ t[i].key \in STRING /\ t[i].value \in {"text", "list", "child"}
    BY <1>1 DEF RouteEntry
  <2>2. \A k \in STRING \cup {"0", "1", "model", "end"}, v \in {"text", "table", "end"} :
          Item(k, v) \in FlatItems
    BY DEF Item, FlatItems
  <2>3. Flat(t[i]) \in Seq(FlatItems)
    <3>1. /\ Item(t[i].key, "text") \in FlatItems /\ Item(t[i].key, "table") \in FlatItems
          /\ Item("0", "text") \in FlatItems /\ Item("1", "text") \in FlatItems
          /\ Item("model", "text") \in FlatItems /\ Item("end", "end") \in FlatItems
      BY <2>1, <2>2
    <3> HIDE DEF Item
    <3> QED
      BY <2>1, <3>1 DEF Flat
  <2>4. Own(t[i]) \in Seq(FileKinds)
    BY MsetIs DEF Own
  <2> QED
    BY <2>3, <2>4
<1>3. /\ q \in Seq(Seq(FlatItems)) /\ Len(q) = n /\ \A i \in 1 .. n : q[i] = Flat(t[i])
      /\ w \in Seq(Seq(FileKinds)) /\ Len(w) = n /\ \A i \in 1 .. n : w[i] = Own(t[i])
  BY <1>1, <1>2 DEF OwnOf
<1> HIDE DEF w, q
<1>4. PICK g : Joining(g, q, FlatItems)
  BY <1>3, FlattenIs
<1>5. PICK o : Joining(o, w, FileKinds)
  BY <1>3, FlattenIs
<1>6. /\ g \in [0 .. n -> Seq(FlatItems)] /\ g[0] = << >> /\ items = g[n]
      /\ o \in [0 .. n -> Seq(FileKinds)] /\ o[0] = << >> /\ FlattenSeq(w) = o[n]
      /\ \A i \in 1 .. n : o[i] = o[i - 1] \o w[i]
  BY <1>3, <1>4, <1>5 DEF Joining
<1>7. items \in Seq(FlatItems) /\ base \in ListStates /\ Between(base)
  <2>1. items \in Seq(FlatItems)
    BY <1>1, <1>6
  <2>2. base \in ListStates
    BY DEF ListStates
  <2> QED
    BY <2>1, <2>2 DEF Between
<1> HIDE DEF base, items
<1>8. PICK h : Listing(h, base, items)
  BY <1>7, ListingIs
<1>9. /\ h[0] = base /\ FoldLeft(ListEntry, base, items) = h[Len(items)]
      /\ \A i \in 1 .. Len(items) : h[i] = ListEntry(h[i - 1], items[i])
  BY <1>8 DEF Listing
<1> DEFINE H == {k \in 0 .. n : /\ Between(h[Len(g[k])])
                                /\ h[Len(g[k])].files = o[k]}
<1>10. 0 \in H
  <2>1. 0 \in 0 .. n /\ Len(g[0]) = 0 /\ base.files = << >>
    BY <1>1, <1>6 DEF base
  <2> QED
    BY <1>6, <1>7, <1>9, <2>1
<1>11. ASSUME NEW k \in 1 .. n, k - 1 \in H PROVE k \in H
  <2> DEFINE a == Len(g[k - 1])
             e == t[k]
  <2>1. k \in 0 .. n /\ k - 1 \in 0 .. n /\ k \in 1 .. Len(q)
    BY <1>1, <1>3
  <2>2. /\ Len(g[k]) = a + Len(q[k]) /\ Len(g[k]) <= Len(g[n])
        /\ \A j \in 1 .. Len(q[k]) : g[n][a + j] = q[k][j]
    <3>1. Placed(g, q)
      BY <1>3, <1>4, JoiningPlaces
    <3> QED
      BY <1>3, <2>1, <3>1 DEF Placed
  <2>3. q[k] = Flat(e) /\ w[k] = Own(e) /\ RouteEntry(e) /\ Flat(e) \in Seq(FlatItems)
    BY <1>1, <1>2, <1>3
  <2>4. Between(h[a]) /\ h[a].files = o[k - 1]
    BY <1>11
  <2>5. a \in Nat /\ Len(Flat(e)) \in Nat /\ Len(items) \in Nat /\ Len(items) = Len(g[n])
    BY <1>6, <1>7, <2>1, <2>3, LenProperties
  <2>6. ASSUME NEW j \in 1 .. Len(Flat(e))
        PROVE  h[a + j] = ListEntry(h[a + j - 1], Flat(e)[j])
    <3>1. a + j \in 1 .. Len(items)
      <4>1. a + Len(Flat(e)) <= Len(items)
        BY <2>2, <2>3, <2>5
      <4> HIDE DEF a
      <4> QED
        BY <2>5, <4>1
    <3>2. items[a + j] = Flat(e)[j]
      BY <1>6, <2>2, <2>3
    <3>3. PICK i \in 1 .. Len(items) : i = a + j
      BY <3>1
    <3>4. h[i] = ListEntry(h[i - 1], items[i])
      BY <1>9
    <3> QED
      BY <3>2, <3>3, <3>4
  <2>7. /\ Between(h[a + Len(Flat(e))])
        /\ h[a + Len(Flat(e))].files = h[a].files \o Own(e)
    <3> HIDE DEF a, e
    <3> QED
      BY <2>3, <2>4, <2>5, <2>6, EntryKeeps
  <2>8. h[Len(g[k])].files = o[k]
    BY <1>6, <2>2, <2>3, <2>4, <2>7
  <2> QED
    BY <2>1, <2>2, <2>3, <2>7, <2>8
<1>12. H = 0 .. n
  <2>1. H \subseteq 0 .. n
    OBVIOUS
  <2> HIDE DEF H, n
  <2> QED
    BY <1>1, <1>10, <1>11, <2>1, UpTo
<1>13. n \in H
  BY <1>1, <1>12
<1>14. h[Len(items)].files = FlattenSeq(w)
  BY <1>6, <1>13
<1>15. MvcList(t) = h[Len(items)].files
  BY <1>9, Zenon DEF MvcList, base, items, q
<1>16. FlattenSeq(w) \in Seq(FileKinds)
  <2>1. n \in 0 .. n
    BY <1>1
  <2> QED
    BY <1>6, <2>1
<1> QED
  BY <1>14, <1>15, <1>16 DEF w

\* The stack lua_merge leaves has a table with all keys on top, or one of the
\* values that have none.
LEMMA MergeTop ==
  ASSUME NEW s \in Seq(Values), Len(s) > 0
  PROVE  /\ Merge(s).stack \in Seq(Values) /\ Len(Merge(s).stack) > 0
         /\ \/ \E i \in DOMAIN s : s[i].keys = {} /\ Last(Merge(s).stack) = s[i]
            \/ /\ \A i \in DOMAIN s : s[i].keys # {}
               /\ Last(Merge(s).stack).keys = UNION {s[i].keys : i \in DOMAIN s}
               /\ Last(Merge(s).stack).keys # {}
               /\ Len(s) = 1 => Last(Merge(s).stack) = s[1]
               /\ Len(s) > 1 => Last(Merge(s).stack).kind = "table"
<1>1. CASE Len(s) < 2
  <2>0. Len(s) = 1 /\ DOMAIN s = {1}
    <3>1. Len(s) \in Nat /\ DOMAIN s = 1 .. Len(s)
      BY LenProperties
    <3>2. Len(s) = 1
      BY <1>1, <3>1
    <3> QED
      BY <3>1, <3>2
  <2>1. Merge(s).stack = s
    <3>1. Merge(s) = [stack |-> s, panic |-> FALSE]
      BY <1>1, Zenon DEF Merge
    <3> QED
      BY <3>1
  <2>2. Last(s) = s[1]
    BY <2>0 DEF Last
  <2>3. UNION {s[i].keys : i \in DOMAIN s} = s[1].keys
    BY <2>0
  <2>4. Last(Merge(s).stack) = s[1] /\ 1 \in DOMAIN s
    BY <2>0, <2>1, <2>2
  <2>5. \A i \in DOMAIN s : s[i] = s[1]
    BY <2>0
  <2>6. ~(Len(s) > 1)
    BY <2>0
  <2> QED
    BY <2>0, <2>1, <2>3, <2>4, <2>5, <2>6, Zenon
<1>2. CASE Len(s) >= 2
  <2> DEFINE keyless == {i \in DOMAIN s : s[i].keys = {}}
             keys == (UNION {s[i].keys : i \in DOMAIN s})
                       \cup (IF keyless = {} THEN {} ELSE {<<"item", 0>>})
             top == Max(keyless \cup {0})
             left == SubSeq(s, 1, top)
  <2>1. Merge(s).stack = <<Table(keys)>> \o left
    <3>1. ~(Len(s) < 2)
      BY <1>2
    <3>2. Merge(s) = [stack |-> <<Table(keys)>> \o left,
                      panic |-> \E i \in keyless, j \in DOMAIN s \ keyless : j < i]
      BY <3>1, Zenon DEF Merge
    <3> HIDE DEF keys, left, keyless
    <3> QED
      BY <3>2
  <2>2. keyless \cup {0} \subseteq 0 .. Len(s) /\ Len(s) \in Nat
    OBVIOUS
  <2>3. top \in keyless \cup {0} /\ \A k \in keyless \cup {0} : k <= top
    BY <2>2, GreatestUpTo
  <2>4. top \in 0 .. Len(s)
    BY <2>2, <2>3
  <2>5. keys \subseteq Keys
    <3>1. \A i \in DOMAIN s : s[i].keys \subseteq Keys
      <4> TAKE i \in DOMAIN s
      <4>1. s[i] \in Values
        OBVIOUS
      <4> QED
        BY <4>1 DEF Values
    <3>2. <<"item", 0>> \in Keys
      BY DEF Keys
    <3> HIDE DEF keyless
    <3>3. UNION {s[i].keys : i \in DOMAIN s} \subseteq Keys
      BY <3>1
    <3> QED
      BY <3>2, <3>3
  <2>6. Table(keys) \in Values
    BY <2>5 DEF Table, Values
  <2> HIDE DEF keys, top
  <2>7. /\ left \in Seq(Values) /\ Len(left) = top
        /\ \A i \in 1 .. top : left[i] = s[i]
    <3>1. \A i \in 1 .. top : s[i] \in Values
      BY <2>4
    <3> QED
      BY <2>4, <3>1, SubSeqProperties
  <2> HIDE DEF left
  <2>8. /\ Merge(s).stack \in Seq(Values) /\ Len(Merge(s).stack) = top + 1
        /\ Merge(s).stack[1] = Table(keys)
        /\ \A i \in 1 .. top : Merge(s).stack[i + 1] = s[i]
    BY <2>1, <2>4, <2>6, <2>7
  <2>9. CASE keyless = {}
    <3>1. top = 0
      BY <2>3, <2>9
    <3>2. Last(Merge(s).stack) = Table(keys)
      BY <2>8, <3>1 DEF Last
    <3>3. s[1].keys # {} /\ 1 \in DOMAIN s
      BY <2>9, <1>2
    <3>4. keys = UNION {s[i].keys : i \in DOMAIN s}
      BY <2>9 DEF keys
    <3>5. keys # {}
      BY <3>3, <3>4
    <3>6. \A i \in DOMAIN s : s[i].keys # {}
      BY <2>9
    <3> HIDE DEF keyless
    <3> QED
      BY <1>2, <2>8, <3>1, <3>2, <3>4, <3>5, <3>6 DEF Table
  <2>10. CASE keyless # {}
    <3>1. top \in keyless
      BY <2>2, <2>3, <2>10
    <3>2. Last(Merge(s).stack) = s[top]
      BY <2>8, <3>1 DEF Last
    <3> QED
      BY <2>8, <3>1, <3>2
  <2> QED
    BY <2>9, <2>10
<1> QED
  BY <1>1, <1>2

\* lua_merge raises an error only for a value without keys.
LEMMA MergePanic ==
  ASSUME NEW s, Merge(s).panic
  PROVE  \E i \in DOMAIN s : s[i].keys = {} /\ \E j \in DOMAIN s : s[j].keys # {} /\ j < i
BY DEF Merge

\* Where the tables of several files end up on the stack.
LEMMA CombinedKey ==
  ASSUME NEW hasRoutes \in BOOLEAN, NEW n \in Nat, n + (IF hasRoutes THEN 1 ELSE 0) > 0
  PROVE  LET s == Combined(hasRoutes, n)
             tables == n + (IF hasRoutes THEN 1 ELSE 0)
         IN /\ tables < 2 <=> s[Len(s) - 1] = "config"
            /\ tables = 2 <=> s[Len(s) - 1] = "key"
<1> DEFINE a == IF hasRoutes THEN <<"routes">> ELSE << >>
           b == [i \in 1 .. n |-> "file"]
           s == <<"config">> \o a \o b
           t == n + (IF hasRoutes THEN 1 ELSE 0)
           f == SubSeq(s, 1, Len(s) - 1)
<1>1. /\ s \in Seq({"config", "routes", "file"}) /\ Len(s) = t + 1
      /\ s[1] = "config" /\ \A i \in 2 .. t + 1 : s[i] \in {"routes", "file"}
  <2>1. b \in Seq({"file"}) /\ Len(b) = n /\ \A i \in 1 .. n : b[i] = "file"
    OBVIOUS
  <2>2. CASE hasRoutes
    BY <2>1, <2>2
  <2>3. CASE ~hasRoutes
    BY <2>1, <2>3
  <2> QED
    BY <2>2, <2>3
<1>2. t \in Nat \ {0}
  OBVIOUS
<1> HIDE DEF s, t
<1>3. /\ f \in Seq({"config", "routes", "file"}) /\ Len(f) = t
      /\ f[1] = "config" /\ \A i \in 2 .. t : f[i] \in {"routes", "file"}
  BY <1>1, <1>2
<1> HIDE DEF f
<1>4. Combined(hasRoutes, n) = SubSeq(f, 1, 1) \o <<"key">> \o SubSeq(f, 2, Len(f))
  BY DEF Combined, InsertAt, Front, s, a, b, f
<1>5. SubSeq(f, 1, 1) = <<"config">>
  <2>1. /\ Len(SubSeq(f, 1, 1)) = 1 /\ SubSeq(f, 1, 1)[1] = "config"
        /\ SubSeq(f, 1, 1) \in Seq({"config", "routes", "file"})
    <3>1. 1 \in 1 .. t /\ f[1] \in {"config", "routes", "file"}
      BY <1>2, <1>3
    <3>2. \A i \in 1 .. 1 : f[i] \in {"config", "routes", "file"}
      BY <3>1
    <3> QED
      BY <1>3, <3>2, SubSeqProperties
  <2> DEFINE h == SubSeq(f, 1, 1)
  <2>2. /\ <<"config">> \in Seq({"config", "routes", "file"})
        /\ Len(<<"config">>) = 1 /\ <<"config">>[1] = "config"
    OBVIOUS
  <2> HIDE DEF h
  <2>3. Len(h) = Len(<<"config">>) /\ \A i \in 1 .. Len(h) : h[i] = <<"config">>[i]
    BY <2>1, <2>2 DEF h
  <2>4. h = <<"config">>
    BY <2>1, <2>2, <2>3, SeqEqual DEF h
  <2> QED
    BY <2>4 DEF h
<1>6. /\ Len(SubSeq(f, 2, Len(f))) = t - 1
      /\ SubSeq(f, 2, Len(f)) \in Seq({"config", "routes", "file"})
      /\ \A i \in 1 .. t - 1 : SubSeq(f, 2, Len(f))[i] = f[i + 1]
  BY <1>2, <1>3
<1> DEFINE g == SubSeq(f, 2, Len(f))
           c == <<"config">> \o <<"key">> \o g
<1> HIDE DEF g
<1>7. /\ Len(c) = t + 1 /\ c[1] = "config" /\ c[2] = "key"
      /\ \A i \in 1 .. t - 1 : c[i + 2] = g[i]
  BY <1>2, <1>6 DEF g
<1>8. Combined(hasRoutes, n) = c
  BY <1>4, <1>5 DEF g
<1> HIDE DEF c
<1>9. c[Len(c) - 1] = c[t]
  BY <1>2, <1>7
<1>10. t = 1 => c[t] = "config"
  BY <1>7
<1>11. t = 2 => c[t] = "key"
  BY <1>7
<1>12. t > 2 => c[t] \in {"routes", "file"}
  <2> SUFFICES ASSUME t > 2 PROVE c[t] \in {"routes", "file"}
    OBVIOUS
  <2>1. t - 2 \in 1 .. t - 1 /\ (t - 2) + 2 = t /\ (t - 2) + 1 \in 2 .. t
    BY <1>2
  <2>2. c[t] = g[t - 2] /\ g[t - 2] = f[(t - 2) + 1]
    BY <1>6, <1>7, <2>1 DEF g
  <2> QED
    BY <1>3, <2>1, <2>2
<1> QED
  BY <1>2, <1>8, <1>9, <1>10, <1>11, <1>12 DEF t

-----------------------------------------------------------------------------
(* Every step keeps LuaInv: what the steps have in common.                 *)

Underway == pc \notin {"done", "crash"}

LEMMA SetTypes ==
  ASSUME NEW r \in Sets, r.set
  PROVE  r \in [set : {TRUE}, delay : BOOLEAN, status : BOOLEAN,
                content : {"none", "text", "null"}, clen : BOOLEAN,
                file : {"none", "ok", "missing"}, headers : Nat, bad : BOOLEAN]
<1>1. NoResponse.set = FALSE
  BY DEF NoResponse
<1>2. r # NoResponse
  BY <1>1, Zenon
<1>3. r \in Responses
  BY <1>2 DEF Sets
<1> QED
  BY <1>3, FilterAssumption, Zenon

\* What only names the cause of a way out changes nothing the invariant is about.
LEMMA CauseOnly ==
  ASSUME LuaTypes, NEW cause \in Causes, ld' = [ld EXCEPT !.cause = cause]
  PROVE  /\ ld' \in LdType /\ ld'.cause = cause
         /\ ld'.table = ld.table /\ ld'.files = ld.files /\ ld'.at = ld.at
         /\ ld'.stack = ld.stack /\ ld'.tcount = ld.tcount
         /\ ld'.model = ld.model /\ ld'.response = ld.response
         /\ ld'.zmodel = ld.zmodel /\ ld'.returned = ld.returned
         /\ ld'.responses = ld.responses
<1>1. ld \in LdType
  BY DEF LuaTypes, LdType
<1> QED
  BY <1>1 DEF LdType

\* The parts of the invariant about models and responses on a way out.
LEMMA OutKeeps ==
  ASSUME LuaInv, pc' \in {"done", "crash"},
         ld'.stack = ld.stack, ld'.tcount = ld.tcount, ld'.model = ld.model,
         ld'.response = ld.response, ld'.returned = ld.returned,
         ld'.responses = ld.responses, pc # "crash"
  PROVE  HeldInv' /\ StackInv' /\ ResponseInv' /\ RanInv' /\ ModelInv' /\ ViewInv'
<1>1. HeldInv' /\ StackInv' /\ RanInv' /\ ViewInv'
  BY DEF HeldInv, StackInv, RanInv, ViewInv
<1>2. ResponseInv'
  BY DEF LuaInv, ResponseInv
<1>3. ModelInv'
  BY DEF LuaInv, ModelInv, TablesReturned, Valueless, ModelKeys
<1> QED
  BY <1>1, <1>2, <1>3

LEMMA FailKeeps ==
  ASSUME LuaInv, Underway, NEW status \in Nat, NEW lost, NEW cause \in Causes,
         lost \cap (Ld \cup {"fd"}) = {},
         "rt" \in lost => cause \in {"table", "response"},
         "table" \in lost => cause \in {"noroute", "manytables"},
         Fail(status, lost, cause)
  PROVE  LuaInv'
<1>1. /\ pc' = "done" /\ ld' = [ld EXCEPT !.cause = cause]
      /\ res' = [status |-> status, body |-> "error", msg |-> TRUE, headers |-> 0]
      /\ held' = (held \ Ld) \cup lost \cup {"errmsg"}
                   \cup (IF res.headers > 0 THEN {"headers"} ELSE {})
  BY DEF Fail, HttpError
<1>2. LuaTypes
  BY DEF LuaInv
<1>3. /\ ld' \in LdType /\ ld'.cause = cause
      /\ ld'.table = ld.table /\ ld'.files = ld.files /\ ld'.at = ld.at
      /\ ld'.stack = ld.stack /\ ld'.tcount = ld.tcount
      /\ ld'.model = ld.model /\ ld'.response = ld.response
      /\ ld'.zmodel = ld.zmodel /\ ld'.returned = ld.returned
      /\ ld'.responses = ld.responses
  BY <1>1, <1>2, CauseOnly
<1>4. LuaTypes'
  BY <1>1, <1>3 DEF LuaTypes, LdType
<1>5. HeldInv' /\ StackInv' /\ ResponseInv' /\ RanInv' /\ ModelInv' /\ ViewInv'
  BY <1>1, <1>3, OutKeeps DEF Underway
<1>6. NothingLeaks'
  <2>1. res'.body = "error"
    BY <1>1
  <2>2. held \subseteq Ld \cup {"rt", "content"} /\ ("rt" \in held => Delayed)
    BY DEF LuaInv, HeldInv, Underway
  <2>3. held' \cap Ld = {} /\ "fd" \notin held'
    BY <1>1, <2>2 DEF Ld
  <2>4. "rt" \in held' => Delayed \/ cause \in {"table", "response"}
    BY <1>1, <2>2
  <2>5. "table" \in held' => cause \in {"noroute", "manytables"}
    BY <1>1, <2>2 DEF Ld
  <2>6. Delayed' <=> Delayed
    BY <1>3 DEF Delayed
  <2> QED
    BY <1>3, <2>1, <2>3, <2>4, <2>5, <2>6 DEF NothingLeaks, Answered, Done
<1>7. CrashCauses' /\ AnswerSource'
  BY <1>1 DEF CrashCauses, AnswerSource, Answered, Done
<1> QED
  BY <1>4, <1>5, <1>6, <1>7 DEF LuaInv

LEMMA CrashKeeps ==
  ASSUME LuaInv, Underway, UNCHANGED vars,
         NEW cause \in {"emptyfile", "manytables", "nofiles", "longpath", "noroutes",
                        "search", "doubled"},
         Crash(cause),
         cause = "noroutes" => routes = << >>,
         cause = "search" => Textless /\ path # Root,
         cause = "doubled" => ~Plain /\ \E n \in DOMAIN routes : Answers(routes[n])
  PROVE  LuaInv'
<1>2. LuaTypes /\ cause \in Causes
  BY DEF LuaInv, Causes
<1>3. /\ pc' = "crash" /\ ld' = [ld EXCEPT !.cause = cause]
      /\ held' = held /\ res' = res
  BY DEF Crash
<1>4. /\ ld' \in LdType /\ ld'.cause = cause
      /\ ld'.stack = ld.stack /\ ld'.tcount = ld.tcount
      /\ ld'.model = ld.model /\ ld'.response = ld.response
      /\ ld'.returned = ld.returned /\ ld'.responses = ld.responses
  BY <1>2, <1>3, CauseOnly
<1>5. LuaTypes'
  BY <1>2, <1>3, <1>4 DEF LuaTypes, LdType
<1>6. HeldInv' /\ StackInv' /\ ResponseInv' /\ RanInv' /\ ModelInv' /\ ViewInv'
  BY <1>3, <1>4, OutKeeps DEF Underway
<1>7. NothingLeaks' /\ AnswerSource'
  BY <1>3, <1>4 DEF NothingLeaks, AnswerSource, Answered, Done
<1>8. CrashCauses'
  <2>1. /\ Textless' <=> Textless
        /\ Plain' <=> Plain
        /\ routes' = routes /\ path' = path
        /\ \A n : Answers(routes[n])' <=> Answers(routes[n])
    BY DEF vars, Textless, Plain, Answers
  <2>2. ld'.cause = cause
    BY <1>4
  <2> QED
    BY <2>1, <2>2 DEF CrashCauses
<1> QED
  BY <1>5, <1>6, <1>7, <1>8 DEF LuaInv

\* An answer which is not from a model's response, JSON or views.
LEMMA AnswerKeeps ==
  ASSUME LuaInv, Underway, NEW status \in Nat, NEW lost, NEW msg \in BOOLEAN,
         NEW body \in {"none", "static", "response", "json"},
         Answer(status, body, msg, lost),
         ld' \in LdType, ld'.stack = ld.stack, ld'.tcount = ld.tcount,
         ld'.model = ld.model, ld'.response = ld.response,
         ld'.returned = ld.returned, ld'.responses = ld.responses,
         lost \subseteq {"fd", "own", "ctype"},
         "fd" \in lost <=> msg /\ body = "static",
         msg => "ctype" \notin lost /\ pc # "views",
         AnswerSource'
  PROVE  LuaInv'
<1>1. /\ pc' = "done" /\ held' = (held \ Ld) \cup lost
      /\ res' = [res EXCEPT !.status = status, !.body = body, !.msg = msg]
  BY DEF Answer
<1>2. LuaTypes /\ HeldInv
  BY DEF LuaInv
<1>3. LuaTypes' /\ res'.body = body /\ res'.msg = msg
  BY <1>1, <1>2 DEF LuaTypes, LdType
<1>4. HeldInv' /\ StackInv' /\ ResponseInv' /\ RanInv' /\ ModelInv' /\ ViewInv'
  BY <1>1, OutKeeps DEF Underway
<1>5. /\ held \subseteq Ld \cup {"rt", "content"} /\ ("rt" \in held => Delayed)
      /\ "content" \in held => pc = "views"
  BY <1>2 DEF HeldInv, Underway
<1>6. NothingLeaks'
  <2>1. held' \cap Ld = {} /\ ("fd" \in held' <=> "fd" \in lost)
    BY <1>1, <1>5 DEF Ld
  <2>2. Delayed' <=> Delayed
    BY DEF Delayed
  <2>3. "fd" \in held' <=> Answered("static")'
    BY <1>1, <1>3, <2>1 DEF Answered, Done
  <2>4. msg /\ ~Delayed => held' \subseteq {"fd", "own"}
    BY <1>1, <1>5
  <2>5. "rt" \in held' => Delayed
    BY <1>1, <1>5
  <2>6. "table" \notin held'
    BY <1>1, <1>5 DEF Ld
  <2> QED
    BY <1>3, <2>1, <2>2, <2>3, <2>4, <2>5, <2>6 DEF NothingLeaks
<1>7. CrashCauses'
  BY <1>1 DEF CrashCauses
<1> QED
  BY <1>3, <1>4, <1>6, <1>7 DEF LuaInv

\* Before the route is found nothing has happened to the request.
LEMMA EarlyKeeps ==
  ASSUME LuaInv, pc \in {"state", "config", "static", "route"},
         pc' \in {"config", "static", "route"}, ld' = ld, res' = res,
         held' \subseteq held \cup Ld
  PROVE  LuaInv'
<1>1. ld = NewLd
  BY DEF LuaInv, StackInv
<1>2. LuaTypes' /\ HeldInv' /\ StackInv'
  BY DEF LuaInv, LuaTypes, HeldInv, StackInv, Ld, Delayed
<1>3. ResponseInv'
  BY DEF LuaInv, ResponseInv
<1>4. RanInv' /\ ViewInv'
  BY DEF RanInv, ViewInv
<1>5. ModelInv'
  BY DEF LuaInv, ModelInv, TablesReturned, Valueless, ModelKeys
<1>6. NothingLeaks' /\ CrashCauses' /\ AnswerSource'
  BY DEF NothingLeaks, CrashCauses, AnswerSource, Answered, Done
<1> QED
  BY <1>2, <1>3, <1>4, <1>5, <1>6 DEF LuaInv

LEMMA ConfigKeeps ==
  ASSUME LuaInv,
         \/ NewState \/ ConfigFails \/ LoadConfig \/ CombineRoutes
         \/ NothingCombined \/ GetPath
  PROVE  LuaInv'
<1>1. CASE NewState
  <2>1. pc = "state" /\ ld = NewLd
    BY <1>1 DEF NewState, LuaInv, StackInv
  <2>2. CASE pc' = "config" /\ held' = {"state"} /\ UNCHANGED <<ld, res>>
    BY <2>1, <2>2, EarlyKeeps DEF Ld
  <2>3. CASE HttpError(500, {}) /\ UNCHANGED ld
    <3>1. held \ Ld = {}
      BY <2>1 DEF LuaInv, HeldInv, Delayed, NewLd
    <3>2. ld' = [ld EXCEPT !.cause = "none"]
      <4>1. ld \in LdType
        BY DEF LuaInv, LuaTypes
      <4>2. [ld EXCEPT !.cause = ld.cause] = ld
        BY <4>1 DEF LdType
      <4>3. ld.cause = "none"
        BY <2>1 DEF NewLd
      <4> QED
        BY <2>3, <4>2, <4>3
    <3>3. Fail(500, {}, "none")
      BY <2>3, <3>1, <3>2 DEF Fail
    <3> QED
      BY <2>1, <3>3, FailKeeps DEF Underway, Causes
  <2> QED
    BY <1>1, <2>2, <2>3 DEF NewState
<1>2. CASE ConfigFails
  <2>1. Fail(500, {}, "config") \/ Fail(500, {"dir"}, "routefile")
    BY <1>2 DEF ConfigFails
  <2>2. Underway
    BY <1>2 DEF ConfigFails, Underway
  <2> QED
    BY <2>1, <2>2, FailKeeps DEF Causes, Ld
<1>3. CASE LoadConfig
  BY <1>3, EarlyKeeps DEF LoadConfig, ConfigLoads, Ld
<1>4. CASE CombineRoutes
  <2>1. PICK hasRoutes \in BOOLEAN : \E n \in 0 .. MaxRouteFiles :
          LET s == Combined(hasRoutes, n)
              key == s[Len(s) - 1]
              tables == n + (IF hasRoutes THEN 1 ELSE 0)
              cause == CASE tables < 2 -> "fewtables" [] tables > 2 -> "manytables"
                         [] OTHER -> "twotables"
          IN /\ tables > 0
             /\ \/ key = "key" /\ ConfigLoads
                \/ key = "config" /\ Fail(500, {}, cause)
                \/ /\ key \notin {"key", "config"}
                   /\ Fail(500, {"table"}, cause) \/ Crash(cause)
    BY <1>4 DEF CombineRoutes
  <2>2. PICK n \in 0 .. MaxRouteFiles :
          LET s == Combined(hasRoutes, n)
              key == s[Len(s) - 1]
              tables == n + (IF hasRoutes THEN 1 ELSE 0)
              cause == CASE tables < 2 -> "fewtables" [] tables > 2 -> "manytables"
                         [] OTHER -> "twotables"
          IN /\ tables > 0
             /\ \/ key = "key" /\ ConfigLoads
                \/ key = "config" /\ Fail(500, {}, cause)
                \/ /\ key \notin {"key", "config"}
                   /\ Fail(500, {"table"}, cause) \/ Crash(cause)
    BY <2>1
  <2> DEFINE s == Combined(hasRoutes, n)
             key == s[Len(s) - 1]
             tables == n + (IF hasRoutes THEN 1 ELSE 0)
             cause == CASE tables < 2 -> "fewtables" [] tables > 2 -> "manytables"
                        [] OTHER -> "twotables"
  <2>3. n \in Nat /\ tables \in Nat \ {0}
    <3>1. n \in Nat
      BY FilterAssumption
    <3>2. tables > 0
      BY <2>2
    <3> QED
      BY <3>1, <3>2
  <2>4. (tables < 2 <=> key = "config") /\ (tables = 2 <=> key = "key")
    BY <2>3, CombinedKey
  <2>5. cause \in Causes
    BY DEF Causes
  <2>6. pc = "config" /\ Underway /\ UNCHANGED vars
    BY <1>4 DEF CombineRoutes, Underway
  <2>7. CASE key = "key" /\ ConfigLoads
    <3>1. ConfigLoads
      BY <2>7
    <3> QED
      BY <2>6, <3>1, EarlyKeeps DEF ConfigLoads, Ld
  <2>8. CASE key = "config" /\ Fail(500, {}, cause)
    <3>1. Fail(500, {}, cause)
      BY <2>8
    <3> HIDE DEF cause
    <3> QED
      BY <2>5, <2>6, <3>1, FailKeeps
  <2>9. CASE key \notin {"key", "config"} /\ (Fail(500, {"table"}, cause) \/ Crash(cause))
    <3>1. cause = "manytables"
      <4>1. ~(tables < 2) /\ tables # 2
        BY <2>4, <2>9
      <4>2. tables > 2
        BY <2>3, <4>1
      <4> HIDE DEF tables
      <4> QED
        BY <4>1, <4>2
    <3>2. Fail(500, {"table"}, "manytables") \/ Crash("manytables")
      BY <2>9, <3>1
    <3> QED
      <4>1. CASE Fail(500, {"table"}, "manytables")
        BY <2>6, <4>1, FailKeeps DEF Causes, Ld
      <4>2. CASE Crash("manytables")
        BY <2>6, <4>2, CrashKeeps
      <4> QED
        BY <3>2, <4>1, <4>2
  <2> QED
    BY <2>2, <2>7, <2>8, <2>9
<1>5. CASE GetPath
  <2>1. CASE Fail(500, {}, "path")
    BY <1>5, <2>1, FailKeeps DEF GetPath, Underway, Causes
  <2>2. CASE pc' = "route" /\ UNCHANGED <<ld, held, res>>
    BY <1>5, <2>2, EarlyKeeps DEF GetPath
  <2>3. CASE Crash("longpath")
    BY <1>5, <2>3, CrashKeeps DEF GetPath, Underway
  <2> QED
    BY <1>5, <2>1, <2>2, <2>3 DEF GetPath
<1>6. CASE NothingCombined
  BY <1>6, CrashKeeps DEF NothingCombined, Underway
<1> QED
  BY <1>1, <1>2, <1>3, <1>4, <1>5, <1>6

LEMMA StaticKeeps ==
  ASSUME LuaInv, SendStatic
  PROVE  LuaInv'
<1>1. pc = "static" /\ Underway /\ LuaTypes
  BY DEF SendStatic, Underway, LuaInv
<1>2. CASE Fail(404, {}, "missing")
  BY <1>1, <1>2, FailKeeps DEF Causes
<1>3. CASE Answer(200, "static", TRUE, {"fd"}) /\ UNCHANGED ld
  <2>1. res'.body = "static"
    BY <1>1, <1>3 DEF Answer, LuaTypes
  <2>2. AnswerSource'
    BY <2>1 DEF AnswerSource, Answered
  <2>3. Answer(200, "static", TRUE, {"fd"}) /\ ld' = ld /\ ld' \in LdType
    BY <1>1, <1>3 DEF LuaTypes
  <2> QED
    BY <1>1, <2>2, <2>3, AnswerKeeps
<1>4. CASE Crash("emptyfile")
  BY <1>1, <1>4, CrashKeeps DEF SendStatic
<1> QED
  BY <1>2, <1>3, <1>4 DEF SendStatic

LEMMA SearchKeeps ==
  ASSUME LuaInv, RouterInv,
         Search \/ SearchCrashes \/ NoRoutes \/ RouteMissing \/ RouteTableFails
  PROVE  LuaInv'
<1>1. CASE Search
  BY <1>1, EarlyKeeps DEF Search, luaVars
<1>2. CASE NoRoutes
  BY <1>2, CrashKeeps DEF NoRoutes, Underway
<1>3. CASE RouteMissing
  <2>1. Fail(404, {}, "noroute") \/ Fail(404, {"table"}, "noroute")
    BY <1>3 DEF RouteMissing
  <2> QED
    BY <1>3, <2>1, FailKeeps DEF RouteMissing, Underway, Causes, Ld
<1>4. CASE SearchCrashes
  <2>1. Textless /\ path # Root
    BY <1>4 DEF SearchCrashes, RouterInv
  <2> QED
    BY <1>4, <2>1, CrashKeeps DEF SearchCrashes, Underway
<1>5. CASE RouteTableFails
  <2>1. ~Plain
    <3>1. PICK i \in 1 .. Len(path) - 1 : path[i] = Empty
      BY <1>5 DEF RouteTableFails, Doubled
    <3>2. i \in DOMAIN path /\ i # Len(path)
      BY <3>1 DEF RouterInv
    <3> QED
      BY <3>1, <3>2 DEF Plain
  <2>2. \E n \in DOMAIN routes : Answers(routes[n])
    BY <1>5 DEF RouteTableFails, RouterInv
  <2> QED
    BY <1>5, <2>1, <2>2, CrashKeeps DEF RouteTableFails, Underway
<1> QED
  BY <1>1, <1>2, <1>3, <1>4, <1>5

-----------------------------------------------------------------------------
(* Models.                                                                 *)

\* What the global `model' becomes: everything it was and everything returned,
\* or something without keys that was among it.
LEMMA SetModelTop ==
  ASSUME ld.model \in Values, ld.tcount \in Nat, ld.tcount = 0 <=> ld.model = Nothing,
         NEW values \in Seq(Values), \A i \in DOMAIN values : values[i].kind # "nil"
  PROVE  LET tcount == ld.tcount + Len(values)
             m == SetModel(values, tcount)
             keyless == \/ \E i \in DOMAIN values : values[i].keys = {}
                        \/ ld.model # Nothing /\ ld.model.keys = {}
         IN /\ m.panic => tcount > 1 /\ keyless
            /\ m.model \in Values /\ m.stack \in Seq(Values)
            /\ tcount = 0 <=> m.model = Nothing
            /\ m.model # Nothing /\ m.model.keys = {} => keyless
            /\ m.model.keys # {} =>
                 /\ ld.model # Nothing => ld.model.keys # {}
                 /\ m.model.keys = ld.model.keys
                                     \cup (UNION {values[i].keys : i \in DOMAIN values})
<1> DEFINE tcount == ld.tcount + Len(values)
           m == SetModel(values, tcount)
           both == IF ld.model = Nothing THEN values ELSE Append(values, ld.model)
           keyless == \/ \E i \in DOMAIN values : values[i].keys = {}
                      \/ ld.model # Nothing /\ ld.model.keys = {}
           keys == UNION {values[i].keys : i \in DOMAIN values}
           goal == /\ m.panic => tcount > 1 /\ keyless
                   /\ m.model \in Values /\ m.stack \in Seq(Values)
                   /\ tcount = 0 <=> m.model = Nothing
                   /\ m.model # Nothing /\ m.model.keys = {} => keyless
                   /\ m.model.keys # {} =>
                        /\ ld.model # Nothing => ld.model.keys # {}
                        /\ m.model.keys = ld.model.keys \cup keys
<1>0. tcount \in Nat /\ Len(values) \in Nat
  OBVIOUS
<1>1. /\ both \in Seq(Values)
      /\ \A i \in DOMAIN both : both[i].keys = {} => keyless
      /\ ld.model = Nothing => both = values
      /\ ld.model # Nothing =>
           /\ Len(both) = Len(values) + 1 /\ both[Len(values) + 1] = ld.model
           /\ \A i \in 1 .. Len(values) : both[i] = values[i]
  <2>1. CASE ld.model = Nothing
    BY <2>1
  <2>2. CASE ld.model # Nothing
    <3>1. both = Append(values, ld.model)
      BY <2>2
    <3>2. /\ both \in Seq(Values) /\ Len(both) = Len(values) + 1
          /\ both[Len(values) + 1] = ld.model
          /\ \A i \in 1 .. Len(values) : both[i] = values[i]
      BY <3>1, AppendProperties
    <3> HIDE DEF both
    <3>3. ASSUME NEW i \in DOMAIN both, both[i].keys = {} PROVE keyless
      <4>1. i \in 1 .. Len(values) \/ i = Len(values) + 1
        BY <1>0, <3>2, <3>3
      <4>2. 1 .. Len(values) = DOMAIN values
        OBVIOUS
      <4> QED
        BY <2>2, <3>2, <3>3, <4>1, <4>2
    <3> QED
      BY <2>2, <3>2, <3>3
  <2> QED
    BY <2>1, <2>2
<1>2. \A i \in DOMAIN both : both[i] # Nothing
  <2>1. ASSUME NEW v \in Values, v.kind # "nil" PROVE v # Nothing
    BY <2>1 DEF Nothing
  <2> HIDE DEF both
  <2> TAKE i \in DOMAIN both
  <2>2. CASE ld.model = Nothing
    BY <1>1, <2>1, <2>2
  <2>3. CASE ld.model # Nothing
    <3>1. i \in 1 .. Len(values) \/ i = Len(values) + 1
      BY <1>0, <1>1, <2>3
    <3>2. 1 .. Len(values) = DOMAIN values
      OBVIOUS
    <3> QED
      BY <1>1, <2>1, <2>3, <3>1, <3>2
  <2> QED
    BY <2>2, <2>3
<1>3. Nothing.keys = {}
  BY DEF Nothing
<1>4. ASSUME tcount > 1 PROVE goal
  <2>1. /\ m.panic = Merge(both).panic
        /\ m.model = Last(Merge(both).stack) /\ m.stack = Front(Merge(both).stack)
    <3>1. m = [model |-> Last(Merge(both).stack), stack |-> Front(Merge(both).stack),
               panic |-> Merge(both).panic]
      BY <1>4, Zenon DEF SetModel
    <3> HIDE DEF both, m
    <3> QED
      BY <3>1
  <2>2. Len(both) > 0
    <3> HIDE DEF both
    <3>1. CASE ld.model = Nothing
      BY <1>0, <1>1, <1>4, <3>1
    <3>2. CASE ld.model # Nothing
      BY <1>0, <1>1, <3>2
    <3> QED
      BY <3>1, <3>2
  <2> HIDE DEF m, both
  <2>3. ASSUME m.panic PROVE keyless
    BY <1>1, <2>1, <2>3, MergePanic
  <2>4. /\ m.model \in Values /\ m.stack \in Seq(Values) /\ m.model # Nothing
        /\ m.model.keys = {} => keyless
        /\ m.model.keys # {} =>
             /\ ld.model # Nothing => ld.model.keys # {}
             /\ m.model.keys = ld.model.keys \cup keys
    <3> DEFINE S == Merge(both).stack
    <3>1. /\ S \in Seq(Values) /\ Len(S) > 0
          /\ \/ \E i \in DOMAIN both : both[i].keys = {} /\ Last(S) = both[i]
             \/ /\ \A i \in DOMAIN both : both[i].keys # {}
                /\ Last(S).keys = UNION {both[i].keys : i \in DOMAIN both}
                /\ Last(S).keys # {}
                /\ Len(both) = 1 => Last(S) = both[1]
                /\ Len(both) > 1 => Last(S).kind = "table"
      BY <1>1, <2>2, MergeTop
    <3> HIDE DEF S
    <3>2. m.model = Last(S) /\ m.stack = Front(S)
      BY <2>1 DEF S
    <3>3. Last(S) \in Values
      BY <3>1 DEF Last
    <3>4. Front(S) \in Seq(Values)
      BY <3>1 DEF Front
    <3>5. CASE \E i \in DOMAIN both : both[i].keys = {} /\ Last(S) = both[i]
      BY <1>1, <1>2, <3>2, <3>3, <3>4, <3>5
    <3>6. CASE /\ \A i \in DOMAIN both : both[i].keys # {}
               /\ Last(S).keys = UNION {both[i].keys : i \in DOMAIN both}
               /\ Last(S).keys # {}
      <4>1. m.model # Nothing
        BY <1>3, <3>2, <3>6
      <4>2. ld.model # Nothing => ld.model.keys # {}
        <5>1. ld.model # Nothing => Len(values) + 1 \in DOMAIN both
          BY <1>0, <1>1
        <5> QED
          BY <1>1, <3>6, <5>1
      <4>3. UNION {both[i].keys : i \in DOMAIN both} = ld.model.keys \cup keys
        <5>1. CASE ld.model = Nothing
          <6>1. both = values /\ ld.model.keys = {}
            BY <1>1, <1>3, <5>1
          <6> QED
            BY <6>1
        <5>2. CASE ld.model # Nothing
          <6>1. DOMAIN both = (1 .. Len(values)) \cup {Len(values) + 1}
            <7>1. DOMAIN both = 1 .. (Len(values) + 1)
              BY <1>1, <5>2
            <7> QED
              BY <1>0, <7>1
          <6>2. 1 .. Len(values) = DOMAIN values
            OBVIOUS
          <6>3. ASSUME NEW x
                PROVE (\E i \in DOMAIN both : x \in both[i].keys)
                        <=> x \in ld.model.keys \/ \E i \in DOMAIN values : x \in values[i].keys
            BY <1>1, <5>2, <6>1, <6>2
          <6> QED
            BY <6>3
        <5> QED
          BY <5>1, <5>2
      <4> QED
        BY <3>2, <3>3, <3>4, <3>6, <4>1, <4>2, <4>3
    <3> QED
      BY <3>1, <3>5, <3>6
  <2> HIDE DEF tcount, keyless, keys
  <2> QED
    BY <1>0, <1>4, <2>3, <2>4
<1>5. ASSUME tcount <= 1 PROVE goal
  <2>1. m = [model |-> IF values # << >> THEN Last(values) ELSE ld.model,
             stack |-> IF values # << >> THEN Front(values) ELSE values, panic |-> FALSE]
    <3>1. ~(tcount > 1)
      BY <1>0, <1>5
    <3> QED
      BY <3>1, Zenon DEF SetModel
  <2> HIDE DEF m
  <2>2. CASE values = << >>
    <3>1. m.model = ld.model /\ m.stack = << >> /\ ~m.panic
      BY <2>1, <2>2
    <3>2. tcount = ld.tcount /\ keys = {} /\ << >> \in Seq(Values)
      BY <2>2
    <3>3. ld.model # Nothing /\ ld.model.keys = {} => keyless
      OBVIOUS
    <3> HIDE DEF tcount, keyless, keys
    <3> QED
      BY <3>1, <3>2, <3>3
  <2>3. CASE values # << >>
    <3>0. Len(values) > 0
      BY <2>3, EmptySeq
    <3>1. Len(values) = 1 /\ ld.tcount = 0 /\ tcount = 1
      <4>1. ld.tcount + Len(values) <= 1 /\ Len(values) \in Nat /\ ld.tcount \in Nat
        BY <1>0, <1>5
      <4>2. \A a, b \in Nat : a + b <= 1 /\ b > 0 => a = 0 /\ b = 1
        OBVIOUS
      <4>3. ld.tcount = 0 /\ Len(values) = 1
        BY <3>0, <4>1, <4>2
      <4> QED
        BY <4>3
    <3>2. ld.model = Nothing /\ DOMAIN values = {1}
      BY <3>1
    <3>3. m.model = values[1] /\ ~m.panic
      BY <2>1, <2>3, <3>1 DEF Last
    <3>4. m.stack \in Seq(Values)
      BY <2>1, <2>3, <3>1 DEF Front
    <3>5. values[1] \in Values /\ values[1] # Nothing
      BY <1>1, <1>2, <3>2
    <3>6. keys = values[1].keys
      BY <3>2
    <3>7. m.model.keys = {} => keyless
      BY <3>2, <3>3
    <3> HIDE DEF tcount, keyless, keys
    <3> QED
      BY <1>3, <3>1, <3>2, <3>3, <3>4, <3>5, <3>6, <3>7
  <2> QED
    BY <2>2, <2>3
<1>6. goal
  <2> HIDE DEF goal
  <2> QED
    BY <1>0, <1>4, <1>5
<1> QED
  BY <1>6, Zenon

LEMMA BeforeStep ==
  ASSUME LuaTypes, NEW n \in 1 .. Len(ld.files)
  PROVE  /\ Before(0) = {}
         /\ IsFiniteSet(Before(n)) /\ IsFiniteSet(Before(n - 1))
         /\ Cardinality(Before(n)) =
              Cardinality(Before(n - 1)) + (IF ld.files[n] = "model" THEN 1 ELSE 0)
<1>1. Len(ld.files) \in Nat /\ n \in Nat \ {0}
  BY DEF LuaTypes, LdType
<1>2. Before(n) \in SUBSET (1 .. n) /\ Before(n - 1) \in SUBSET (1 .. n)
  BY <1>1 DEF Before
<1>3. IsFiniteSet(Before(n)) /\ IsFiniteSet(Before(n - 1))
  <2>1. IsFiniteSet(1 .. n)
    BY <1>1, FS_Interval
  <2> QED
    BY <1>2, <2>1, FS_Subset
<1>4. Before(n) = IF ld.files[n] = "model" THEN Before(n - 1) \cup {n} ELSE Before(n - 1)
  BY <1>1 DEF Before
<1>5. n \notin Before(n - 1)
  BY <1>1 DEF Before
<1>6. Cardinality(Before(n - 1)) \in Nat
  BY <1>3, FS_CardinalityType
<1>7. Before(0) = {}
  BY DEF Before
<1> QED
  BY <1>3, <1>4, <1>5, <1>6, <1>7, FS_AddElement

\* The model after one more model has run.
LEMMA ModelKeepsKeys ==
  ASSUME LuaTypes, ModelInv, pc = "models",
         NEW ret \in Seq(Kinds), NEW values \in Seq(Values),
         Len(values) = Len(ret),
         \A i \in DOMAIN ret : /\ values[i].kind # "nil"
                               /\ values[i].keys = IF ret[i] = "table"
                                                     THEN {<<"model", ld.at>>} ELSE {},
         pc' = "response", ld'.at = ld.at,
         ld'.returned = Append(ld.returned, ret),
         ld'.tcount = ld.tcount + Len(values),
         ld'.model = SetModel(values, ld'.tcount).model
  PROVE  ModelInv'
<1> DEFINE m == SetModel(values, ld.tcount + Len(values))
           mine == IF \E i \in DOMAIN ret : ret[i] = "table"
                     THEN {<<"model", ld.at>>} ELSE {}
           last == IF \E i \in DOMAIN ret : ret[i] = "table"
                     THEN {Len(ld.returned) + 1} ELSE {}
<1>1. /\ ld.model \in Values /\ ld.tcount \in Nat /\ ld.at \in Nat \ {0}
      /\ ld.returned \in Seq(Seq(Kinds))
      /\ ld.tcount = 0 <=> ld.model = Nothing
      /\ ld.tcount = 0 => TablesReturned = {}
      /\ \A k \in ModelKeys(ld.model) : k[2] < ld.at
      /\ ld.model # Nothing /\ ld.model.keys = {} => Valueless
      /\ ld.model.keys # {} =>
           /\ IsFiniteSet(ModelKeys(ld.model))
           /\ Cardinality(ModelKeys(ld.model)) = Cardinality(TablesReturned)
  BY DEF LuaTypes, LdType, ModelInv
<1>2. DOMAIN values = 1 .. Len(values) /\ DOMAIN ret = 1 .. Len(ret)
  OBVIOUS
<1>3. UNION {values[i].keys : i \in DOMAIN values} = mine
  BY <1>2
<1>4. /\ m.model \in Values /\ m.stack \in Seq(Values)
      /\ ld.tcount + Len(values) = 0 <=> m.model = Nothing
      /\ m.model # Nothing /\ m.model.keys = {} =>
           \/ \E i \in DOMAIN values : values[i].keys = {}
           \/ ld.model # Nothing /\ ld.model.keys = {}
      /\ m.model.keys # {} =>
           /\ ld.model # Nothing => ld.model.keys # {}
           /\ m.model.keys = ld.model.keys \cup mine
  BY <1>1, <1>2, <1>3, SetModelTop, Zenon
<1>5. ld'.model = m.model
  OBVIOUS
<1> HIDE DEF m
<1>6. /\ Len(ld'.returned) = Len(ld.returned) + 1 /\ Len(ld.returned) \in Nat
      /\ ld'.returned[Len(ld.returned) + 1] = ret
      /\ \A i \in 1 .. Len(ld.returned) : ld'.returned[i] = ld.returned[i]
      /\ DOMAIN ld.returned = 1 .. Len(ld.returned)
      /\ DOMAIN ld'.returned = 1 .. (Len(ld.returned) + 1)
  BY <1>1, AppendProperties
<1>7. DOMAIN ld'.returned = DOMAIN ld.returned \cup {Len(ld.returned) + 1}
  BY <1>6
<1>8. TablesReturned' = TablesReturned \cup last
  BY <1>6, <1>7 DEF TablesReturned
<1>9. IsFiniteSet(TablesReturned) /\ Len(ld.returned) + 1 \notin TablesReturned
  <2>1. TablesReturned \in SUBSET (1 .. Len(ld.returned))
    BY <1>6 DEF TablesReturned
  <2>2. IsFiniteSet(1 .. Len(ld.returned))
    BY <1>6, FS_Interval
  <2>3. IsFiniteSet(TablesReturned)
    BY <2>1, <2>2, FS_Subset
  <2> QED
    BY <1>6, <2>1, <2>3
<1>10. ModelKeys(ld'.model) =
         IF m.model.keys # {} THEN ModelKeys(ld.model) \cup mine ELSE {}
  BY <1>4, <1>5 DEF ModelKeys
<1>11. <<"model", ld.at>> \notin ModelKeys(ld.model)
  BY <1>1
<1>12. ld'.tcount = 0 <=> ld'.model = Nothing
  BY <1>4, <1>5
<1>13. \A k \in ModelKeys(ld'.model) : k[2] < ld'.at \/ k[2] = ld'.at
  BY <1>1, <1>10
<1>14. ld'.tcount = 0 => TablesReturned' = {}
  <2> SUFFICES ASSUME ld'.tcount = 0 PROVE TablesReturned' = {}
    OBVIOUS
  <2>1. ld.tcount = 0 /\ Len(values) = 0
    BY <1>1
  <2>2. DOMAIN ret = {}
    BY <1>2, <2>1
  <2> QED
    BY <1>1, <1>8, <2>1, <2>2
<1>15. ld'.model # Nothing /\ ld'.model.keys = {} => Valueless'
  <2> SUFFICES ASSUME ld'.model # Nothing, ld'.model.keys = {} PROVE Valueless'
    OBVIOUS
  <2>1. CASE \E i \in DOMAIN values : values[i].keys = {}
    <3>1. PICK i \in DOMAIN ret : values[i].keys = {}
      BY <1>2, <2>1
    <3>2. ret[i] # "table"
      BY <3>1
    <3> QED
      BY <1>6, <1>7, <3>2 DEF Valueless
  <2>2. CASE ld.model # Nothing /\ ld.model.keys = {}
    <3>1. Valueless
      BY <1>1, <2>2
    <3> QED
      BY <1>6, <1>7, <3>1 DEF Valueless
  <2> QED
    BY <1>4, <1>5, <2>1, <2>2
<1>16. ASSUME ld'.model.keys # {}
       PROVE  /\ IsFiniteSet(ModelKeys(ld'.model))
              /\ Cardinality(ModelKeys(ld'.model)) = Cardinality(TablesReturned')
  <2>1. /\ IsFiniteSet(ModelKeys(ld.model))
        /\ Cardinality(ModelKeys(ld.model)) = Cardinality(TablesReturned)
    <3>1. CASE ld.model = Nothing
      <4>1. ModelKeys(ld.model) = {} /\ TablesReturned = {}
        BY <1>1, <3>1 DEF ModelKeys, Nothing
      <4> QED
        BY <4>1, FS_EmptySet
    <3>2. CASE ld.model # Nothing
      BY <1>1, <1>4, <1>5, <1>16, <3>2
    <3> QED
      BY <3>1, <3>2
  <2>2. ModelKeys(ld'.model) = ModelKeys(ld.model) \cup mine
    BY <1>5, <1>10, <1>16
  <2>3. CASE \E i \in DOMAIN ret : ret[i] = "table"
    <3>1. /\ ModelKeys(ld'.model) = ModelKeys(ld.model) \cup {<<"model", ld.at>>}
          /\ TablesReturned' = TablesReturned \cup {Len(ld.returned) + 1}
      BY <1>8, <2>2, <2>3
    <3>2. /\ IsFiniteSet(ModelKeys(ld'.model))
          /\ Cardinality(ModelKeys(ld'.model)) = Cardinality(ModelKeys(ld.model)) + 1
      BY <1>11, <2>1, <3>1, FS_AddElement
    <3>3. Cardinality(TablesReturned') = Cardinality(TablesReturned) + 1
      BY <1>9, <3>1, FS_AddElement
    <3> QED
      BY <2>1, <3>2, <3>3
  <2>4. CASE ~ \E i \in DOMAIN ret : ret[i] = "table"
    <3>1. ModelKeys(ld'.model) = ModelKeys(ld.model) /\ TablesReturned' = TablesReturned
      BY <1>8, <2>2, <2>4
    <3> QED
      BY <2>1, <3>1
  <2> QED
    BY <2>3, <2>4
<1> QED
  BY <1>12, <1>13, <1>14, <1>15, <1>16 DEF ModelInv

LEMMA RunKeeps ==
  ASSUME LuaInv, RunModel
  PROVE  LuaInv'
<1> DEFINE valuesOf(ret) == [i \in DOMAIN ret |->
                               CASE ret[i] = "table" -> Table({<<"model", ld.at>>})
                                 [] ret[i] = "empty" -> Table({})
                                 [] OTHER -> Scalar]
           newOf(ret, r, tcount, m) ==
             [ld EXCEPT !.tcount = tcount, !.model = m.model, !.stack = m.stack,
                !.returned = Append(@, ret), !.responses = Append(@, r),
                !.response = IF r.set THEN r ELSE @]
<1>1. /\ pc = "models" /\ ld.at <= Len(ld.files) /\ ld.files[ld.at] = "model"
      /\ held' = held /\ res' = res
  BY DEF RunModel, AtFile
<1>2. LuaTypes /\ ld \in LdType /\ ld.stack = << >>
  BY <1>1 DEF LuaInv, LuaTypes, StackInv
<1>3. PICK ret \in Returns, r \in Sets :
        LET values == valuesOf(ret)
            tcount == ld.tcount + Len(ld.stack \o values)
            m == SetModel(ld.stack \o values, tcount)
            new == newOf(ret, r, tcount, m)
        IN IF m.panic
             THEN pc' = "crash" /\ ld' = [new EXCEPT !.cause = "model"]
             ELSE pc' = "response" /\ ld' = new
  BY DEF RunModel, Sets
<1> DEFINE values == valuesOf(ret)
           tcount == ld.tcount + Len(values)
           m == SetModel(values, tcount)
           new == newOf(ret, r, tcount, m)
<1>4. ret \in Seq(Kinds) /\ DOMAIN ret = 1 .. Len(ret) /\ Len(ret) \in Nat
  BY FilterAssumption DEF Kinds
<1>5. /\ values \in Seq(Values) /\ Len(values) = Len(ret)
      /\ \A i \in DOMAIN ret : /\ values[i].kind # "nil"
                               /\ values[i].keys = IF ret[i] = "table"
                                                     THEN {<<"model", ld.at>>} ELSE {}
  <2>1. /\ Table({<<"model", ld.at>>}) \in Values /\ Table({}) \in Values /\ Scalar \in Values
        /\ Table({<<"model", ld.at>>}).kind = "table" /\ Table({}).kind = "table"
        /\ Scalar.kind = "scalar" /\ Scalar.keys = {} /\ Table({}).keys = {}
        /\ Table({<<"model", ld.at>>}).keys = {<<"model", ld.at>>}
    <3>1. <<"model", ld.at>> \in Keys
      BY <1>2 DEF Keys, LdType
    <3> QED
      BY <3>1 DEF Values, Table, Scalar
  <2>2. \A i \in DOMAIN ret :
          /\ values[i] \in Values /\ values[i].kind # "nil"
          /\ values[i].keys = IF ret[i] = "table" THEN {<<"model", ld.at>>} ELSE {}
    <3> HIDE DEF Table, Scalar
    <3> QED
      BY <2>1
  <2>3. DOMAIN values = 1 .. Len(ret)
    BY <1>4
  <2> HIDE DEF values
  <2>4. values \in [1 .. Len(ret) -> Values]
    <3>1. values = [i \in DOMAIN values |-> values[i]]
      BY DEF values
    <3> QED
      BY <1>4, <2>2, <2>3, <3>1
  <2>5. values \in Seq(Values)
    BY <1>4, <2>4, SeqDef
  <2>6. Len(values) = Len(ret)
    BY <1>4, <2>4
  <2> QED
    BY <2>2, <2>5, <2>6
<1> HIDE DEF values
<1>6. ld.stack \o values = values
  BY <1>2, <1>5
<1>7. IF m.panic
        THEN pc' = "crash" /\ ld' = [new EXCEPT !.cause = "model"]
        ELSE pc' = "response" /\ ld' = new
  BY <1>3, <1>6 DEF values
<1>8. /\ ld.model \in Values /\ ld.tcount \in Nat /\ tcount \in Nat
      /\ ld.tcount = 0 <=> ld.model = Nothing
  BY <1>1, <1>2, <1>5 DEF LdType, LuaInv, ModelInv
<1>9. /\ m.model \in Values /\ m.stack \in Seq(Values)
      /\ m.panic => /\ tcount > 1
                    /\ \/ \E i \in DOMAIN values : values[i].keys = {}
                       \/ ld.model # Nothing /\ ld.model.keys = {}
  <2>1. \A i \in DOMAIN values : values[i].kind # "nil"
    BY <1>4, <1>5
  <2> QED
    BY <1>5, <1>8, <2>1, SetModelTop, Zenon
<1> HIDE DEF m, tcount
<1>10. new \in LdType
  <2>1. /\ Append(ld.returned, ret) \in Seq(Seq(Kinds))
        /\ Append(ld.responses, r) \in Seq(Sets)
    BY <1>2, <1>4, AppendProperties DEF LdType
  <2>2. (IF r.set THEN r ELSE ld.response) \in Sets
    BY <1>2 DEF LdType
  <2> QED
    BY <1>2, <1>8, <1>9, <2>1, <2>2 DEF LdType
<1>11. /\ new.tcount = tcount /\ new.model = m.model /\ new.stack = m.stack
       /\ new.returned = Append(ld.returned, ret)
       /\ new.responses = Append(ld.responses, r)
       /\ new.response = (IF r.set THEN r ELSE ld.response)
       /\ new.table = ld.table /\ new.files = ld.files /\ new.at = ld.at
       /\ new.zmodel = ld.zmodel
  BY <1>2 DEF LdType
<1> HIDE DEF new
<1>12. /\ ld' \in LdType
       /\ ld'.tcount = tcount /\ ld'.model = m.model /\ ld'.stack = m.stack
       /\ ld'.returned = Append(ld.returned, ret)
       /\ ld'.responses = Append(ld.responses, r)
       /\ ld'.response = (IF r.set THEN r ELSE ld.response)
       /\ ld'.table = ld.table /\ ld'.files = ld.files /\ ld'.at = ld.at
       /\ ld'.zmodel = ld.zmodel
       /\ pc' = "crash" => ld'.cause = "model"
       /\ \/ pc' = "crash" /\ m.panic
          \/ pc' = "response" /\ ~m.panic
  <2>1. CASE m.panic
    <3>1. [new EXCEPT !.cause = "model"] \in LdType
      BY <1>10 DEF LdType, Causes
    <3> QED
      BY <1>7, <1>10, <1>11, <2>1, <3>1 DEF LdType
  <2>2. CASE ~m.panic
    BY <1>7, <1>10, <1>11, <2>2
  <2> QED
    BY <2>1, <2>2
<1>13. LuaTypes'
  BY <1>1, <1>2, <1>12 DEF LuaTypes
<1>14. /\ ld.responses \in Seq(Sets) /\ Len(ld.responses) \in Nat
       /\ Len(ld'.responses) = Len(ld.responses) + 1
       /\ DOMAIN ld'.responses = 1 .. (Len(ld.responses) + 1)
       /\ DOMAIN ld.responses = 1 .. Len(ld.responses)
       /\ ld'.responses[Len(ld.responses) + 1] = r
       /\ \A i \in 1 .. Len(ld.responses) : ld'.responses[i] = ld.responses[i]
  <2>1. ld.responses \in Seq(Sets)
    BY <1>2 DEF LdType
  <2> QED
    BY <1>12, <2>1, AppendIs
<1>15. ResponseInv'
  <2>1. /\ \A i \in 1 .. Len(ld.responses) : ~Final(i)
        /\ ld.response.set => ld.response.delay
        /\ ld.response.set =>
             \E i \in 1 .. Len(ld.responses) : ld.responses[i] = ld.response
    BY <1>1, <1>14 DEF LuaInv, ResponseInv
  <2>2. ld'.response.set =>
          \E i \in DOMAIN ld'.responses : ld'.responses[i] = ld'.response
    <3>1. CASE r.set
      <4>1. ld'.response = r
        BY <1>12, <3>1
      <4>2. Len(ld.responses) + 1 \in DOMAIN ld'.responses
        BY <1>14
      <4> QED
        BY <1>14, <4>1, <4>2
    <3>2. CASE ~r.set
      <4>1. ld'.response = ld.response
        BY <1>12, <3>2
      <4>2. 1 .. Len(ld.responses) \subseteq DOMAIN ld'.responses
        BY <1>14
      <4> QED
        BY <1>14, <2>1, <4>1, <4>2
    <3> QED
      BY <3>1, <3>2
  <2>3. \A i \in 1 .. Len(ld.responses) : ~Final(i)'
    BY <1>14, <2>1 DEF Final
  <2>4. \A i \in DOMAIN ld'.responses :
          Final(i)' => i = Len(ld'.responses) /\ ld'.response = ld'.responses[i]
    <3> TAKE i \in DOMAIN ld'.responses
    <3>1. HAVE Final(i)'
    <3>2. i = Len(ld.responses) + 1
      BY <1>14, <2>3, <3>1
    <3>3. r.set
      BY <1>14, <3>1, <3>2 DEF Final
    <3> QED
      BY <1>12, <1>14, <3>2, <3>3
  <2>5. ld'.response.set /\ ~ld'.response.delay =>
          Len(ld'.responses) > 0 /\ Final(Len(ld.responses))'
    <3> SUFFICES ASSUME ld'.response.set, ~ld'.response.delay
                 PROVE  Len(ld'.responses) > 0 /\ Final(Len(ld.responses))'
      OBVIOUS
    <3>1. r.set
      BY <1>12, <2>1, Zenon
    <3>2. ld'.response = r
      BY <1>12, <3>1
    <3>3. ld'.responses[Len(ld'.responses)] = r /\ Len(ld'.responses) > 0
      BY <1>14
    <3> QED
      BY <3>1, <3>2, <3>3, Zenon DEF Final
  <2> QED
    BY <1>12, <2>2, <2>4, <2>5, Zenon DEF ResponseInv
<1>16. HeldInv'
  <2>1. Delayed => Delayed'
    BY <1>14 DEF Delayed
  <2> QED
    BY <1>1, <2>1 DEF LuaInv, HeldInv
<1>17. RanInv' /\ StackInv' /\ ViewInv'
  <2>1. pc' = "response" =>
          Len(ld'.returned) = Cardinality(Before(ld.at))
    <3>1. Len(ld'.returned) = Len(ld.returned) + 1
      BY <1>2, <1>4, <1>12, AppendProperties DEF LdType
    <3>2. Len(ld.returned) = Cardinality(Before(ld.at - 1))
      BY <1>1 DEF LuaInv, RanInv
    <3>3. ld.at \in 1 .. Len(ld.files)
      BY <1>1, <1>2 DEF LdType
    <3> QED
      BY <1>1, <1>2, <3>1, <3>2, <3>3, BeforeStep
  <2>2. Before(ld.at)' = Before(ld.at)
    BY <1>12 DEF Before
  <2> QED
    BY <1>1, <1>12, <2>1, <2>2 DEF RanInv, StackInv, ViewInv
<1>18. ModelInv'
  <2>1. CASE pc' = "response"
    <3>1. ld'.model = SetModel(values, ld'.tcount).model
      BY <1>12 DEF m
    <3> QED
      BY <1>1, <1>2, <1>4, <1>5, <1>12, <2>1, <3>1, ModelKeepsKeys DEF LuaInv, tcount
  <2>2. CASE pc' = "crash"
    BY <2>2 DEF ModelInv
  <2> QED
    BY <1>12, <2>1, <2>2
<1>19. NothingLeaks' /\ AnswerSource'
  BY <1>12 DEF NothingLeaks, AnswerSource, Answered, Done
<1>20. CrashCauses'
  <2> SUFFICES ASSUME m.panic, ld'.cause = "model" PROVE ld'.tcount > 1 /\ Valueless'
    BY <1>12 DEF CrashCauses
  <2>1. /\ Len(ld'.returned) = Len(ld.returned) + 1 /\ Len(ld.returned) \in Nat
        /\ ld'.returned[Len(ld.returned) + 1] = ret
        /\ \A i \in 1 .. Len(ld.returned) : ld'.returned[i] = ld.returned[i]
        /\ DOMAIN ld.returned = 1 .. Len(ld.returned)
        /\ DOMAIN ld'.returned = 1 .. (Len(ld.returned) + 1)
    <3>1. ld.returned \in Seq(Seq(Kinds))
      BY <1>2 DEF LdType
    <3> QED
      BY <1>4, <1>12, <3>1, AppendIs
  <2>2. CASE \E i \in DOMAIN values : values[i].keys = {}
    <3>1. PICK i \in DOMAIN ret : values[i].keys = {}
      BY <1>4, <1>5, <2>2
    <3>2. ret[i] # "table"
      BY <1>5, <3>1
    <3>3. Len(ld.returned) + 1 \in DOMAIN ld'.returned
      BY <2>1
    <3>4. Valueless'
      BY <2>1, <3>2, <3>3 DEF Valueless
    <3> QED
      BY <1>9, <1>12, <3>4
  <2>3. CASE ld.model # Nothing /\ ld.model.keys = {}
    <3>1. Valueless
      BY <1>1, <2>3 DEF LuaInv, ModelInv
    <3> QED
      BY <1>9, <1>12, <2>1, <3>1 DEF Valueless
  <2> QED
    BY <1>9, <2>2, <2>3, Zenon
<1> QED
  BY <1>13, <1>15, <1>16, <1>17, <1>18, <1>19, <1>20 DEF LuaInv

LEMMA SkipKeeps ==
  ASSUME LuaInv, SkipFile
  PROVE  LuaInv'
<1>1. /\ pc = "models" /\ ld.at <= Len(ld.files) /\ ld.files[ld.at] # "model"
      /\ pc' = "response" /\ ld' = ld /\ held' = held /\ res' = res
  BY DEF SkipFile, AtFile
<1>2. LuaTypes /\ ld.at \in 1 .. Len(ld.files)
  BY <1>1 DEF LuaInv, LuaTypes, LdType
<1>3. LuaTypes' /\ HeldInv' /\ StackInv' /\ ViewInv'
  BY <1>1 DEF LuaInv, LuaTypes, HeldInv, StackInv, ViewInv, Delayed
<1>4. ResponseInv'
  BY <1>1 DEF LuaInv, ResponseInv, Final
<1>5. RanInv'
  <2>1. Before(ld.at)' = Before(ld.at)
    BY <1>1 DEF Before
  <2>2. Cardinality(Before(ld.at)) = Cardinality(Before(ld.at - 1))
    <3>1. Cardinality(Before(ld.at - 1)) \in Nat
      BY <1>2, BeforeStep, FS_CardinalityType
    <3> QED
      BY <1>1, <1>2, <3>1, BeforeStep
  <2> QED
    BY <1>1, <2>1, <2>2 DEF LuaInv, RanInv
<1>6. ModelInv'
  BY <1>1 DEF LuaInv, ModelInv, TablesReturned, Valueless, ModelKeys
<1>7. NothingLeaks' /\ CrashCauses' /\ AnswerSource'
  BY <1>1 DEF NothingLeaks, CrashCauses, AnswerSource, Answered, Done
<1> QED
  BY <1>3, <1>4, <1>5, <1>6, <1>7 DEF LuaInv

LEMMA NextKeeps ==
  ASSUME LuaInv, pc = "response", NEW n \in Nat, NextFile(n),
         held' \subseteq held \cup {"rt"}, "rt" \in held' => Delayed,
         ld.response.set => ld.response.delay
  PROVE  LuaInv'
<1>1. /\ pc' = "models" /\ ld' = [ld EXCEPT !.stack = << >>, !.at = @ + 1]
      /\ res' = [res EXCEPT !.headers = @ + n]
  BY DEF NextFile
<1>2. LuaTypes /\ ld \in LdType
  BY DEF LuaInv, LuaTypes
<1>3. /\ ld' \in LdType /\ ld'.stack = << >> /\ ld'.at = ld.at + 1
      /\ ld'.tcount = ld.tcount /\ ld'.files = ld.files
      /\ ld'.model = ld.model /\ ld'.response = ld.response
      /\ ld'.returned = ld.returned /\ ld'.responses = ld.responses
  <2>1. << >> \in Seq(Values)
    BY EmptySeq
  <2>2. ld.at + 1 \in Nat \ {0}
    BY <1>2 DEF LdType
  <2>3. ld' = [ld EXCEPT !.stack = << >>, !.at = ld.at + 1]
    BY <1>1
  <2> QED
    BY <1>2, <2>1, <2>2, <2>3 DEF LdType
<1>4. res'.body = res.body /\ res'.msg = res.msg
  BY <1>1, <1>2 DEF LuaTypes
<1>5. LuaTypes'
  BY <1>1, <1>2, <1>3 DEF LuaTypes
<1>6. HeldInv' /\ StackInv' /\ ViewInv'
  BY <1>1, <1>3, <1>4 DEF LuaInv, HeldInv, StackInv, ViewInv, Delayed
<1>7. ResponseInv'
  <2>1. \A i \in DOMAIN ld.responses : ~Final(i)
    BY DEF LuaInv, ResponseInv, Final
  <2> QED
    BY <1>1, <1>3, <2>1 DEF LuaInv, ResponseInv, Final
<1>8. RanInv'
  <2>1. /\ ld.at <= Len(ld.files) /\ ld.at \in Nat /\ Len(ld.files) \in Nat
        /\ Len(ld.returned) = Cardinality(Before(ld.at))
    BY <1>2 DEF LuaInv, RanInv, LdType
  <2>2. ld'.at - 1 = ld.at
    BY <1>3, <2>1
  <2>3. Before(ld.at - 1)' = Before(ld.at)
    BY <1>3, <2>2 DEF Before
  <2>4. /\ ld'.at - 1 <= Len(ld'.files)
        /\ Len(ld'.returned) = Cardinality(Before(ld.at - 1)')
    BY <1>3, <2>1, <2>2, <2>3
  <2> QED
    BY <1>1, <2>4 DEF RanInv
<1>9. ModelInv'
  <2>1. \A k \in ModelKeys(ld.model) : k[2] < ld.at \/ k[2] = ld.at
    BY DEF LuaInv, ModelInv
  <2>2. \A k \in ModelKeys(ld.model) : k[2] \in Nat /\ ld.at \in Nat
    BY <1>2 DEF LdType, Values, Keys, ModelKeys
  <2>3. \A k \in ModelKeys(ld'.model) : k[2] < ld'.at
    BY <1>3, <2>1, <2>2
  <2> QED
    BY <1>1, <1>3, <2>3 DEF LuaInv, ModelInv, TablesReturned, Valueless, ModelKeys
<1>10. NothingLeaks' /\ CrashCauses' /\ AnswerSource'
  BY <1>1 DEF NothingLeaks, CrashCauses, AnswerSource, Answered, Done
<1> QED
  BY <1>5, <1>6, <1>7, <1>8, <1>9, <1>10 DEF LuaInv

\* What is read is what a model has set, unless values are left on the stack.
LEMMA ReadIs ==
  ASSUME LuaInv, ld.response.set
  PROVE  /\ Read.delay \in BOOLEAN /\ Read.headers \in Nat
         /\ Read.delay \/ Read.content = "text" \/ Read.content = "null" \/ Read.file = "ok" =>
              Read = ld.response
         /\ ld.response.delay \in BOOLEAN
<1>1. ld.response \in Sets
  BY DEF LuaInv, LuaTypes, LdType
<1>2. ld.response.delay \in BOOLEAN /\ ld.response.headers \in Nat
  BY <1>1, SetTypes
<1>3. CASE ld.stack = << >>
  BY <1>2, <1>3 DEF Read
<1>4. CASE ld.stack # << >>
  <2>1. Read = [set |-> TRUE, delay |-> FALSE, status |-> FALSE, content |-> "none",
                clen |-> FALSE, file |-> "none", headers |-> 0, bad |-> FALSE]
    BY <1>4 DEF Read
  <2>2. Read.delay = FALSE /\ Read.content = "none" /\ Read.file = "none" /\ Read.headers = 0
    BY <2>1
  <2>3. /\ Read.content # "text" /\ Read.content # "null" /\ Read.file # "ok"
        /\ Read.headers \in Nat
    BY <2>2
  <2>4. ~Read.delay /\ Read.delay \in BOOLEAN
    BY <2>2, Zenon
  <2> QED
    BY <1>2, <2>3, <2>4, Zenon
<1> QED
  BY <1>3, <1>4

LEMMA ResponseKeeps ==
  ASSUME LuaInv, NoResponseYet \/ ResponseFails \/ Delay \/ Respond
  PROVE  LuaInv'
<1>1. HeldInv /\ ResponseInv /\ LuaTypes
  BY DEF LuaInv
<1>2. CASE NoResponseYet
  <2>1. pc = "response" /\ ~ld.response.set /\ NextFile(0) /\ held' = held
    BY <1>2 DEF NoResponseYet
  <2>2. "rt" \in held' => Delayed
    BY <1>1, <2>1 DEF HeldInv
  <2> QED
    BY <2>1, <2>2, NextKeeps
<1>3. CASE ResponseFails
  <2>1. pc = "response" /\ Underway
    BY <1>3 DEF ResponseFails, Underway
  <2>2. CASE Fail(500, Rejected(Read), "response")
    <3>1. Rejected(Read) \subseteq {"rt", "own", "content"}
      BY DEF Rejected, Kept
    <3> HIDE DEF Rejected
    <3>2. Rejected(Read) \cap (Ld \cup {"fd"}) = {} /\ "table" \notin Rejected(Read)
      BY <3>1 DEF Ld
    <3> QED
      BY <2>1, <2>2, <3>2, FailKeeps DEF Causes
  <2>3. CASE \E lost \in {{}, {"rt"}} : Fail(500, lost, "table")
    <3>1. Fail(500, {}, "table") \/ Fail(500, {"rt"}, "table")
      BY <2>3
    <3> QED
      BY <2>1, <3>1, FailKeeps DEF Causes, Ld
  <2> QED
    BY <1>3, <2>2, <2>3 DEF ResponseFails
<1>4. CASE Delay
  <2>1. /\ pc = "response" /\ ld.response.set /\ Read.delay
        /\ NextFile(Read.headers) /\ held' = held \cup {"rt"}
    BY <1>4 DEF Delay
  <2>2. ld.response.delay /\ Read.headers \in Nat
    BY <2>1, ReadIs
  <2>3. Delayed
    BY <1>1, <2>1, <2>2 DEF ResponseInv, Delayed
  <2> QED
    BY <2>1, <2>2, <2>3, NextKeeps
<1>5. CASE Respond
  <2> DEFINE msg == OwnText(Read) \/ Read.content = "text" \/ Read.file = "ok"
             lost == IF Read.file = "ok" THEN Kept(Read) ELSE {}
  <2>1. /\ pc = "response" /\ ld.response.set /\ ~Read.delay /\ Underway
        /\ Answer(200, "response", msg, lost) /\ ld' = ld
    BY <1>5 DEF Respond, Underway
  <2>2. lost \subseteq {"own"}
    BY DEF Kept
  <2>3. msg => ~ld.response.delay
    BY <2>1, ReadIs DEF OwnText
  <2>4. msg \in BOOLEAN
    BY DEF OwnText
  <2> HIDE DEF msg, lost
  <2>5. pc' = "done" /\ res'.body = "response" /\ res'.msg = msg
    BY <1>1, <2>1 DEF Answer, LuaTypes
  <2>6. AnswerSource'
    <3> SUFFICES ASSUME msg
                 PROVE  \A i \in DOMAIN ld.responses : Final(i) <=> i = Len(ld.responses)
      BY <2>1, <2>5 DEF AnswerSource, Answered, Final
    <3> QED
      BY <1>1, <2>1, <2>3 DEF ResponseInv
  <2>7. ld' \in LdType
    BY <1>1, <2>1 DEF LuaTypes
  <2>8. lost \subseteq {"fd", "own", "ctype"} /\ "fd" \notin lost /\ "ctype" \notin lost
    BY <2>2
  <2> QED
    BY <2>1, <2>4, <2>6, <2>7, <2>8, AnswerKeeps
<1> QED
  BY <1>2, <1>3, <1>4, <1>5

LEMMA FoundKeeps ==
  ASSUME LuaInv, RouteFound
  PROVE  LuaInv'
<1>1. /\ pc = "route" /\ pc' = "models" /\ res' = res
      /\ held' = held \cup {"zroute", "files"}
  BY DEF RouteFound
<1>2. PICK t \in RouteTables : ld' = [ld EXCEPT !.table = t, !.files = MvcList(t)]
  BY DEF RouteFound
<1>3. ld = NewLd /\ ld \in LdType /\ LuaTypes
  BY <1>1 DEF LuaInv, StackInv, LuaTypes
<1>4. /\ ld' \in LdType /\ ld'.stack = << >> /\ ld'.at = 1 /\ ld'.tcount = 0
      /\ ld'.files = MvcList(t)
      /\ ld'.model = Nothing /\ ld'.response = NoResponse
      /\ ld'.returned = << >> /\ ld'.responses = << >>
  <2>1. MvcList(t) \in Seq({"model", "query", "view"})
    BY MvcFiles DEF FileKinds
  <2>2. t \in Seq([key : STRING, value : {"text", "list", "child"}])
    BY FilterAssumption
  <2>3. ld' \in LdType
    BY <1>2, <1>3, <2>1, <2>2 DEF LdType
  <2>4. /\ ld'.stack = ld.stack /\ ld'.at = ld.at /\ ld'.tcount = ld.tcount
        /\ ld'.files = MvcList(t) /\ ld'.model = ld.model /\ ld'.response = ld.response
        /\ ld'.returned = ld.returned /\ ld'.responses = ld.responses
    BY <1>2, <1>3 DEF LdType
  <2> HIDE DEF MvcList
  <2> QED
    BY <1>3, <2>3, <2>4 DEF NewLd
<1>5. LuaTypes' /\ StackInv' /\ ViewInv'
  BY <1>1, <1>3, <1>4 DEF LuaTypes, StackInv, ViewInv
<1>6. HeldInv'
  BY <1>1, <1>3 DEF LuaInv, HeldInv, Delayed, NewLd, Ld
<1>7. ResponseInv'
  <2>1. NoResponse.set = FALSE /\ DOMAIN ld'.responses = {}
    BY <1>4 DEF NoResponse
  <2>2. ld'.response.set = FALSE
    BY <1>4, <2>1
  <2>3. ~ld'.response.set
    BY <2>2, Zenon
  <2> QED
    BY <1>1, <2>1, <2>3 DEF ResponseInv
<1>8. RanInv'
  <2>1. Before(ld.at - 1)' = {}
    BY <1>4 DEF Before
  <2>2. Cardinality(Before(ld.at - 1)') = 0
    BY <2>1, FS_EmptySet
  <2>3. ld'.at - 1 <= Len(ld'.files) /\ Len(ld'.returned) = 0
    BY <1>4 DEF LdType
  <2> QED
    BY <1>1, <2>2, <2>3 DEF RanInv
<1>9. ModelInv'
  <2>1. TablesReturned' = {} /\ ld'.model.keys = {} /\ ModelKeys(ld'.model) = {}
    BY <1>4 DEF TablesReturned, Nothing, ModelKeys
  <2> QED
    BY <1>1, <1>4, <2>1 DEF ModelInv
<1>10. NothingLeaks' /\ CrashCauses' /\ AnswerSource'
  BY <1>1 DEF NothingLeaks, CrashCauses, AnswerSource, Answered, Done
<1> QED
  BY <1>5, <1>6, <1>7, <1>8, <1>9, <1>10 DEF LuaInv

-----------------------------------------------------------------------------
(* The model and the views.                                                *)

LEMMA LateKeeps ==
  ASSUME LuaInv, pc \in {"models", "model", "views"}, pc' \in {"model", "views"},
         pc = "views" => pc' = "views", ld' \in LdType, res' = res, ModelsRan,
         ld'.files = ld.files, ld'.stack = ld.stack, ld'.response = ld.response,
         ld'.returned = ld.returned, ld'.responses = ld.responses,
         held' \subseteq held \cup {"zmodel", "content"},
         "content" \in held' => "content" \in held \/ pc = "views",
         ModelInv', ViewInv'
  PROVE  LuaInv'
<1>1. LuaTypes'
  BY DEF LuaInv, LuaTypes
<1>2. HeldInv' /\ StackInv'
  BY DEF LuaInv, HeldInv, StackInv, Delayed, Ld
<1>3. ResponseInv'
  BY DEF LuaInv, ResponseInv, Final
<1>4. RanInv'
  BY DEF RanInv, ModelsRan
<1>5. NothingLeaks' /\ CrashCauses' /\ AnswerSource'
  BY DEF NothingLeaks, CrashCauses, AnswerSource, Answered, Done
<1> QED
  BY <1>1, <1>2, <1>3, <1>4, <1>5 DEF LuaInv

LEMMA AllRan ==
  ASSUME LuaInv, ModelsOver
  PROVE  ModelsRan
<1>1. /\ ld.at - 1 <= Len(ld.files) /\ ld.at > Len(ld.files)
      /\ Len(ld.returned) = Cardinality(Before(ld.at - 1))
      /\ ld.at \in Nat /\ Len(ld.files) \in Nat /\ DOMAIN ld.files = 1 .. Len(ld.files)
  BY DEF ModelsOver, LuaInv, RanInv, LuaTypes, LdType
<1>2. ld.at - 1 = Len(ld.files)
  BY <1>1
<1> QED
  BY <1>1, <1>2 DEF ModelsRan, Before

\* A table with keys below a value without: lua_merge raises an error.
LEMMA MergePanics ==
  ASSUME NEW s \in Seq(Values), NEW i \in DOMAIN s, NEW j \in DOMAIN s, j < i,
         s[i].keys = {}, s[j].keys # {}
  PROVE  Merge(s).panic
<1>1. ~(Len(s) < 2)
  OBVIOUS
<1> DEFINE keyless == {n \in DOMAIN s : s[n].keys = {}}
           keys == (UNION {s[n].keys : n \in DOMAIN s})
                     \cup (IF keyless = {} THEN {} ELSE {<<"item", 0>>})
           left == SubSeq(s, 1, Max(keyless \cup {0}))
<1>2. Merge(s) = [stack |-> <<Table(keys)>> \o left,
                  panic |-> \E m \in keyless, n \in DOMAIN s \ keyless : n < m]
  BY <1>1, Zenon DEF Merge
<1>3. i \in keyless /\ j \in DOMAIN s \ keyless
  OBVIOUS
<1> HIDE DEF keys, left, keyless
<1> QED
  BY <1>2, <1>3

LEMMA ConfigMergeKeeps ==
  ASSUME LuaInv, AddConfig
  PROVE  LuaInv'
<1> DEFINE config == Table({<<"config", 0>>})
           both == IF ld.model = Nothing THEN <<config>> ELSE <<config, ld.model>>
           m == Merge(both)
<1>1. /\ ModelsOver /\ pc = "models" /\ held' = held /\ res' = res
      /\ IF Views = {} THEN pc' = "model" /\ ld' = ld
         ELSE IF m.panic THEN pc' = "crash" /\ ld' = [ld EXCEPT !.cause = "model"]
         ELSE pc' = "model" /\ ld' = [ld EXCEPT !.model = Last(m.stack)]
  BY DEF AddConfig, ModelsOver
<1>2. LuaTypes /\ ld \in LdType /\ ModelsRan /\ ld.model \in Values
  BY <1>1, AllRan DEF LuaInv, LuaTypes, LdType
<1>3. /\ config \in Values /\ config.keys = {<<"config", 0>>} /\ config.kind = "table"
  <2>1. <<"config", 0>> \in Keys
    BY DEF Keys
  <2> QED
    BY <2>1 DEF Values, Table
<1> HIDE DEF config
<1>4. /\ both \in Seq(Values) /\ Len(both) > 0 /\ both[1] = config /\ 1 \in DOMAIN both
      /\ ld.model = Nothing => DOMAIN both = {1}
      /\ ld.model # Nothing =>
           DOMAIN both = {1, 2} /\ Len(both) = 2 /\ both[2] = ld.model
  BY <1>2, <1>3
<1>5. config.keys # {}
  BY <1>3
<1> HIDE DEF both
<1>6. /\ ld.tcount = 0 <=> ld.model = Nothing
      /\ ld.tcount = 0 => TablesReturned = {}
      /\ ld.model # Nothing /\ ld.model.keys = {} => Valueless
      /\ ld.model.keys # {} =>
           /\ IsFiniteSet(ModelKeys(ld.model))
           /\ Cardinality(ModelKeys(ld.model)) = Cardinality(TablesReturned)
  BY <1>1 DEF LuaInv, ModelInv
<1>7. CASE Views = {}
  <2>1. pc' = "model" /\ ld' = ld
    BY <1>1, <1>7
  <2>2. ModelInv'
    BY <1>6, <2>1 DEF ModelInv, TablesReturned, Valueless, ModelKeys
  <2>3. ViewInv'
    BY <1>7, <2>1 DEF ViewInv, Views
  <2> QED
    BY <1>1, <1>2, <2>1, <2>2, <2>3, LateKeeps
<1>8. CASE Views # {} /\ m.panic
  <2>1. pc' = "crash" /\ ld' = [ld EXCEPT !.cause = "model"]
    BY <1>1, <1>8
  <2>2. /\ ld' \in LdType /\ ld'.cause = "model"
        /\ ld'.files = ld.files
        /\ ld'.stack = ld.stack /\ ld'.tcount = ld.tcount
        /\ ld'.model = ld.model /\ ld'.response = ld.response
        /\ ld'.returned = ld.returned /\ ld'.responses = ld.responses
    BY <1>2, <2>1, CauseOnly DEF Causes
  <2>3. ld.model # Nothing /\ ld.model.keys = {}
    <3>1. PICK i \in DOMAIN both : both[i].keys = {}
      BY <1>8, MergePanic
    <3> QED
      BY <1>4, <1>5, <3>1
  <2>4. Valueless' /\ Views' # {}
    BY <1>6, <1>8, <2>2, <2>3 DEF Valueless, Views
  <2>5. LuaTypes'
    BY <1>1, <1>2, <2>1, <2>2 DEF LuaTypes
  <2>6. HeldInv' /\ StackInv' /\ ResponseInv' /\ RanInv' /\ ModelInv' /\ ViewInv'
    BY <1>1, <2>1, <2>2, OutKeeps
  <2>7. NothingLeaks' /\ CrashCauses' /\ AnswerSource'
    BY <2>1, <2>2, <2>4 DEF NothingLeaks, CrashCauses, AnswerSource, Answered, Done
  <2> QED
    BY <2>5, <2>6, <2>7 DEF LuaInv
<1>9. CASE Views # {} /\ ~m.panic
  <2> DEFINE top == Last(m.stack)
  <2>1. pc' = "model" /\ ld' = [ld EXCEPT !.model = top]
    BY <1>1, <1>9
  <2>2. /\ m.stack \in Seq(Values) /\ Len(m.stack) > 0
        /\ \/ \E i \in DOMAIN both : both[i].keys = {} /\ Last(m.stack) = both[i]
           \/ /\ \A i \in DOMAIN both : both[i].keys # {}
              /\ Last(m.stack).keys = UNION {both[i].keys : i \in DOMAIN both}
              /\ Last(m.stack).keys # {}
              /\ Len(both) = 1 => Last(m.stack) = both[1]
              /\ Len(both) > 1 => Last(m.stack).kind = "table"
    BY <1>4, MergeTop
  <2>3. \A i \in DOMAIN both : both[i].keys # {}
    <3> SUFFICES ASSUME NEW i \in DOMAIN both, both[i].keys = {} PROVE FALSE
      OBVIOUS
    <3>1. ld.model # Nothing /\ i = 2
      BY <1>4, <1>5
    <3>2. 1 \in DOMAIN both /\ 1 < i /\ both[1].keys # {}
      BY <1>4, <1>5, <3>1
    <3> QED
      BY <1>4, <1>9, <3>2, MergePanics
  <2>4. /\ top \in Values /\ top.kind = "table" /\ top.keys # {}
        /\ top.keys = UNION {both[i].keys : i \in DOMAIN both}
    <3>1. top \in Values
      BY <2>2 DEF Last
    <3>2. Len(both) = 1 \/ Len(both) > 1
      BY <1>4
    <3> QED
      BY <1>3, <1>4, <2>2, <2>3, <3>1, <3>2
  <2> HIDE DEF top, m
  <2>5. /\ ld' \in LdType /\ ld'.model = top /\ ld'.tcount = ld.tcount
        /\ ld'.files = ld.files /\ ld'.stack = ld.stack
        /\ ld'.response = ld.response /\ ld'.returned = ld.returned
        /\ ld'.responses = ld.responses
    BY <1>2, <2>1, <2>4 DEF LdType
  <2>6. ModelKeys(top) = ModelKeys(ld.model)
    <3>1. \A k : k \in top.keys <=> k = <<"config", 0>> \/ k \in ld.model.keys
      <4>1. CASE ld.model = Nothing
        BY <1>3, <1>4, <2>4, <4>1 DEF Nothing
      <4>2. CASE ld.model # Nothing
        BY <1>3, <1>4, <2>4, <4>2
      <4> QED
        BY <4>1, <4>2
    <3>2. \A k : k = <<"config", 0>> => k[1] # "model"
      OBVIOUS
    <3> QED
      BY <3>1, <3>2 DEF ModelKeys
  <2>7. IsFiniteSet(ModelKeys(top)) /\ Cardinality(ModelKeys(top)) = Cardinality(TablesReturned)
    <3>1. CASE ld.model = Nothing
      <4>1. ModelKeys(ld.model) = {} /\ TablesReturned = {}
        BY <1>6, <3>1 DEF ModelKeys, Nothing
      <4> QED
        BY <2>6, <4>1, FS_EmptySet
    <3>2. CASE ld.model # Nothing
      <4>1. ld.model.keys # {}
        BY <1>4, <2>3, <3>2
      <4> QED
        BY <1>6, <2>6, <4>1
    <3> QED
      BY <3>1, <3>2
  <2>8. TablesReturned' = TablesReturned
    BY <2>5 DEF TablesReturned
  <2>9. ModelInv'
    BY <1>6, <2>1, <2>4, <2>5, <2>7, <2>8 DEF ModelInv
  <2>10. ViewInv'
    BY <2>1, <2>4, <2>5 DEF ViewInv
  <2> QED
    BY <1>1, <1>2, <2>1, <2>5, <2>9, <2>10, LateKeeps
<1> QED
  BY <1>7, <1>8, <1>9

LEMMA ModelGoesOn ==
  ASSUME LuaInv, NoModel \/ KeepModel \/ RenderView
  PROVE  LuaInv'
<1>1. LuaTypes /\ ld \in LdType /\ ld.model.keys \in SUBSET Keys
  BY DEF LuaInv, LuaTypes, LdType, Values
<1>2. pc \in {"model", "views"} /\ ModelsRan
  BY DEF NoModel, KeepModel, RenderView, LuaInv, RanInv
<1>3. /\ ld' \in LdType /\ ld'.tcount = ld.tcount /\ ld'.model = ld.model
      /\ ld'.files = ld.files /\ ld'.stack = ld.stack /\ ld'.table = ld.table
      /\ ld'.response = ld.response /\ ld'.returned = ld.returned
      /\ ld'.responses = ld.responses /\ pc' = "views" /\ res' = res
      /\ held' \subseteq held \cup {"zmodel", "content"}
      /\ "content" \in held' => "content" \in held \/ pc = "views"
      /\ KeepModel => ld'.zmodel = ld.model.keys
      /\ RenderView => ld'.zmodel = ld.zmodel
  <2>1. CASE NoModel
    BY <1>1, <2>1 DEF NoModel, KeepModel, RenderView
  <2>2. CASE KeepModel
    BY <1>1, <2>2 DEF KeepModel, LdType, RenderView
  <2>3. CASE RenderView
    <3>1. ld.rendered + 1 \in Nat
      BY <1>1 DEF LdType
    <3> QED
      BY <1>1, <2>3, <3>1 DEF RenderView, LdType, KeepModel
  <2> QED
    BY <2>1, <2>2, <2>3
<1>4. ModelInv'
  BY <1>2, <1>3 DEF LuaInv, ModelInv, TablesReturned, Valueless, ModelKeys
<1>5. ViewInv'
  <2>1. Views' = Views /\ (Has("view")' <=> Has("view"))
    BY <1>3 DEF Views, Has
  <2>2. CASE NoModel
    <3>1. Views = {}
      BY <2>2 DEF NoModel, LuaInv, ViewInv
    <3> QED
      BY <1>3, <2>1, <3>1 DEF ViewInv
  <2>3. CASE KeepModel
    <3>1. Has("view") /\ (Views # {} => ld.model.keys # {})
      BY <2>3 DEF KeepModel, LuaInv, ViewInv
    <3> QED
      BY <1>3, <2>1, <2>3, <3>1 DEF ViewInv
  <2>4. CASE RenderView
    <3>1. Views # {} => Has("view") /\ ld.model.keys # {} /\ ld.zmodel = ld.model.keys
      BY <2>4 DEF RenderView, LuaInv, ViewInv
    <3> QED
      BY <1>3, <2>1, <2>4, <3>1 DEF ViewInv
  <2> QED
    BY <2>2, <2>3, <2>4
<1> QED
  BY <1>2, <1>3, <1>4, <1>5, LateKeeps

LEMMA FromModelsAll ==
  ASSUME LuaInv, Underway, ld.model.keys # {}, ld'.zmodel = ld.model.keys,
         ld'.returned = ld.returned
  PROVE  Cardinality(FromModels') = Cardinality(TablesReturned')
<1>1. FromModels' = ModelKeys(ld.model)
  BY DEF FromModels, ModelKeys
<1>2. TablesReturned' = TablesReturned
  BY DEF TablesReturned
<1> QED
  BY <1>1, <1>2 DEF LuaInv, ModelInv, Underway

LEMMA EndKeeps ==
  ASSUME LuaInv,
         Serialize \/ SerializeFails \/ ViewFails \/ NeitherModelNorView
           \/ SendViews \/ SendNothing \/ ModelFails
  PROVE  LuaInv'
<1>1. LuaTypes /\ HeldInv /\ ld \in LdType /\ Underway
  <2>1. pc = "models" \/ pc = "model" \/ pc = "views"
    BY Zenon DEF Serialize, SerializeFails, ViewFails, Ready, NeitherModelNorView,
                 SendViews, SendNothing, ModelFails, AtFile
  <2> QED
    BY <2>1 DEF LuaInv, LuaTypes, Underway
<1>2. pc \in {"model", "views"} => ModelsRan /\ \A i \in DOMAIN ld.responses : ~Final(i)
  BY DEF LuaInv, RanInv, ResponseInv
<1>3. CASE Serialize
  <2>1. /\ pc = "model" /\ ld.model.keys # {} /\ Answer(200, "json", TRUE, {})
        /\ ld' = [ld EXCEPT !.zmodel = ld.model.keys]
    BY <1>3 DEF Serialize
  <2>2. ld.model.keys \in SUBSET Keys
    BY <1>1 DEF LdType, Values
  <2>3. /\ ld' \in LdType /\ ld'.zmodel = ld.model.keys
        /\ ld'.stack = ld.stack /\ ld'.tcount = ld.tcount
        /\ ld'.model = ld.model /\ ld'.response = ld.response
        /\ ld'.returned = ld.returned /\ ld'.responses = ld.responses
        /\ ld'.files = ld.files
    BY <1>1, <2>1, <2>2 DEF LdType
  <2>4. res'.body = "json"
    BY <1>1, <2>1 DEF Answer, LuaTypes
  <2>5. Cardinality(FromModels') = Cardinality(TablesReturned')
    BY <1>1, <2>1, <2>3, FromModelsAll
  <2>6. ModelsRan' /\ \A i \in DOMAIN ld'.responses : ~Final(i)'
    BY <1>2, <2>1, <2>3 DEF ModelsRan, Final
  <2>7. AnswerSource'
    BY <2>4, <2>5, <2>6 DEF AnswerSource, Answered
  <2> DEFINE lost == {}
             msg == TRUE
  <2>8. /\ lost \subseteq {"fd", "own", "ctype"} /\ "fd" \notin lost /\ "ctype" \notin lost
        /\ msg \in BOOLEAN /\ pc # "views"
    BY <2>1
  <2>9. Answer(200, "json", msg, lost) /\ 200 \in Nat
    BY <2>1
  <2>10. /\ "fd" \in lost <=> msg /\ "json" = "static"
         /\ msg => "ctype" \notin lost /\ pc # "views"
         /\ "json" \in {"none", "static", "response", "json"}
    BY <2>8
  <2> HIDE DEF lost, msg
  <2>11. Underway
    BY <1>1
  <2> QED
    BY <2>3, <2>7, <2>8, <2>9, <2>10, <2>11, AnswerKeeps, Zenon
<1>4. CASE SerializeFails
  <2>1. Fail(500, {}, "table") \/ Fail(500, {}, "text")
    BY <1>4 DEF SerializeFails
  <2> QED
    BY <1>1, <2>1, FailKeeps DEF Causes
<1>5. CASE ViewFails
  BY <1>1, <1>5, FailKeeps DEF ViewFails, Causes
<1>6. CASE NeitherModelNorView
  BY <1>1, <1>6, FailKeeps DEF NeitherModelNorView, Causes
<1>7. CASE ModelFails
  BY <1>1, <1>7, FailKeeps DEF ModelFails, Causes
<1>8. CASE SendNothing
  <2>1. Answer(200, "none", FALSE, {"ctype"}) /\ ld' = ld
    BY <1>8 DEF SendNothing
  <2>2. res'.body = "none"
    BY <1>1, <2>1 DEF Answer, LuaTypes
  <2>3. AnswerSource'
    BY <2>2 DEF AnswerSource, Answered
  <2> QED
    BY <1>1, <2>1, <2>3, AnswerKeeps
<1>9. CASE SendViews
  <2>1. /\ pc = "views" /\ Views # {} /\ pc' = "done" /\ ld' = ld
        /\ res' = [res EXCEPT !.status = 200, !.body = "views", !.msg = TRUE]
        /\ held' = held \ (Ld \cup {"content"})
    BY <1>9 DEF SendViews, Ready
  <2>2. LuaTypes' /\ res'.body = "views"
    BY <1>1, <2>1 DEF LuaTypes
  <2>3. HeldInv' /\ StackInv' /\ ResponseInv' /\ RanInv' /\ ModelInv' /\ ViewInv'
    BY <2>1, OutKeeps
  <2>4. held' \subseteq {"rt"} /\ ("rt" \in held' => Delayed)
    BY <1>1, <2>1 DEF HeldInv
  <2>5. Delayed' <=> Delayed
    BY <2>1 DEF Delayed
  <2>6. NothingLeaks'
    BY <2>2, <2>4, <2>5 DEF NothingLeaks, Answered, Ld
  <2>7. Has("view") /\ ld.model.keys # {} /\ ld.zmodel = ld.model.keys
    BY <2>1 DEF LuaInv, ViewInv
  <2>8. Cardinality(FromModels') = Cardinality(TablesReturned')
    BY <1>1, <2>1, <2>7, FromModelsAll
  <2>9. ModelsRan' /\ (\A i \in DOMAIN ld'.responses : ~Final(i)') /\ Has("view")'
    BY <1>2, <2>1, <2>7 DEF ModelsRan, Final, Has
  <2>10. AnswerSource'
    BY <2>2, <2>8, <2>9 DEF AnswerSource, Answered
  <2>11. CrashCauses'
    BY <2>1 DEF CrashCauses
  <2> QED
    BY <2>2, <2>3, <2>6, <2>10, <2>11 DEF LuaInv
<1> QED
  BY <1>3, <1>4, <1>5, <1>6, <1>7, <1>8, <1>9

-----------------------------------------------------------------------------
LEMMA LuaStarts == LuaInit => LuaInv
<1> SUFFICES ASSUME LuaInit PROVE LuaInv
  OBVIOUS
<1>1. pc = "state" /\ ld = NewLd /\ held = {} /\ res = NoAnswer
  BY DEF LuaInit
<1>2. ld \in LdType
  <2>1. /\ NewLd.model \in Values /\ NewLd.response \in Sets
    BY DEF NewLd, Nothing, Values, Sets
  <2> QED
    BY <1>1, <2>1 DEF LdType, NewLd, Causes, Sets, Values, Nothing
<1>3. LuaTypes
  BY <1>1, <1>2 DEF LuaTypes, NoAnswer
<1>4. HeldInv /\ StackInv
  BY <1>1 DEF HeldInv, StackInv, NoAnswer
<1>5. ResponseInv
  <2>1. ld.response.set = FALSE
    BY <1>1 DEF NewLd, NoResponse
  <2>2. ~ld.response.set
    BY <2>1, Zenon
  <2> QED
    BY <1>1, <2>2 DEF ResponseInv
<1>6. RanInv /\ ViewInv
  BY <1>1 DEF RanInv, ViewInv
<1>7. ModelInv
  BY <1>1 DEF ModelInv, NewLd, TablesReturned, Nothing
<1>8. NothingLeaks /\ CrashCauses /\ AnswerSource
  BY <1>1 DEF NothingLeaks, CrashCauses, AnswerSource, Answered, Done
<1> QED
  BY <1>3, <1>4, <1>5, <1>6, <1>7, <1>8 DEF LuaInv

LEMMA LuaStep == LuaInv /\ RouterInv /\ [LuaNext]_allVars => LuaInv'
<1> SUFFICES ASSUME LuaInv, RouterInv, [LuaNext]_allVars PROVE LuaInv'
  OBVIOUS
<1>1. CASE LuaNext
  BY <1>1, ConfigKeeps, StaticKeeps, SearchKeeps, FoundKeeps, RunKeeps, SkipKeeps,
     ResponseKeeps, ConfigMergeKeeps, ModelGoesOn, EndKeeps, Zenon DEF LuaNext
<1>2. CASE UNCHANGED allVars
  <2>1. pc' = pc /\ ld' = ld /\ held' = held /\ res' = res
    BY <1>2 DEF allVars, luaVars
  <2>2. LuaTypes' /\ HeldInv' /\ StackInv' /\ ResponseInv'
    BY <2>1 DEF LuaInv, LuaTypes, HeldInv, StackInv, ResponseInv, Delayed, Final
  <2>3. RanInv' /\ ModelInv' /\ ViewInv'
    BY <2>1 DEF LuaInv, RanInv, Before, ModelsRan, ModelInv, TablesReturned, Valueless,
                ModelKeys, ViewInv, Views, Has
  <2>4. NothingLeaks' /\ AnswerSource'
    BY <2>1 DEF LuaInv, NothingLeaks, AnswerSource, Answered, Done,
                Delayed, Final, ModelsRan, FromModels, TablesReturned, Valueless, Views, Has
  <2>5. CrashCauses'
    <3>1. UNCHANGED vars
      BY <1>2 DEF allVars
    <3>2. /\ Textless' <=> Textless
          /\ Plain' <=> Plain
          /\ routes' = routes /\ path' = path
          /\ \A n : Answers(routes[n])' <=> Answers(routes[n])
      BY <3>1 DEF vars, Textless, Plain, Answers
    <3>3. (Valueless' <=> Valueless) /\ Views' = Views
      BY <2>1 DEF Valueless, Views
    <3> QED
      BY <2>1, <3>2, <3>3 DEF LuaInv, CrashCauses
  <2> QED
    BY <2>2, <2>3, <2>4, <2>5 DEF LuaInv
<1> QED
  BY <1>1, <1>2

-----------------------------------------------------------------------------
(* The search within the request, and the files of its route.              *)

LEMMA SearchStarts == LuaInit => RouterInv
BY RouterInit DEF LuaInit

LEMMA LuaSearch == RouterInv /\ [LuaNext]_allVars => RouterInv'
<1> SUFFICES ASSUME RouterInv, [LuaNext]_allVars PROVE RouterInv'
  OBVIOUS
<1>1. CASE [Next]_vars
  BY <1>1, RouterStep
<1>2. CASE SearchOver
  <2>1. /\ routes' = << >> /\ path' = <<Empty>> /\ list' = << >> /\ route' = 1
        /\ segment' = 1 /\ rpc' = "build" /\ match' = 0
    BY <1>2 DEF SearchOver, Root
  <2>2. /\ <<Empty>> \in Seq(Pieces \cup {Empty}) /\ Len(<<Empty>>) = 1
        /\ << >> \in Seq(Seq(Words)) /\ << >> \in Seq(Routes) /\ Len(<< >>) = 0
    OBVIOUS
  <2>3. ListInv'
    BY <2>1, <2>2 DEF ListInv, Split
  <2> QED
    BY <2>1, <2>2, <2>3 DEF RouterInv
<1>3. [Next]_vars \/ SearchOver
  <2>1. CASE NewState \/ ConfigFails \/ LoadConfig \/ CombineRoutes \/ NothingCombined
             \/ SendStatic \/ GetPath
    BY <2>1 DEF NewState, ConfigFails, LoadConfig, CombineRoutes, NothingCombined,
                SendStatic, GetPath
  <2>2. CASE \/ Search \/ SearchCrashes \/ NoRoutes \/ RouteMissing
             \/ RouteTableFails \/ RouteFound
    BY <2>2 DEF Search, SearchCrashes, NoRoutes, RouteMissing, RouteTableFails, RouteFound
  <2>3. CASE ModelFails \/ SkipFile \/ NoResponseYet \/ ResponseFails \/ Delay \/ Respond
    BY <2>3 DEF ModelFails, SkipFile, NoResponseYet, ResponseFails, Delay, Respond, vars
  <2>4. CASE RunModel \/ AddConfig
    <3>1. CASE RunModel
      BY <3>1 DEF RunModel, vars
    <3>2. CASE AddConfig
      BY <3>2 DEF AddConfig, vars
    <3> QED
      BY <2>4, <3>1, <3>2
  <2>5. CASE \/ NoModel \/ Serialize \/ SerializeFails \/ KeepModel \/ RenderView
             \/ ViewFails \/ NeitherModelNorView \/ SendViews \/ SendNothing
    <3>1. CASE NoModel \/ Serialize \/ SerializeFails \/ KeepModel
      BY <3>1 DEF NoModel, Serialize, SerializeFails, KeepModel, vars
    <3>2. CASE RenderView \/ ViewFails \/ NeitherModelNorView
      BY <3>2 DEF RenderView, ViewFails, NeitherModelNorView, vars
    <3>3. CASE SendViews \/ SendNothing
      BY <3>3 DEF SendViews, SendNothing, vars
    <3> QED
      BY <2>5, <3>1, <3>2, <3>3
  <2>6. CASE UNCHANGED allVars
    BY <2>6 DEF allVars, vars
  <2> QED
    BY <2>1, <2>2, <2>3, <2>4, <2>5, <2>6, Zenon DEF LuaNext
<1> QED
  BY <1>1, <1>2, <1>3

\* Only the search decides what the route is, and which files it names.
LEMMA TableKept ==
  ASSUME LuaTypes, LuaNext, ~RouteFound
  PROVE  ld'.table = ld.table /\ ld'.files = ld.files
<1> USE DEF LuaTypes
<1>1. ASSUME NEW status, NEW lost, NEW cause, Fail(status, lost, cause)
      PROVE  ld'.table = ld.table /\ ld'.files = ld.files
  BY <1>1 DEF Fail, LdType
<1>2. ASSUME NEW cause, Crash(cause)
      PROVE  ld'.table = ld.table /\ ld'.files = ld.files
  BY <1>2 DEF Crash, LdType
<1>3. CASE \/ NewState \/ ConfigFails \/ LoadConfig \/ NothingCombined
           \/ SendStatic \/ GetPath
  <2>1. CASE NewState \/ LoadConfig
    BY <2>1 DEF NewState, LoadConfig, ConfigLoads
  <2>2. CASE ConfigFails
    BY <1>1, <2>2 DEF ConfigFails
  <2>3. CASE SendStatic
    BY <1>1, <1>2, <2>3 DEF SendStatic
  <2>4. CASE GetPath
    BY <1>1, <1>2, <2>4 DEF GetPath
  <2>5. CASE NothingCombined
    BY <1>2, <2>5 DEF NothingCombined
  <2> QED
    BY <1>3, <2>1, <2>2, <2>3, <2>4, <2>5
<1>4. CASE CombineRoutes
  <2>1. PICK hasRoutes \in BOOLEAN : \E n \in 0 .. MaxRouteFiles :
          LET s == Combined(hasRoutes, n)
              key == s[Len(s) - 1]
              tables == n + (IF hasRoutes THEN 1 ELSE 0)
              cause == CASE tables < 2 -> "fewtables" [] tables > 2 -> "manytables"
                         [] OTHER -> "twotables"
          IN /\ tables > 0
             /\ \/ key = "key" /\ ConfigLoads
                \/ key = "config" /\ Fail(500, {}, cause)
                \/ /\ key \notin {"key", "config"}
                   /\ Fail(500, {"table"}, cause) \/ Crash(cause)
    BY <1>4 DEF CombineRoutes
  <2>2. PICK n \in 0 .. MaxRouteFiles :
          LET tables == n + (IF hasRoutes THEN 1 ELSE 0)
              cause == CASE tables < 2 -> "fewtables" [] tables > 2 -> "manytables"
                         [] OTHER -> "twotables"
          IN ConfigLoads \/ Fail(500, {}, cause) \/ Fail(500, {"table"}, cause)
               \/ Crash(cause)
    BY <2>1
  <2> DEFINE cause == CASE n + (IF hasRoutes THEN 1 ELSE 0) < 2 -> "fewtables"
                        [] n + (IF hasRoutes THEN 1 ELSE 0) > 2 -> "manytables"
                        [] OTHER -> "twotables"
  <2>3. ConfigLoads \/ Fail(500, {}, cause) \/ Fail(500, {"table"}, cause) \/ Crash(cause)
    BY <2>2
  <2> HIDE DEF cause
  <2> QED
    BY <1>1, <1>2, <2>3 DEF ConfigLoads
<1>5. CASE Search \/ SearchCrashes \/ NoRoutes \/ RouteMissing \/ RouteTableFails
  <2>1. \/ \E lost : Fail(404, lost, "noroute")
        \/ \E cause : Crash(cause)
        \/ ld' = ld
    <3>1. CASE Search
      BY <3>1 DEF Search, luaVars
    <3>2. CASE SearchCrashes \/ NoRoutes \/ RouteTableFails
      BY <3>2, Zenon DEF SearchCrashes, NoRoutes, RouteTableFails
    <3>3. CASE RouteMissing
      BY <3>3, Zenon DEF RouteMissing
    <3> QED
      BY <1>5, <3>1, <3>2, <3>3
  <2> QED
    BY <1>1, <1>2, <2>1
<1>6. CASE ModelFails \/ SkipFile \/ ResponseFails \/ Respond
  BY <1>1, <1>6 DEF ModelFails, SkipFile, ResponseFails, Respond
<1>7. CASE RunModel
  <2> DEFINE newOf(ret, r, tcount, m) ==
               [ld EXCEPT !.tcount = tcount, !.model = m.model, !.stack = m.stack,
                  !.returned = Append(@, ret), !.responses = Append(@, r),
                  !.response = IF r.set THEN r ELSE @]
  <2>1. PICK ret \in Returns, r \in Responses \cup {NoResponse} :
          LET values == [i \in DOMAIN ret |->
                           CASE ret[i] = "table" -> Table({<<"model", ld.at>>})
                             [] ret[i] = "empty" -> Table({})
                             [] OTHER -> Scalar]
              tcount == ld.tcount + Len(ld.stack \o values)
              m == SetModel(ld.stack \o values, tcount)
              new == newOf(ret, r, tcount, m)
          IN ld' = new \/ ld' = [new EXCEPT !.cause = "model"]
    BY <1>7 DEF RunModel
  <2>2. PICK tcount, m : LET new == newOf(ret, r, tcount, m)
                         IN ld' = new \/ ld' = [new EXCEPT !.cause = "model"]
    BY <2>1
  <2> QED
    BY <2>2 DEF LdType
<1>8. CASE NoResponseYet \/ Delay
  <2>1. ld' = [ld EXCEPT !.stack = << >>, !.at = ld.at + 1]
    BY <1>8 DEF NoResponseYet, Delay, NextFile
  <2> QED
    BY <2>1 DEF LdType
<1>9. CASE AddConfig
  <2>1. (\E m : ld' = [ld EXCEPT !.model = m]) \/ ld' = [ld EXCEPT !.cause = "model"]
        \/ ld' = ld
    BY <1>9, Zenon DEF AddConfig
  <2> QED
    BY <2>1 DEF LdType
<1>10. CASE NoModel \/ SerializeFails \/ ViewFails \/ NeitherModelNorView
  BY <1>1, <1>10 DEF NoModel, SerializeFails, ViewFails, NeitherModelNorView
<1>11. CASE Serialize \/ KeepModel
  <2>1. ld' = [ld EXCEPT !.zmodel = ld.model.keys]
    BY <1>11 DEF Serialize, KeepModel
  <2> QED
    BY <2>1 DEF LdType
<1>12. CASE RenderView \/ SendViews \/ SendNothing
  <2>1. ld' = ld \/ ld' = [ld EXCEPT !.rendered = ld.rendered + 1]
    BY <1>12 DEF RenderView, SendViews, SendNothing
  <2> QED
    BY <2>1 DEF LdType
<1> QED
  BY <1>3, <1>4, <1>5, <1>6, <1>7, <1>8, <1>9, <1>10, <1>11, <1>12 DEF LuaNext

LEMMA FilesStart == LuaInit => RouteFilesOwn
<1> SUFFICES ASSUME LuaInit PROVE RouteFilesOwn
  OBVIOUS
<1>1. ld.table = << >> /\ ld.files = << >>
  BY DEF LuaInit, NewLd
<1>2. OwnOf(<< >>) = << >>
  BY DEF OwnOf
<1>3. FlattenSeq(<< >>) = << >>
  BY DEF FlattenSeq
<1> QED
  BY <1>1, <1>2, <1>3 DEF RouteFilesOwn, OwnOf

LEMMA FilesStep == LuaInv /\ RouteFilesOwn /\ [LuaNext]_allVars => RouteFilesOwn'
<1> SUFFICES ASSUME LuaInv, RouteFilesOwn, [LuaNext]_allVars PROVE RouteFilesOwn'
  OBVIOUS
<1>1. CASE RouteFound
  <2>1. PICK t \in RouteTables : ld' = [ld EXCEPT !.table = t, !.files = MvcList(t)]
    BY <1>1 DEF RouteFound
  <2>2. ld'.table = t /\ ld'.files = MvcList(t)
    BY <2>1 DEF LuaInv, LuaTypes, LdType
  <2>3. MvcList(t) = FlattenSeq(OwnOf(t))
    BY MvcFiles
  <2> QED
    BY <2>2, <2>3 DEF RouteFilesOwn, OwnOf
<1>2. CASE ~RouteFound
  <2>1. ld'.table = ld.table /\ ld'.files = ld.files
    BY <1>2, TableKept DEF LuaInv, allVars, luaVars
  <2> QED
    BY <2>1 DEF RouteFilesOwn
<1> QED
  BY <1>1, <1>2

-----------------------------------------------------------------------------
(* The theorems.                                                           *)

\* filter_lua frees the environment, the tables and the files of a request on
\* every way out; what it leaves is the descriptor of a static file, and what
\* the delays and contents of a model's response leave.
THEOREM RequestsAreFreed == LuaSpec => []NothingLeaks
<1>1. LuaInv => NothingLeaks
  BY DEF LuaInv
<1> QED
  BY LuaStarts, LuaStep, SearchStarts, LuaSearch, <1>1, PTL DEF LuaSpec

\* Where filter_lua, find_matching_route, init_lua_routes and lua_merge bring
\* the server down, there is the path, file, list of routes, content of routes/
\* or model in the request that CrashCauses names.
THEOREM CrashesHaveCauses == LuaSpec => []CrashCauses
<1>1. LuaInv => CrashCauses
  BY DEF LuaInv
<1> QED
  BY LuaStarts, LuaStep, SearchStarts, LuaSearch, <1>1, PTL DEF LuaSpec

\* The response of the first model that sets one is the answer; otherwise all
\* models have run, and a table that one of them has returned is in what
\* lua_merge has made of them.
THEOREM AnswersHaveSources == LuaSpec => []AnswerSource
<1>1. LuaInv => AnswerSource
  BY DEF LuaInv
<1> QED
  BY LuaStarts, LuaStep, SearchStarts, LuaSearch, <1>1, PTL DEF LuaSpec

\* make_mvc_list gives every request the files that its own route names, for
\* every table of routes.
THEOREM FilesAreTheRoutes == LuaSpec => []RouteFilesOwn
BY LuaStarts, LuaStep, SearchStarts, LuaSearch, FilesStart, FilesStep, PTL DEF LuaSpec

\* find_matching_route as part of filter_lua: the first route that is meant
\* for a path answers it there, too.
THEOREM FirstRouteServes == LuaSpec => []FirstRouteAnswers
BY SearchStarts, LuaSearch, SearchIsRight, PTL DEF LuaSpec
=============================================================================
