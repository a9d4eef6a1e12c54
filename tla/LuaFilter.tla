------------------------------ MODULE LuaFilter ------------------------------
(***************************************************************************)
(* src/filters/filter-lua.c: filter_lua answers one request from a Lua     *)
(* application.  It loads config.lua, sends a static file or finds the     *)
(* route (module Router), runs the models of the route and merges what     *)
(* they return on the Lua stack, and answers with the response a model has *)
(* set, with the model as JSON or with the views.                          *)
(*                                                                         *)
(* What the site contains and what its Lua code returns is chosen when it  *)
(* is read.  A Lua table is the set of its keys: a model's own are named   *)
(* after its place; "item" is a key that lua_merge makes up.               *)
(***************************************************************************)
EXTENDS Router, FiniteSets, SequencesExt

CONSTANTS
  RouteTables,   \* tables of routes, sequences of entries
  Returns,       \* what models return: sequences of kinds of values
  Responses,     \* response tables that models set
  MaxRouteFiles  \* bound on the files in routes/

ASSUME FilterAssumption ==
  /\ MaxRouteFiles \in Nat
  /\ RouteTables \subseteq Seq([key : STRING, value : {"text", "list", "child"}])
  \* What is behind a content type is read as a text.
  /\ \A t \in RouteTables : \A i \in DOMAIN t :
       t[i].key = "content-type" => t[i].value = "text"
  /\ Returns \subseteq Seq({"table", "empty", "scalar"})
  /\ Responses \subseteq
       [set : {TRUE}, delay : BOOLEAN, status : BOOLEAN,
        content : {"none", "text", "null"}, clen : BOOLEAN,
        file : {"none", "ok", "missing"}, headers : Nat, bad : BOOLEAN]

VARIABLES
  pc,    \* control point
  ld,    \* struct luadata_t, the Lua stack and globals, and what was chosen
  held,  \* what is allocated or open
  res    \* the response

luaVars == <<pc, ld, held, res>>
allVars == <<vars, luaVars>>

\* What free_ld releases.
Ld == {"state", "zconfig", "zroute", "zmodel", "files"}

Nothing == [kind |-> "nil", keys |-> {}]
NoResponse == [set |-> FALSE]

NewLd ==
  [table |-> << >>, files |-> << >>, at |-> 1, stack |-> << >>, tcount |-> 0,
   model |-> Nothing, response |-> NoResponse, zmodel |-> {}, rendered |-> 0,
   cause |-> "none", returned |-> << >>, responses |-> << >>]

NoAnswer == [status |-> 0, body |-> "none", msg |-> FALSE, headers |-> 0]

LuaInit ==
  /\ Init
  /\ pc = "state" /\ ld = NewLd /\ held = {} /\ res = NoAnswer

-----------------------------------------------------------------------------
(* Ways out.                                                               *)

\* http_error clears the response, headers included, and fills it anew; its
\* message is of type STATIC, and not freed with the response.
HttpError(status, kept) ==
  /\ res' = [status |-> status, body |-> "error", msg |-> TRUE, headers |-> 0]
  /\ held' = kept \cup {"errmsg"}
                  \cup (IF res.headers > 0 THEN {"headers"} ELSE {})
  /\ pc' = "done"

\* Mutant: the Lua environment is left to the next request.
FailKeepsState(status, lost, cause) ==
  /\ HttpError(status, (held \ (Ld \ {"state"})) \cup lost)
  /\ ld' = [ld EXCEPT !.cause = cause]

\* free_ld, then http_error.  `lost' is what is not freed, `cause' why.
Fail(status, lost, cause) ==
  /\ HttpError(status, (held \ Ld) \cup lost)
  /\ ld' = [ld EXCEPT !.cause = cause]

\* The response is finalized, or has nothing to be made of.
Answer(status, body, msg, lost) ==
  /\ res' = [res EXCEPT !.status = status, !.body = body, !.msg = msg]
  /\ held' = (held \ Ld) \cup lost
  /\ pc' = "done"

Crash(cause) ==
  /\ pc' = "crash" /\ ld' = [ld EXCEPT !.cause = cause]
  /\ UNCHANGED <<held, res>>

-----------------------------------------------------------------------------
(* The environment, the configuration and static files.                    *)

NewState ==
  /\ pc = "state"
  /\ \/ pc' = "config" /\ held' = {"state"} /\ UNCHANGED <<ld, res>>
     \/ HttpError(500, {}) /\ UNCHANGED ld
  /\ UNCHANGED vars

\* Mutant: the last file is not taken from the stack.
CombinedNoPop(hasRoutes, n) ==
  LET s == <<"config">> \o (IF hasRoutes THEN <<"routes">> ELSE << >>)
             \o [i \in 1 .. n |-> "file"]
  IN InsertAt(s, 2, "key")

\* The Lua stack when the routes of n files have been combined with those of
\* config.lua: each file leaves its table there, one is popped (whatever it
\* is), and the name `routes' goes below the second.
Combined(hasRoutes, n) ==
  LET s == <<"config">> \o (IF hasRoutes THEN <<"routes">> ELSE << >>)
             \o [i \in 1 .. n |-> "file"]
  IN InsertAt(Front(s), 2, "key")

\* config.lua does not run or is no table, or a file in routes/ does not or
\* has the wrong keys or values.
ConfigFails ==
  /\ pc = "config"
  /\ \/ Fail(500, {}, "config")
     \/ MaxRouteFiles > 0 /\ Fail(500, {"dir"}, "routefile")
  /\ UNCHANGED vars

ConfigLoads ==
  /\ pc' = "static" /\ held' = held \cup {"zconfig"}
  /\ UNCHANGED <<ld, res>>

\* There are no files in routes/.
LoadConfig == pc = "config" /\ ConfigLoads /\ UNCHANGED vars

\* lua_settable takes the two topmost values for a key and a value.  Only
\* the name `routes' is a key lua_to_ztable and lua_count can cope with.  Of
\* the entries in routes/ named .lua, n are files and are loaded.
CombineRoutes ==
  /\ pc = "config"
  /\ \E hasRoutes \in BOOLEAN, n \in 0 .. MaxRouteFiles :
       LET s == Combined(hasRoutes, n)
           key == s[Len(s) - 1]
           tables == n + (IF hasRoutes THEN 1 ELSE 0)
           cause == CASE tables < 2 -> "fewtables" [] tables > 2 -> "manytables"
                      [] OTHER -> "twotables"
       IN /\ tables > 0
          /\ \/ key = "key" /\ ConfigLoads
             \/ key = "config" /\ Fail(500, {}, cause)
             \/ /\ key \notin {"key", "config"}
                /\ Fail(500, {"table"}, cause) \/ Crash(cause)
  /\ UNCHANGED vars

\* No file is loaded and config.lua has no routes: the configuration itself is
\* popped, and lua_settable takes the name `routes' for the table to set.
NothingCombined ==
  /\ pc = "config" /\ MaxRouteFiles > 0
  /\ Crash("nofiles") /\ UNCHANGED vars

\* path_is_static and send_static.  The file may be missing or unreadable; an
\* empty one has no length, for which http_finalize_response looks at a
\* body that a file does not have.
SendStatic ==
  /\ pc = "static"
  /\ \/ Fail(404, {}, "missing")
     \/ Answer(200, "static", TRUE, {"fd"}) /\ UNCHANGED ld
     \/ Crash("emptyfile")
  /\ UNCHANGED vars

\* getpath: a `?' too far behind is an error.  A path without one is copied
\* whatever its length, over what follows apath in the structure.
GetPath ==
  /\ pc = "static"
  /\ \/ pc' = "route" /\ UNCHANGED <<ld, held, res>>
     \/ Fail(500, {}, "path")
     \/ Crash("longpath")
  /\ UNCHANGED vars

-----------------------------------------------------------------------------
(* find_matching_route and make_mvc_list.                                  *)

\* The locals of find_matching_route are gone.
SearchOver ==
  /\ routes' = << >> /\ path' = Root /\ list' = << >> /\ route' = 1
  /\ segment' = 1 /\ rpc' = "build" /\ match' = 0

Search == pc = "route" /\ Next /\ UNCHANGED luaVars

SearchCrashes ==
  /\ pc = "route" /\ rpc = "crash"
  /\ Crash("search") /\ UNCHANGED vars

\* `routes' is there and has nothing in it: there is no list to go through.
NoRoutes ==
  /\ pc = "route" /\ rpc = "resolve" /\ routes = << >>
  /\ Crash("noroutes") /\ UNCHANGED vars

\* The copy of the table of routes is freed only for a route that matches.
RouteMissing ==
  /\ pc = "route" /\ rpc = "done" /\ match = 0
  /\ Fail(404, IF routes = << >> THEN {} ELSE {"table"}, "noroute")
  /\ SearchOver

\* The table of a route as lua_to_ztable lays it out, with an entry at the end
\* of each table in it.
Item(k, v) == [key |-> k, value |-> v]
Flat(e) ==
  CASE e.value = "text" -> <<Item(e.key, "text")>>
    [] e.value = "list" -> <<Item(e.key, "table"), Item("0", "text"),
                             Item("1", "text"), Item("end", "end")>>
    [] e.value = "child" -> <<Item(e.key, "table"), Item("model", "text"),
                              Item("end", "end")>>

Mset(key) ==
  CASE key \in {"model", "models"} -> "model" [] key = "query" -> "query"
    [] key \in {"view", "views"} -> "view" [] OTHER -> "ctype"

Reserved == {"model", "models", "query", "view", "views", "content-type"}

\* Mutant: the end of a list does not end what it is for.
ListEntryRuns(s, e) ==
  LET named == s.depth = 1 /\ e.key \in Reserved
      mset == IF named THEN Mset(e.key) ELSE s.mset
      type == IF named THEN e.value ELSE s.type
      added == IF mset \in {"model", "query", "view"} /\ e.value = "text"
                 THEN Append(s.files, mset) ELSE s.files
  IN IF named /\ mset = "ctype" THEN [s EXCEPT !.mset = mset, !.type = type]
     ELSE IF e.value = "table"
       THEN [s EXCEPT !.mset = mset, !.type = type, !.depth = @ + 1]
     ELSE [files |-> added, type |-> type,
           mset |-> IF type = "text" THEN "none" ELSE mset,
           depth |-> IF e.value = "end" THEN s.depth - 1 ELSE s.depth]

\* make_mvc_list for one entry: a reserved key on the first level says what
\* the texts behind it are, up to the end of its value.
ListEntry(s, e) ==
  LET named == s.depth = 1 /\ e.key \in Reserved
      mset == IF named THEN Mset(e.key) ELSE s.mset
      type == IF named THEN e.value ELSE s.type
      added == IF mset \in {"model", "query", "view"} /\ e.value = "text"
                 THEN Append(s.files, mset) ELSE s.files
  IN IF named /\ mset = "ctype" THEN [s EXCEPT !.mset = mset, !.type = type]
     ELSE IF e.value = "table"
       THEN [s EXCEPT !.mset = mset, !.type = type, !.depth = @ + 1]
     ELSE [files |-> added, type |-> type,
           mset |-> IF e.value = "end" \/ type = "text" THEN "none" ELSE mset,
           depth |-> IF e.value = "end" THEN s.depth - 1 ELSE s.depth]

MvcList(table) ==
  FoldLeft(ListEntry,
           [depth |-> 1, mset |-> "none", type |-> "none", files |-> << >>],
           FlattenSeq([i \in DOMAIN table |-> Flat(table[i])])).files

\* Two `/' in a row, which are not all the path has.
Doubled == \E i \in 1 .. Len(path) - 1 : path[i] = Empty

\* init_lua_routes counts what is between two `/' as a part of the path, and
\* for that one the route has none: nothing is pushed for a key, the table is
\* taken for it, and setting `active' raises an error nobody catches.
RouteTableFails ==
  /\ pc = "route" /\ rpc = "done" /\ match # 0 /\ Doubled
  /\ Crash("doubled") /\ UNCHANGED vars

\* The globals `config', `request' and `route' are set.
RouteFound ==
  /\ pc = "route" /\ rpc = "done" /\ match # 0 /\ ~Doubled
  /\ \E t \in RouteTables :
       ld' = [ld EXCEPT !.table = t, !.files = MvcList(t)]
  /\ held' = held \cup {"zroute", "files"}
  /\ pc' = "models" /\ UNCHANGED res
  /\ SearchOver

-----------------------------------------------------------------------------
(* Models.                                                                 *)

Table(keys) == [kind |-> "table", keys |-> keys]
Scalar == [kind |-> "scalar", keys |-> {}]

\* lua_merge goes down the stack and fills a new table below it.  A table with
\* keys is consumed by lua_next, which must find its last key on the top: a
\* value without keys, which is copied but not popped, makes it raise an error
\* that nobody catches.  What is not consumed stays above the new table.
Merge(stack) ==
  LET keyless == {i \in DOMAIN stack : stack[i].keys = {}}
      keys == (UNION {stack[i].keys : i \in DOMAIN stack})
                \cup (IF keyless = {} THEN {} ELSE {<<"item", 0>>})
  IN IF Len(stack) < 2 THEN [stack |-> stack, panic |-> FALSE]
     ELSE [stack |-> <<Table(keys)>> \o SubSeq(stack, 1, Max(keyless \cup {0})),
           panic |-> \E i \in keyless, j \in DOMAIN stack \ keyless : j < i]

\* Mutant: what earlier models have left is not merged.
SetModelReplaces(stack, tcount) ==
  LET m == IF tcount > 1 THEN Merge(stack) ELSE [stack |-> stack, panic |-> FALSE]
      set == m.stack # << >>
  IN [model |-> IF set THEN Last(m.stack) ELSE ld.model,
      stack |-> IF set THEN Front(m.stack) ELSE m.stack, panic |-> m.panic]

\* The stack after a model, with the global `model' on top if both are
\* needed.  What lua_setglobal takes is the top, whatever it is.
SetModel(stack, tcount) ==
  LET both == IF ld.model = Nothing THEN stack ELSE Append(stack, ld.model)
      m == IF tcount > 1 THEN Merge(both) ELSE [stack |-> stack, panic |-> FALSE]
      set == tcount > 1 \/ stack # << >>
  IN [model |-> IF set THEN Last(m.stack) ELSE ld.model,
      stack |-> IF set THEN Front(m.stack) ELSE m.stack, panic |-> m.panic]

AtFile(kind) ==
  pc = "models" /\ ld.at <= Len(ld.files) /\ ld.files[ld.at] = kind

\* lua_exec_file fails, and clears the stack.
ModelFails ==
  /\ AtFile("model") /\ Fail(500, {}, "model")
  /\ UNCHANGED vars

\* A model returns values and may set the global `response'.
RunModel ==
  /\ AtFile("model")
  /\ \E ret \in Returns, r \in Responses \cup {NoResponse} :
       LET values == [i \in DOMAIN ret |->
                        CASE ret[i] = "table" -> Table({<<"model", ld.at>>})
                          [] ret[i] = "empty" -> Table({})
                          [] OTHER -> Scalar]
           tcount == ld.tcount + Len(ld.stack \o values)
           m == SetModel(ld.stack \o values, tcount)
           new == [ld EXCEPT !.tcount = tcount, !.model = m.model,
                     !.stack = m.stack, !.returned = Append(@, ret),
                     !.responses = Append(@, r),
                     !.response = IF r.set THEN r ELSE @]
       IN IF m.panic
            THEN pc' = "crash" /\ ld' = [new EXCEPT !.cause = "model"]
            ELSE pc' = "response" /\ ld' = new
  /\ UNCHANGED <<held, res, vars>>

\* The loop goes over views and queries too.
SkipFile ==
  /\ AtFile("view") \/ AtFile("query")
  /\ pc' = "response" /\ UNCHANGED <<ld, held, res, vars>>

NextFile(headers) ==
  /\ ld' = [ld EXCEPT !.stack = << >>, !.at = @ + 1]
  /\ res' = [res EXCEPT !.headers = @ + headers]
  /\ pc' = "models"

\* lua_retglobal clears the stack if there is no such table.
NoResponseYet ==
  /\ pc = "response" /\ ~ld.response.set
  /\ NextFile(0) /\ UNCHANGED <<held, vars>>

\* What return_as_response reads is the bottom of the stack.
Read == IF ld.stack = << >> THEN ld.response
        ELSE [set |-> TRUE, delay |-> FALSE, status |-> FALSE, content |-> "none",
              clen |-> FALSE, file |-> "none", headers |-> 0, bad |-> FALSE]

\* The text that stands in for a missing one is an allocation of its own.
OwnText(r) == ~r.delay /\ r.content = "null" /\ ~r.clen
Kept(r) == (IF OwnText(r) THEN {"own"} ELSE {})

\* A response that is an error, and what it leaves allocated: rt if a header
\* is bad, which is looked at last.
StatusOnly(r) == ~r.delay /\ r.status /\ r.file = "none" /\ r.content = "none"
FileMissing(r) == ~r.delay /\ r.file = "missing"
Rejects(r) == FileMissing(r) \/ StatusOnly(r) \/ r.bad
Rejected(r) ==
  IF FileMissing(r) \/ StatusOnly(r) THEN Kept(r)
  ELSE {"rt"} \cup Kept(r)
         \cup (IF ~r.delay /\ r.file = "ok" THEN {"content"} ELSE {})

\* The table cannot be made or converted, or not be locked.
ResponseFails ==
  /\ pc = "response" /\ ld.response.set
  /\ \/ Rejects(Read) /\ Fail(500, Rejected(Read), "response")
     \/ \E lost \in {{}, {"rt"}} : Fail(500, lost, "table")
  /\ UNCHANGED vars

\* A delayed response only sets its headers, whose values stay in the table.
Delay ==
  /\ pc = "response" /\ ld.response.set /\ ~Rejects(Read) /\ Read.delay
  /\ NextFile(Read.headers) /\ held' = held \cup {"rt"}
  /\ UNCHANGED vars

\* Without text there is nothing to finalize; nobody looks whether it was.
Respond ==
  /\ pc = "response" /\ ld.response.set /\ ~Rejects(Read) /\ ~Read.delay
  /\ Answer(200, "response",
            OwnText(Read) \/ Read.content = "text" \/ Read.file = "ok",
            IF Read.file = "ok" THEN Kept(Read) ELSE {})
  /\ UNCHANGED <<ld, vars>>

-----------------------------------------------------------------------------
(* The model and the views.                                                *)

Has(key) == \E i \in DOMAIN ld.table : ld.table[i].key = key
Views == {i \in DOMAIN ld.files : ld.files[i] = "view"}
ModelsOver == pc = "models" /\ ld.at > Len(ld.files)

\* For views the configuration is merged into the model.
AddConfig ==
  /\ ModelsOver
  /\ LET both == IF ld.model = Nothing THEN <<Table({<<"config", 0>>})>>
                 ELSE <<Table({<<"config", 0>>}), ld.model>>
         m == Merge(both)
     IN IF Views = {} THEN pc' = "model" /\ UNCHANGED ld
        ELSE IF m.panic THEN pc' = "crash" /\ ld' = [ld EXCEPT !.cause = "model"]
        ELSE pc' = "model" /\ ld' = [ld EXCEPT !.model = Last(m.stack)]
  /\ UNCHANGED <<held, res, vars>>

\* No table: nothing to convert.
NoModel ==
  /\ pc = "model" /\ ld.model.kind # "table"
  /\ pc' = "views" /\ UNCHANGED <<ld, held, res, vars>>

\* The model may be the answer: the route has a content type, or no `view'.
Serializes == Has("content-type") \/ ~Has("view")

\* JSON, unless the content type is of another kind of text.
Serialize ==
  /\ pc = "model" /\ ld.model.kind = "table" /\ Serializes
  /\ ld.model.keys # {}
  /\ Answer(200, "json", TRUE, {})
  /\ ld' = [ld EXCEPT !.zmodel = ld.model.keys]
  /\ UNCHANGED vars

\* The table cannot be made or converted; what it becomes is an empty text.
SerializeFails ==
  /\ pc = "model" /\ ld.model.kind = "table"
  /\ \/ Fail(500, {}, "table")
     \/ Serializes /\ Fail(500, {}, "text")
  /\ UNCHANGED vars

\* There is a view, and no content type or an unknown one.
KeepModel ==
  /\ pc = "model" /\ ld.model.kind = "table" /\ Has("view")
  /\ ld' = [ld EXCEPT !.zmodel = ld.model.keys]
  /\ held' = held \cup {"zmodel"}
  /\ pc' = "views" /\ UNCHANGED <<res, vars>>

Ready == pc = "views" /\ ld.rendered = Cardinality(Views)

RenderView ==
  /\ pc = "views" /\ ld.rendered < Cardinality(Views)
  /\ ld' = [ld EXCEPT !.rendered = @ + 1]
  /\ held' = held \cup {"content"}
  /\ UNCHANGED <<pc, res, vars>>

\* A view is missing or empty or cannot be rendered; what was rendered
\* before it is lost.
ViewFails ==
  /\ pc = "views" /\ ld.rendered < Cardinality(Views)
  /\ Fail(500, {}, "view")
  /\ UNCHANGED vars

NeitherModelNorView ==
  /\ Ready /\ ld.returned = << >> /\ Views = {}
  /\ Fail(500, {}, "nothing")
  /\ UNCHANGED vars

SendViews ==
  /\ Ready /\ Views # {}
  /\ res' = [res EXCEPT !.status = 200, !.body = "views", !.msg = TRUE]
  /\ held' = held \ (Ld \cup {"content"})
  /\ pc' = "done" /\ UNCHANGED <<ld, vars>>

\* The views came to nothing, or a model is no table and there are none.
SendNothing ==
  /\ Ready /\ <<ld.returned, Views>> # << << >>, {} >>
  /\ Answer(200, "none", FALSE, {"ctype"})
  /\ UNCHANGED <<ld, vars>>

-----------------------------------------------------------------------------
LuaNext ==
  \/ NewState \/ ConfigFails \/ LoadConfig \/ CombineRoutes \/ NothingCombined
  \/ SendStatic \/ GetPath
  \/ Search \/ SearchCrashes \/ NoRoutes \/ RouteMissing \/ RouteTableFails
  \/ RouteFound
  \/ ModelFails \/ RunModel \/ SkipFile
  \/ NoResponseYet \/ ResponseFails \/ Delay \/ Respond
  \/ AddConfig \/ NoModel \/ Serialize \/ SerializeFails \/ KeepModel
  \/ RenderView \/ ViewFails \/ NeitherModelNorView
  \/ SendViews \/ SendNothing

LuaSpec == LuaInit /\ [][LuaNext]_allVars

-----------------------------------------------------------------------------
(* Properties.                                                             *)

Done == pc = "done"
Answered(body) == Done /\ res.msg /\ res.body = body

\* The files that an entry of a route names: two in a list, none behind a
\* content type or another key.
Own(e) ==
  LET m == Mset(e.key)
  IN IF e.key \notin Reserved \/ m = "ctype" THEN << >>
     ELSE IF e.value = "list" THEN <<m, m>> ELSE <<m>>

\* The files of a request are those its route names itself, in their order:
\* none that a route below it names, and none behind a content type.
RouteFilesOwn ==
  ld.files = FlattenSeq([i \in DOMAIN ld.table |-> Own(ld.table[i])])

Delayed == \E i \in DOMAIN ld.responses :
             ld.responses[i].set /\ ld.responses[i].delay
Final(i) == ld.responses[i].set /\ ~ld.responses[i].delay
ModelsRan == Len(ld.returned)
             = Cardinality({i \in DOMAIN ld.files : ld.files[i] = "model"})

TablesReturned ==
  {i \in DOMAIN ld.returned : \E n \in DOMAIN ld.returned[i] :
     ld.returned[i][n] = "table"}
FromModels == {k \in ld.zmodel : k[1] = "model"}

\* The first model that sets a response which is not delayed has the last
\* word: no model runs after it.  Without one every model runs, and what each
\* has returned is in the answer: in JSON, also for a route with `views', or
\* in the views of a route with the key `view'.
AnswerSource ==
  /\ Answered("response") =>
       \A i \in DOMAIN ld.responses : Final(i) <=> i = Len(ld.responses)
  /\ Answered("json") \/ Answered("views") =>
       /\ ModelsRan /\ \A i \in DOMAIN ld.responses : ~Final(i)
       /\ Cardinality(FromModels) = Cardinality(TablesReturned)
  /\ Answered("views") => Has("view")

Valueless == \E i \in DOMAIN ld.returned : \E n \in DOMAIN ld.returned[i] :
               ld.returned[i][n] # "table"

\* What a request brings the server down for in this model: a path longer
\* than its buffer, one router.c finds no text in, one with two `/' in a row
\* that a route matches, an empty static file, an empty list of routes, too
\* many or no files in routes/, and a model that returns no table with keys
\* where something has to be merged.  A short path of plain words is no cause.
CrashCauses ==
  pc = "crash" =>
    \/ ld.cause \in {"emptyfile", "manytables", "nofiles", "longpath"}
    \/ ld.cause = "noroutes" /\ routes = << >>
    \/ ld.cause = "search" /\ Textless /\ path # Root
    \/ ld.cause = "doubled" /\ ~Plain /\ \E n \in DOMAIN routes : Answers(routes[n])
    \/ /\ ld.cause = "model" /\ Valueless
       /\ Views # {} \/ ld.tcount > 1

\* Every way out frees what belongs to the request.  The descriptor of a
\* file is left to the response that sends it; a request that is answered
\* leaves nothing else unless a model has delayed its response or given
\* two contents.
NothingLeaks ==
  Done =>
    /\ held \cap Ld = {}
    /\ "fd" \in held <=> Answered("static")
    /\ (res.body # "error" /\ res.msg /\ ~Delayed) => held \subseteq {"fd", "own"}
    /\ "rt" \in held => Delayed \/ ld.cause \in {"table", "response"}
    /\ "table" \in held => ld.cause \in {"noroute", "manytables"}
=============================================================================
