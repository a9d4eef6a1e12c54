----------------------------- MODULE SiteConfig -----------------------------
(***************************************************************************)
(* src/configs.c and src/loader.c: the configuration of the server.  A Lua *)
(* file returns a table; lua_to_ztable flattens it into a list of entries  *)
(* in which an entry `end' closes each table, and the loader finds its way *)
(* by counting the depth of the walk.                                      *)
(*                                                                         *)
(* An entry has the type k of its key, its name, and the type v of its     *)
(* value.  Texts are equal when their sources are: the value of an         *)
(* attribute is named after the host that it is written under.             *)
(***************************************************************************)
EXTENDS Integers, FiniteSets, SequencesExt

CONSTANTS
  TableSize,  \* entries there is room for in the table of the file,
  CopySize    \* and in the copy of a host's

ASSUME SizeAssumption == TableSize \in Nat /\ CopySize \in Nat

Attributes == {"dir", "filter", "alias"}

\* "int" is a value of which the table has no text: a number or an empty text.
Kinds == {"text", "int", "table"}

\* Two names stand for an attribute that is missing, and for a null pointer.
Entries ==
  [k : {"text", "int"}, name : STRING \ {"absent", "null"}, v : Kinds,
   attrs : UNION {[A -> Kinds] : A \in SUBSET Attributes}]

\* What Lua can make of a file.  "bad": it is missing or empty, does not compile,
\* fails when it runs, has a key at its first level that is neither text nor a
\* number, or keys too many of which share a hash.  "broken": such a key is in a
\* table below the first level, or there is an empty text for a key or for
\* a value of a host that is none of Attributes.
SiteFiles ==
  [lua : {"table", "bad", "broken", "nomem"}, hosts : {"absent", "text", "table"},
   entries : Seq(Entries),
   wwwroot : {"absent", "int", "inaccessible", "accessible"}]

-----------------------------------------------------------------------------
(* The files: what Lua returns for one, and the table as it is written.    *)

\* Text, boolean and function values all end up as text in the table.
Field(h, a, v) == [of |-> h, k |-> "text", name |-> a, v |-> v]
End(h) == [of |-> h, k |-> "end", name |-> "end", v |-> "none"]

\* lua_to_ztable: a table is followed by what is in it.
Flat(h, a, v) ==
  IF v = "table" THEN <<Field(h, a, v), Field(h, "filter", "text"), End(h)>>
                 ELSE <<Field(h, a, v)>>

Part(e, a) ==
  IF a \in DOMAIN e.attrs THEN Flat(e.name, a, e.attrs[a]) ELSE << >>

Body(e) == Part(e, "alias") \o Part(e, "dir") \o Part(e, "filter")

\* An entry of `hosts': a table under a text key is a host, everything else
\* is not.  `attrs' says which attributes it has and of which type.
IsHost(e) == e.k = "text" /\ e.v = "table"

Open(e) == [of |-> e.name, k |-> e.k, name |-> e.name, v |-> e.v]

HostEntry(e) ==
  IF e.v = "table" THEN <<Open(e)>> \o Body(e) \o <<End(e.name)>> ELSE <<Open(e)>>

\* The entry `hosts' and the first n of what is in it.
Listed(entries) ==
  LET list[n \in 0 .. Len(entries)] ==
        IF n = 0 THEN <<Field("top", "hosts", "table")>>
                 ELSE list[n - 1] \o HostEntry(entries[n])
  IN list

LuaToZtable(site) ==
  (IF site.hosts = "table"
     THEN Listed(site.entries)[Len(site.entries)] \o <<End("top")>>
     ELSE IF site.hosts = "text" THEN <<Field("top", "hosts", "text")>>
                                 ELSE << >>)
  \o (IF site.wwwroot = "absent" THEN << >>
      ELSE <<Field("top", "wwwroot",
                   IF site.wwwroot = "int" THEN "int" ELSE "text")>>)

\* lt_add fails when the table is full, which nobody looks at; lt_finalize and
\* lt_lock go on to write and read what lies behind it.
Fits(site) ==
  /\ Len(LuaToZtable(site)) < TableSize
  /\ \A n \in DOMAIN site.entries :
       IsHost(site.entries[n]) => Len(Body(site.entries[n])) < CopySize

-----------------------------------------------------------------------------
(* The loader.                                                             *)

\* Mutant: tables below the first level are not counted.
CheckEotFlat(e, depth) ==
  IF depth # 0 /\ e.k = "end" THEN depth - 1
  ELSE IF depth = 1 /\ e.v = "table" THEN 2 ELSE depth

\* loader_check_eot: the depth after an entry; it stays 0.
CheckEot(e, depth) ==
  IF depth # 0 /\ e.k = "end" THEN depth - 1
  ELSE IF depth # 0 /\ e.v = "table" THEN depth + 1 ELSE depth

\* lt_exec_complex with loader_iterator: the depth after each entry from
\* `start' on.  The walk is over once the depth is 0.
Iterate(t, start) ==
  LET depth[j \in start - 1 .. Len(t)] ==
        IF j < start THEN 1 ELSE CheckEot(t[j], depth[j - 1])
  IN depth

\* lt_geti: a key is looked up among those of the outermost level.
Outermost(t, i) ==
  Cardinality({j \in 1 .. i - 1 : t[j].v = "table"})
    = Cardinality({j \in 1 .. i : t[j].k = "end"})

Geti(t, key) ==
  LET found == {i \in DOMAIN t : t[i].name = key /\ Outermost(t, i)}
  IN IF found = {} THEN -1 ELSE Min(found)

\* loader_shallow_copy: the entries behind a host's, as far as its table
\* goes; lt_lock closes the copy.
ShallowCopy(t, start) ==
  LET depth == Iterate(t, start)
      over == {j \in start .. Len(t) : depth[j] = 0}
  IN SubSeq(t, start, Min(over \cup {Len(t) + 1}) - 1)

\* loader_get_char_value
GetCharValue(t, key) ==
  LET i == Geti(t, key)
  IN IF i = -1 THEN "absent"
     ELSE IF t[i].v = "text" THEN t[i].of ELSE "null"

\* loader_run with rules of type "s": strdup() of a value that is not text
\* is given a null pointer.
HostOf(t, i) ==
  LET nt == ShallowCopy(t, i + 1)
  IN [name |-> t[i].name, alias |-> GetCharValue(nt, "alias"),
      dir |-> GetCharValue(nt, "dir"), filter |-> GetCharValue(nt, "filter")]

\* hosts_iterator for every entry loader_get_table_value passes to it: the
\* hosts up to each entry.
HostsUpTo(t, i) ==
  LET depth == Iterate(t, i + 1)
      hosts[j \in i .. Len(t)] ==
        IF j = i THEN << >>
        ELSE IF IsHost(t[j]) /\ depth[j] = 2
          THEN Append(hosts[j - 1], HostOf(t, j)) ELSE hosts[j - 1]
  IN hosts

BuildHosts(t) ==
  LET i == Geti(t, "hosts")
  IN IF i = -1 \/ t[i].v # "table" THEN << >> ELSE HostsUpTo(t, i)[Len(t)]

-----------------------------------------------------------------------------
(* build_server_config.  The result is the configuration, a null pointer   *)
(* or a crash, the hosts that were built, and what is still allocated.     *)

Refuse(hosts, held) == [ret |-> "null", hosts |-> hosts, held |-> held]

Crash(hosts) == [ret |-> "crash", hosts |-> hosts, held |-> {}]

\* Mutant: the directory of a host is not asked for.
UnusableFilter(h) == h.filter = "absent"

Unusable(h) == h.dir = "absent" \/ h.filter = "absent"

\* Without memory for the configuration lua_close is not called either.
Discard(site) == IF site.lua = "nomem" THEN {"lua"} ELSE {}

\* For a file that is "broken" strlen() is given a null pointer, or lua_next a
\* key that lua_to_ztable has left on the stack.  What happens behind the end
\* of a table is undefined; here it ends the process.
BuildServerConfig(site) ==
  LET t == LuaToZtable(site)
      hosts == BuildHosts(t)
      broken == \E n \in DOMAIN hosts : \E a \in Attributes : hosts[n][a] = "null"
      unusable == \E n \in DOMAIN hosts : Unusable(hosts[n])
  IN IF site.lua \in {"bad", "nomem"} THEN Refuse(<< >>, Discard(site))
     ELSE IF site.lua = "broken" \/ ~Fits(site) THEN Crash(<< >>)
     ELSE IF broken THEN Crash(hosts)
     ELSE IF hosts = << >> THEN Refuse(hosts, {})
     ELSE IF unusable THEN Refuse(hosts, {"hosts"})
     ELSE IF site.wwwroot \in {"absent", "int"} THEN Crash(hosts)
     ELSE IF site.wwwroot = "inaccessible"
       THEN Refuse(hosts, {"hosts", "wwwroot"})
     ELSE [ret |-> "config", hosts |-> hosts,
           held |-> {"config", "hosts", "table", "wwwroot"}]

\* free_server_config
FreeServerConfig(held) == held \ {"config", "hosts", "table", "wwwroot"}
=============================================================================
