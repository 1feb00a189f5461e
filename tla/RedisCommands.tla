--------------------------- MODULE RedisCommands ----------------------------
(***************************************************************************)
(* The commands of redis/redis.c.  Each awk function passes its arguments  *)
(* and the name of the command to one of some fifty functions tipo...,     *)
(* which differ in how many arguments they take, what they validate, how   *)
(* they build argv for hiredis and how they hand the reply to awk.  Here   *)
(* such a function is the set of its forms, one for each number of         *)
(* arguments or subcommand it accepts; RedisCalls runs a call by its form. *)
(*                                                                         *)
(* An argument is SCALAR, or the length of an awk array with the indices 1 *)
(* to that length; a is the sequence of arguments after the connection.    *)
(***************************************************************************)
EXTENDS Integers, Sequences, FiniteSets

CONSTANT
  OptionWords \* numbers of words a string of options of SORT is split into

ASSUME OptionsAssumption == OptionWords \subseteq Nat

SCALAR == -1

\* The number of strings an argv started by mem_cdo has room for.
ArgvSlots == 25

-----------------------------------------------------------------------------
(* Forms.  words says what goes into each slot of argv: 0 is a fixed word, *)
(* k > 0 argument k read as a string, -k one element of the array argument *)
(* k.  cap is the number of slots allocated (0: hiredis formats the        *)
(* command), lost the number of blocks allocated and forgotten while argv  *)
(* is built, sync and piped what is freed at the end of a call with a      *)
(* connection and with a pipeline handle, and answer what a piped call     *)
(* returns.  torn are arguments read as numbers and used as strings.       *)

Argv(valid, words) ==
  [valid |-> valid, nargs |-> Len(valid), sub |-> "", words |-> words,
   cap |-> ArgvSlots, torn |-> {}, conv |-> "none", dest |-> 0, lost |-> 0,
   sync |-> "all", piped |-> "all", answer |-> "one"]

\* The command is handed to redisCommand with a format; there is no argv.
Format(valid, words) == [Argv(valid, words) EXCEPT !.cap = 0]

\* Mutant of Counted: no slot is counted for the name of the command.
CountedShort(valid, words) ==
  [Argv(valid, words) EXCEPT !.cap = Len(words) - 1]

\* getArrayContent and getArrayContentCont allocate a slot for each word.
Counted(valid, words) == [Argv(valid, words) EXCEPT !.cap = Len(words)]

\* An array reply is stored by conv into the array argument dest.
Into(form, conv, dest) == [form EXCEPT !.conv = conv, !.dest = dest]

Sub(form, name) == [form EXCEPT !.sub = name]

\* The elements of the array argument k, one slot each.
Elements(a, k) ==
  [i \in 1 .. (IF k \in DOMAIN a /\ a[k] > 0 THEN a[k] ELSE 0) |-> -k]

S == "string"
N == "number"
A == "array"

-----------------------------------------------------------------------------
(* The functions tipo..., in the order of the source.                      *)

Exec(a) == {Into(Format(<<A>>, <<0>>), "tipoExec", 1)}

\* Without an array the reply of SLOWLOG GET has no place to go; a piped call
\* returns the NULL that pstr was initialised with.
Slowlog(a) ==
  {[f EXCEPT !.answer = "null"] :
     f \in {Argv(<<S>>, <<0, 1>>),
            Into(Argv(<<S, A>>, <<0, 1>>), "tipoExec", 2),
            Into(Argv(<<S, S, A>>, <<0, 1, 2>>), "tipoExec", 3)}}

\* The keys and arguments of the script are the elements of argument 3.
Evalsha(a) ==
  {[Into(Counted(<<S, N, A, A>>, <<0, 1, 2>> \o Elements(a, 3)), "tipoExec", 4)
      EXCEPT !.piped = "none"]}

Zrangebylex(a) == {Into(Format(<<S, A, S, S>>, <<0, 1, 3, 4>>), "theRest", 2)}

Sscan(a) ==
  {Into(Format(<<S, N, A>>, <<0, 1, 2>>), "tipoScan", 3),
   Into(Format(<<S, N, A, S>>, <<0, 1, 2, 0, 4>>), "tipoScan", 3)}

Scan(a) ==
  {Into(Argv(<<N, A>>, <<0, 1>>), "tipoScan", 2),
   Into(Argv(<<N, A, S>>, <<0, 1, 0, 3>>), "tipoScan", 2)}

Select(a) == {Format(<<N>>, <<0, 1>>)}

Randomkey(a, cmd) ==
  {Argv(<<>>, IF cmd = "configResetStat" THEN <<0, 0>> ELSE <<0>>)}

ClientOne(a) == {Argv(<<>>, <<0, 0>>)}

\* CLIENT LIST and the others take a string or an array; the reply of CLIENT
\* LIST is stored into the array whether it is there or not.
ClientTwo(a, cmd) ==
  LET head == IF cmd \in {"clientKillAddr", "clientKillId", "clientKillType"}
              THEN <<0, 0, 0>> ELSE <<0, 0>>
      conv == IF cmd = "clientList" THEN "tipoClient" ELSE "none"
  IN {Into(Argv(<<S>>, head \o <<1>>), conv, 0),
      Into(Argv(<<A>>, head), conv, 1)}

Script(a) ==
  {Sub(Into(Argv(<<S, S>>, <<0, 0, 2>>), "theRest", 0), "load"),
   Sub(Into(Argv(<<S>>, <<0, 0>>), "theRest", 0), "kill"),
   Sub(Into(Argv(<<S>>, <<0, 0>>), "theRest", 0), "flush"),
   Sub(Into(Counted(<<S, A, A>>, <<0, 1>> \o Elements(a, 2)), "theRest", 3),
       "exists")}

Scard(a) == {Argv(<<S>>, <<0, 1>>)}

\* NUMSUB reads argument 2 as an array where a string has been accepted too,
\* CHANNELS the other way round; the channels go into the slots of mem_cdo.
Pubsub(a) ==
  {Sub(Argv(<<S>>, <<0, 1>>), "numpat"),
   Sub(Into(Argv(<<S, A>>, <<0, 1>>), "theRest", 2), "channels"),
   Sub(Into(Argv(<<S, "either", A>>, <<0, 1, 2>>), "theRest", 3), "channels"),
   Sub(Into(Argv(<<S, "either", A>>, <<0, 1>> \o Elements(a, 2)),
            "theRest1", 3), "numsub")}

Spop(a) ==
  {Argv(<<S>>, <<0, 1>>), Into(Argv(<<S, N, A>>, <<0, 1, 2>>), "theRest", 3)}

\* The timeout is put behind the keys, into a slot getArrayContent has not
\* allocated.
Brpop(a) ==
  LET keys == <<0>> \o Elements(a, 1) IN
  {Into(Argv(<<S, A, N>>, <<0, 1, 3>>), "theRest", 2),
   Into([Counted(<<A, A, N>>, keys \o <<3>>) EXCEPT !.cap = Len(keys)],
        "theRest", 2)}

Sinter(a) ==
  {Into(Counted(<<A, A>>, <<0>> \o Elements(a, 1)), "theRest", 2)}

Subscribe(a) ==
  {Argv(<<S>>, <<0, 1>>), Counted(<<A>>, <<0>> \o Elements(a, 1))}

\* argv is begun before the kind of the members is known and begun again.
Sadd(a) ==
  {[Argv(<<S, S>>, <<0, 1, 2>>) EXCEPT !.lost = 1],
   [Counted(<<S, A>>, <<0, 1>> \o Elements(a, 2)) EXCEPT !.lost = 2]}

Getrange(a) == {Argv(<<S, N, N>>, <<0, 1, 2, 3>>)}

Zadd(a) ==
  {Argv(<<S, N, S>>, <<0, 1, 2, 3>>),
   Counted(<<S, A>>, <<0, 1>> \o Elements(a, 2))}

Setrange(a) == {Argv(<<S, N, S>>, <<0, 1, 2, 3>>)}

Bitcount(a) == {Argv(<<S>>, <<0, 1>>), Argv(<<S, N, N>>, <<0, 1, 2, 3>>)}

\* The range is read as numbers, and the strings of the values are used.
Bitpos(a) ==
  {Argv(<<S, N>>, <<0, 1, 2>>),
   [Argv(<<S, N, N>>, <<0, 1, 2, 3>>) EXCEPT !.torn = {3}],
   [Argv(<<S, N, N, N>>, <<0, 1, 2, 3, 4>>) EXCEPT !.torn = {3, 4}]}

Geodist(a) ==
  {Argv(<<S, S, S>>, <<0, 1, 2, 3>>), Argv(<<S, S, S, S>>, <<0, 1, 2, 3, 4>>)}

\* The options of the four radius functions: none, an order, a count, or both.
\* valid and words are those of the call without options, k its last argument.
Radius(valid, words, k, extra, conv) ==
  {Into(Argv(valid, words \o extra), conv, 2),
   Into(Argv(valid \o <<S>>, words \o <<k + 1>> \o extra), conv, 2),
   Into(Argv(valid \o <<S>>, words \o <<0, k + 1>> \o extra), conv, 2),
   Into(Argv(valid \o <<S, N>>, words \o <<k + 1, 0, k + 2>> \o extra),
        conv, 2)}

Georadius(a) ==
  Radius(<<S, A, N, N, N, S>>, <<0, 1, 3, 4, 5, 6>>, 6, <<>>, "theRest")

Georadiusbymember(a) ==
  Radius(<<S, A, S, N, S>>, <<0, 1, 3, 4, 5>>, 5, <<>>, "theRest")

\* WD and WC ask for the distance or the coordinates, WDWC for both.
Wanted(cmd) ==
  IF cmd \in {"georadiusWDWC", "georadiusbymemberWDWC"} THEN <<0, 0>> ELSE <<0>>

GeoradiusWD(a, cmd) ==
  Radius(<<S, A, N, N, N, S>>, <<0, 1, 3, 4, 5, 6>>, 6, Wanted(cmd),
         "tipoExec")

GeoradiusbymemberWD(a, cmd) ==
  Radius(<<S, A, S, N, S>>, <<0, 1, 3, 4, 5>>, 5, Wanted(cmd), "tipoExec")

Setbit(a) == {Format(<<S, N, N>>, <<0, 1, 2, 3>>)}

\* The operator NOT is refused with an array.
Bitop(a) ==
  {Sub(Argv(<<S, S, S>>, <<0, 1, 2, 3>>), "NOT"),
   Sub(Argv(<<S, S, S>>, <<0, 1, 2, 3>>), "AND"),
   Sub(Counted(<<S, S, A>>, <<0, 1, 2>> \o Elements(a, 3)), "AND")}

Linsert(a) == {Argv(<<S, S, S>>, <<0, 1, 0, 2, 3>>)}

Smove(a) == {Argv(<<S, S, S>>, <<0, 1, 2, 3>>)}

Zincrby(a) == {Argv(<<S, N, S>>, <<0, 1, 2, 3>>)}

Hincrby(a) == {Argv(<<S, S, N>>, <<0, 1, 2, 3>>)}

Restore(a) == {Format(<<S, S, S>>, <<0, 1, 2, 3>>)}

Expire(a) == {Format(<<S, N>>, <<0, 1, 2>>)}

\* Only the first two arguments are validated, whatever the number of them.
Set(a) ==
  {[Argv(<<S, S>>, [i \in 1 .. n + 1 |-> i - 1]) EXCEPT !.nargs = n] :
     n \in 2 .. 5}

Sismember(a, cmd) ==
  {Argv(<<S, S>>, IF cmd = "configSet" THEN <<0, 0, 1, 2>> ELSE <<0, 1, 2>>)}

Object(a) ==
  {Sub(Argv(<<S, S>>, <<0, 1, 2>>), name) :
     name \in {"refcount", "idletime", "encoding"}}

Zrange(a, cmd) ==
  {Into(Argv(<<S, A, N, N>>,
             IF cmd \in {"zrangeWithScores", "zrevrangeWithScores"}
             THEN <<0, 1, 3, 4, 0>> ELSE <<0, 1, 3, 4>>), "theRest", 2)}

\* Argument 3 is an array of weights or, as a string, the two words of an
\* AGGREGATE clause, which come last if both are given.  A clause without a space
\* ends the call (CutNowhere in RedisCalls).
Zunionstore(a) ==
  LET keys    == <<0, 1, 0>> \o Elements(a, 2)
      weights == <<0>> \o Elements(a, 3)
  IN {Counted(<<S, A>>, keys),
      Counted(<<S, A, S>>, keys \o <<3, 3>>),
      Counted(<<S, A, A>>, keys \o weights),
      Counted(<<S, A, A, S>>, keys \o weights \o <<4, 4>>)}

\* The words of a string of options.
Split(k, n) == [i \in 1 .. n |-> k]

\* sort and its variants store into a key (STORE) or into the array argument.
SortLimit(a, cmd) ==
  LET store == cmd = "sortLimitStore"
      head  == <<0, 1, 0, 3, 4>>
      tail  == IF store THEN <<0, 2>> ELSE <<>>
      type  == IF store THEN S ELSE A
      dest  == IF store THEN 0 ELSE 2
  IN {Into(Argv(<<S, type, N, N>>, head \o tail), "theRest", dest)}
     \cup {Into(Argv(<<S, type, N, N, S>>, head \o Split(5, n) \o tail),
                "theRest", dest) : n \in OptionWords}

Sort(a, cmd) ==
  LET store == cmd = "sortStore"
      tail  == IF store THEN <<0, 2>> ELSE <<>>
      type  == IF store THEN S ELSE A
      dest  == IF store THEN 0 ELSE 2
  IN {Into(Argv(<<S, type>>, <<0, 1>> \o tail), "theRest", dest)}
     \cup {Into(Argv(<<S, type, S>>, <<0, 1>> \o Split(3, n) \o tail),
                "theRest", dest) : n \in OptionWords}

\* Mutant of Keys: the array is not passed to processREPLY.
KeysDropped(a, cmd) == {Argv(<<S, A>>, <<0, 1>>)}

Keys(a, cmd) ==
  {Into(Argv(<<S, A>>, IF cmd = "configGet" THEN <<0, 0, 1>> ELSE <<0, 1>>),
        "theRest", 2)}

Geohash(a) ==
  {Into(Counted(<<S, A, A>>, <<0, 1>> \o Elements(a, 2)), "theRest", 3)}

Info(a) ==
  {Into(Argv(<<A>>, <<0>>), "tipoInfo", 1),
   Into(Argv(<<A, S>>, <<0, 2>>), "tipoInfo", 1)}

\* A piped call returns the NULL that pstr was initialised with.
Srandmember(a) ==
  {[Into(Format(<<S, N, A>>, <<0, 1, 2>>), "theRest", 3)
      EXCEPT !.answer = "null"]}

Mset(a) == {Counted(<<A>>, <<0>> \o Elements(a, 1))}

\* argv is freed and the strings in it are not.
Hmset(a) ==
  {[Counted(<<S, A>>, <<0, 1>> \o Elements(a, 2))
      EXCEPT !.sync = "block", !.piped = "block"]}

\* The same, and a piped call returns before argv is freed.
Hmget(a, cmd) ==
  LET conv == IF cmd = "geopos" THEN "tipoExec" ELSE "theRest" IN
  {Into(Format(<<S, S, A>>, <<0, 1, 2>>), conv, 3),
   [Into(Counted(<<S, A, A>>, <<0, 1>> \o Elements(a, 2)), conv, 3)
      EXCEPT !.sync = "block", !.piped = "none"]}

Mget(a) ==
  {Into(Argv(<<S, A>>, <<0, 1>>), "theRest", 2),
   Into(Counted(<<A, A>>, <<0>> \o Elements(a, 1)), "theRest", 2)}

-----------------------------------------------------------------------------
(* Which function each awk function calls, in the order of the source.     *)

Via(tipo, names) == {<<name, tipo>> : name \in names}

Dispatch1 ==
  Via("Keys", {"hvals"}) \cup Via("Scard", {"srandmember", "lpop", "rpop"})
  \cup Via("Srandmember", {"srandmember"})
  \cup Via("Sscan", {"hscan", "zscan", "sscan"}) \cup Via("Scan", {"scan"})
  \cup Via("Spop", {"spop"})
  \cup Via("Expire", {"incrby", "lindex", "decrby", "incrbyfloat"})

Dispatch2 ==
  Via("Expire", {"getbit", "pexpire", "expire", "hstrlen"})
  \cup Via("Bitpos", {"bitpos"}) \cup Via("Setbit", {"setbit"})
  \cup Via("Scard", {"decr", "incr", "persist", "pttl", "ttl", "type",
    "llen"})

Dispatch3 ==
  Via("Scard", {"hlen", "strlen", "zcard", "scard", "echo"})
  \cup Via("Script", {"script"}) \cup Via("Bitop", {"bitop"})
  \cup Via("Bitcount", {"bitcount"}) \cup Via("Keys", {"hkeys", "smembers"})
  \cup Via("Sismember", {"zrevrank", "zscore", "zrank"})

Dispatch4 ==
  Via("Pubsub", {"pubsub"})
  \cup Via("Sismember", {"hget", "hexists", "getset", "publish", "append",
    "rpoplpush", "rpushx", "lpushx"})
  \cup Via("Set", {"set"}) \cup Via("Sort", {"sortStore"})
  \cup Via("SortLimit", {"sortLimitStore", "sortLimit"})

Dispatch5 ==
  Via("Sort", {"sort"}) \cup Via("Object", {"object"})
  \cup Via("Sismember", {"sismember"})
  \cup Via("Zrange", {"lrange", "zrangeWithScores", "zrevrangeWithScores",
    "zrange", "zrevrange"})
  \cup Via("Setbit", {"ltrim"}) \cup Via("Smove", {"zcount"})
  \cup Via("Hmset", {"hmset"}) \cup Via("Hmget", {"hmget"})
  \cup Via("Mset", {"mset"})

Dispatch6 ==
  Via("Mset", {"msetnx"}) \cup Via("Mget", {"mget"})
  \cup Via("Info", {"info"}) \cup Via("Keys", {"keys"})

Dispatch7 ==
  Via("Keys", {"hgetall"})

Dispatch8 ==
  Via("Select", {"select"})
  \cup Via("Randomkey", {"randomkey", "dbsize", "ping", "multi", "discard"})
  \cup Via("ClientTwo", {"clientSetName", "clientPause", "clientKillAddr",
    "clientKillType", "clientKillId", "clientList"})
  \cup Via("ClientOne", {"clientGetName"})

Dispatch9 ==
  Via("Randomkey", {"unwatch", "flushdb", "flushall", "bgsave",
    "configResetStat", "lastsave"})
  \cup Via("Exec", {"exec"}) \cup Via("Sismember", {"configSet"})
  \cup Via("Keys", {"configGet"}) \cup Via("Slowlog", {"slowlog"})
  \cup Via("Scard", {"auth", "exists", "get"})

Dispatch10 ==
  Via("Sinter", {"sdiff", "sunion"})
  \cup Via("Sadd", {"sdiffstore", "sunionstore"})
  \cup Via("Mget", {"psubscribe", "subscribe"})
  \cup Via("Subscribe", {"del", "pfcount", "watch"})
  \cup Via("Geohash", {"geohash"})

Dispatch11 ==
  Via("Sadd", {"geoadd", "sinterstore"}) \cup Via("Geodist", {"geodist"})
  \cup Via("Hmget", {"geopos"}) \cup Via("Georadius", {"georadius"})
  \cup Via("Georadiusbymember", {"georadiusbymember"})
  \cup Via("GeoradiusWD", {"georadiusWDWC", "georadiusWC", "georadiusWD"})
  \cup Via("GeoradiusbymemberWD", {"georadiusbymemberWDWC",
    "georadiusbymemberWC", "georadiusbymemberWD"})
  \cup Via("Sinter", {"sinter"})

Dispatch12 ==
  Via("Sadd", {"hdel"})
  \cup Via("Hincrby", {"hincrby", "brpoplpush", "hincrbyfloat"})
  \cup Via("Zincrby", {"zincrby"}) \cup Via("Smove", {"hset", "hsetnx"})
  \cup Via("Setrange", {"lrem", "lset", "setrange"})
  \cup Via("Brpop", {"blpop", "brpop"}) \cup Via("Sismember", {"rename"})

Dispatch13 ==
  Via("Sismember", {"renamenx", "move"}) \cup Via("Restore", {"restore"})
  \cup Via("Scard", {"dump"})
  \cup Via("Setbit", {"getrange", "zremrangebyrank"})
  \cup Via("Linsert", {"linsertBefore", "linsertAfter"})
  \cup Via("Smove", {"zremrangebylex", "zremrangebyscore", "zlexcount"})
  \cup Via("Zrangebylex", {"zrangebyscore", "zrevrangebyscore"})

Dispatch14 ==
  Via("Zrangebylex", {"zrangebylex"})
  \cup Via("Evalsha", {"evalsha", "eval"}) \cup Via("Smove", {"smove"})
  \cup Via("Sadd", {"srem", "rpush", "lpush", "zrem", "sadd", "pfadd"})
  \cup Via("Zunionstore", {"zinterstore", "zunionstore"})
  \cup Via("Zadd", {"zadd"})

Dispatch15 ==
  Via("Sadd", {"pfmerge"})

Dispatch ==
  Dispatch1 \cup Dispatch2 \cup Dispatch3 \cup Dispatch4 \cup Dispatch5
  \cup Dispatch6 \cup Dispatch7 \cup Dispatch8 \cup Dispatch9 \cup Dispatch10
  \cup Dispatch11 \cup Dispatch12 \cup Dispatch13 \cup Dispatch14
  \cup Dispatch15

Commands == {d[1] : d \in Dispatch}

\* The forms of the function tipo, called for cmd with the arguments a.
FormsOf(tipo, cmd, a) ==
  CASE tipo = "Exec" -> Exec(a)
    [] tipo = "Slowlog" -> Slowlog(a)
    [] tipo = "Evalsha" -> Evalsha(a)
    [] tipo = "Zrangebylex" -> Zrangebylex(a)
    [] tipo = "Sscan" -> Sscan(a)
    [] tipo = "Scan" -> Scan(a)
    [] tipo = "Select" -> Select(a)
    [] tipo = "Randomkey" -> Randomkey(a, cmd)
    [] tipo = "ClientOne" -> ClientOne(a)
    [] tipo = "ClientTwo" -> ClientTwo(a, cmd)
    [] tipo = "Script" -> Script(a)
    [] tipo = "Scard" -> Scard(a)
    [] tipo = "Pubsub" -> Pubsub(a)
    [] tipo = "Spop" -> Spop(a)
    [] tipo = "Brpop" -> Brpop(a)
    [] tipo = "Sinter" -> Sinter(a)
    [] tipo = "Subscribe" -> Subscribe(a)
    [] tipo = "Sadd" -> Sadd(a)
    [] tipo = "Getrange" -> Getrange(a)
    [] tipo = "Zadd" -> Zadd(a)
    [] tipo = "Setrange" -> Setrange(a)
    [] tipo = "Bitcount" -> Bitcount(a)
    [] tipo = "Bitpos" -> Bitpos(a)
    [] tipo = "Geodist" -> Geodist(a)
    [] tipo = "Georadius" -> Georadius(a)
    [] tipo = "Georadiusbymember" -> Georadiusbymember(a)
    [] tipo = "GeoradiusWD" -> GeoradiusWD(a, cmd)
    [] tipo = "GeoradiusbymemberWD" -> GeoradiusbymemberWD(a, cmd)
    [] tipo = "Setbit" -> Setbit(a)
    [] tipo = "Bitop" -> Bitop(a)
    [] tipo = "Linsert" -> Linsert(a)
    [] tipo = "Smove" -> Smove(a)
    [] tipo = "Zincrby" -> Zincrby(a)
    [] tipo = "Hincrby" -> Hincrby(a)
    [] tipo = "Restore" -> Restore(a)
    [] tipo = "Expire" -> Expire(a)
    [] tipo = "Set" -> Set(a)
    [] tipo = "Sismember" -> Sismember(a, cmd)
    [] tipo = "Object" -> Object(a)
    [] tipo = "Zrange" -> Zrange(a, cmd)
    [] tipo = "Zunionstore" -> Zunionstore(a)
    [] tipo = "SortLimit" -> SortLimit(a, cmd)
    [] tipo = "Sort" -> Sort(a, cmd)
    [] tipo = "Keys" -> Keys(a, cmd)
    [] tipo = "Geohash" -> Geohash(a)
    [] tipo = "Info" -> Info(a)
    [] tipo = "Srandmember" -> Srandmember(a)
    [] tipo = "Mset" -> Mset(a)
    [] tipo = "Hmset" -> Hmset(a)
    [] tipo = "Hmget" -> Hmget(a, cmd)
    [] tipo = "Mget" -> Mget(a)

Forms(cmd, a) ==
  UNION {FormsOf(d[2], cmd, a) : d \in {e \in Dispatch : e[1] = cmd}}

=============================================================================
