# A TLA+ model of gawkextlib

gawkextlib is a collection of extensions for gawk, the GNU awk interpreter:
shared libraries, written in C, whose functions an awk program calls. This
directory holds TLA+ modules that model the parts of it that keep state, TLC
configurations that check them on small instances, and proofs, checked by
TLAPS, that hold for every instance.

    tlc -config MCStrHash_grow.cfg MCStrHash      # any run of the table below
    tlapm StrHashProofs.tla                       # any module of proofs

`PROJECT.json` lists components, runs, mutants, the source lines each definition
models, findings, hazards and theorems. All paths below are relative to `src/`.

## 1. Inventory

gawk runs one awk program in one thread. A call of an extension function runs to
its end before the next, so the extensions have no threads to interleave. What
makes them hard is elsewhere:

* objects of a C library outlive, or fail to outlive, the handles by which awk
  code names them (lmdb, pgsql, gd, haru, redis);
* a reply, a result or a record arrives in an order the caller did not ask for
  (redis pipelines and subscriptions, pgsql's asynchronous queries, xml tokens);
* a signal handler runs between any two machine instructions (select);
* a library reports failure and the code goes on (redis, lmdb, pgsql);
* structures are rebuilt while pointers into them are held (strhash);
* several input files are read in turn through static variables (csv, xml,
  reclen).

| component | state | operations | what makes it correct |
|---|---|---|---|
| **strhash** `lib/strhash.c` | bucket array, chains of entries, a count, whether the largest size is reached | create, get (finds or inserts, may grow), delete, destroy with callbacks | it is the map `lib/gawkextlib.h` promises; chains, count and size agree; a lookup finds what was inserted |
| **redis** `redis/redis.c` | `c[TOPC]` (hiredis contexts), `pipel[TOPC][2]` (pipeline exists, replies pending) | connect, disconnect, pipeline, some 150 commands (validate, build argv, convert the reply), getReply, getReplyMass, getMessage, subscribe, unsubscribe | every reply is read once, by the call it belongs to; no call waits for a reply nobody owes |
| **lmdb** `lmdb/lmdb.c` | one strhash table of handles per kind of object: environments, transactions, databases, cursors | begin/commit/abort/reset/renew, open/close/drop, cursor open/close/renew, the data functions | each live object has one handle and each handle a live object |
| **select** `select/select.c` | `caught.flag`, `caught.mask`, `sigrange`; the kernel's dispositions, pending signals and mask | select_signal, select, kill, the handler; also the file descriptor sets and set_non_blocking | a trapped signal is reported, once; the signal mask is left as it was |
| **pgsql** `pgsql/pgsql.c` | strhash tables of connections and results | connect, exec, prepare, send*, getresult, COPY, getrow..., clear, disconnect | a result outlives its connection and has one handle; an asynchronous query's results come back in order and end |
| **gd** `gd/gd.c`, **haru** `haru/pdf.c` | strhash tables of images; of documents, pages, fonts, ... (nine kinds) | create/destroy, some 200 bindings | documents and images have handles, and what a call returns names what it got |
| **aregex** `aregex/aregex.c` | strhash table of compiled expressions | amatch | an expression is compiled once |
| **reclen** `reclen/reclen.c` | list of open files, one buffer shared and counted | take_control_of, get_record, drop, close | a file's node is found and freed when that file closes; records have the length asked for |
| **csv** `csv/*.c` | parser automaton, one reader copied into static variables per record, string buffers | csvconvert, csvsplit, the CSVMODE input parser | records are those of the CSV grammar; files read in turn do not mix |
| **xml puller** `xml/xml_puller.c` | queue of tokens, pending character data, expat parser, buffers | create, next, enable, disable, free, expat's callbacks | tokens come in document order, character data merged once; the next document starts afresh |
| **xml interface** `xml/xml_interface.c` | awk variables with generation counters, the cached path, a puller per file | can_take_file, get_record, close | the variables describe the current token of the current file and no other |
| **json** `json/*.cpp` | stack of array cookies of the SAX handler | to_json, from_json | the array read is the document |
| **varinit** `lib/varinit.c` | none of its own; gawk's symbol table | scalar, constant, array | the string handed over is owned by exactly one side |
| **mbs, mpfr, errno, nl_langinfo, abort** | none, or precision and rounding | pure functions | the results |
| **awk libraries** `csv/awklib`, `xml/awklib` | awk variables | awk functions | formatting |

Interaction: lmdb, pgsql, gd, haru and aregex call strhash, through `get_handle`
/ `find_handle` helpers of their own; every extension calls gawk through its
API table; the input parsers (csv, reclen, xml) are called back by gawk when it
opens, reads and closes a file; redis, lmdb, pgsql, gd, haru, xml and json wrap
a library of the same name, which is external here. Extensions do not call one
another.

## 2. Plan

In order of importance. A passing run checks several properties, and extensions
that do not interact share a run, each with its own variables, chosen by the
initial state.

1. *Done.* `StrHash` with `StrMap`, its abstraction; `RedisPipeline`;
   `LmdbHandles`; `SelectSignals`; `StrHashProofs` and `SelectProofs`.
2. *Done.* The readers: `Reclen`, `CsvReader` on `CsvParser` and `CsvWriter`,
   `XmlPuller`, `XmlInterface`, `JsonArrays`. Run `readers_records`.
3. *Done.* The handles: `HandleTable` with `HaruDocs` on `HaruCalls`, `GdImages`,
   `PgsqlHandles`. Run `handles_named`.
4. *Done.* One call of a redis command, from validation to conversion:
   `RedisCalls` on `RedisCommands`. Run `redis_calls`.
5. *Done: proofs* of `StrHash` (with its refinement), `SelectSignals`,
   `LmdbHandles`, `RedisPipeline`, the modules of `handles_named`, `Reclen`,
   `XmlInterface`, `RedisCalls`, `CsvReader` with its parser and writer, and
   `XmlPuller`.

## 3. The modules

| module | models | |
|---|---|---|
| `StrMap` | the promises of `lib/gawkextlib.h` | abstract map; `MapSpec` is the promise, `LossyMapSpec` the same with inserts that are lost |
| `StrHash` | `lib/strhash.c` | implements `StrMap` under a refinement mapping |
| `StrHashProofs` | | proofs about `StrHash` |
| `RedisPipeline` | `redis/redis.c`: connections, pipelines, subscriptions | with hiredis, server and network as environment |
| `RedisCommands` | `redis/redis.c`: the command functions | operators: what each accepts and puts into argv |
| `RedisCalls` | `redis/redis.c`: one call of a command | from the arguments to the value returned |
| `LmdbHandles` | `lmdb/lmdb.c`: handle tables and object lifetimes | with LMDB's objects as environment |
| `SelectSignals` | `select/select.c`: do_signal, do_select, signal_handler | with the kernel as environment |
| `SelectProofs` | | proofs about `SelectSignals` |
| `TableLoad` | `lib/strhash.c` as the users of its tables see it | operators: how full a table is, when it grows, the handles growing has lost |
| `HandleTable` | the handle tables of haru, gd and pgsql | operators on a table and its counter |
| `HaruCalls` | `haru/pdf.c`: the bindings | operators: arguments in their order, kind of result |
| `HaruDocs` | `haru/pdf.c`: documents and what is in them | with libharu's ownership of objects as environment |
| `GdImages` | `gd/gd.c` | with libgd as environment |
| `PgsqlHandles` | `pgsql/pgsql.c` | with libpq's connection states as environment |
| `Reclen` | `reclen/reclen.c` | with gawk opening, reading and closing files |
| `CsvParser` | `csv/csv_parser.c`, `csv_convert.c`, `csv_split.c` | the automaton as a function of a character |
| `CsvWriter` | `csv/awklib/csv/csv.awk`: the writing functions | operators |
| `CsvReader` | `csv/csv.c`, `csv_input.c` | several files read in turn |
| `XmlPuller` | `xml/xml_puller.c` | with expat, the file and memory as environment |
| `XmlInterface` | `xml/xml_interface.c` | over every sequence of tokens the puller can give |
| `JsonArrays` | `json/json.cpp`, `awkjsonhandler.cpp` | with the parser of rapidjson as environment |
| `MCHandles`, `MCReaders` | | a program that uses one of the extensions, and the properties of the run |
| `RedisPipelineProofs`, `LmdbProofs` | | proofs about `RedisPipeline` and `LmdbHandles` |
| `RedisCallsProofs` | | proofs about `RedisCalls`, with a lemma for each function of `RedisCommands` |
| `TextReaders` | | `CsvReader` and `XmlPuller` side by side, with what is assumed of the files they read |
| `TextReadersProofs` | | proofs about `CsvReader`, `CsvParser`, `CsvWriter` and `XmlPuller` |
| `HandlesProofs`, `ReadersProofs` | | proofs about the programs of `MCHandles` and `MCReaders` |
| `MC*` | | instances and symmetry sets for TLC |

### StrHash

State is `struct _strhash` (`index`, `index_size`, `entries`, `size_maxed`) plus
what the code keeps on the heap and on the stack: the allocated entries `ent`,
those unlinked by a delete whose callback is still running (`deleting`), and the
pointer the last call returned (`ret`). Each function is one action per outcome:
`Find`, `Miss`, `InsertLinked`, `InsertGrow`; `DeleteUnlink` then `FreeEntry`
(the callback runs between the two, which is why they are separate); and
`DestroyBegin`, `DestroyUnlink`, `DestroyEnd`. `SetData` is what callers do with
the entry they get, as in lmdb's `get_handle`.

A chain is a set: its order is not observable while keys are unique, and
`UniqueKeys` is one of the properties checked. `HashCode` is an arbitrary
function. The ladder of sizes is the constant `Sizes`.

`strhash_get` computes the address of its bucket, then calls `strhash_grow`,
which frees the bucket array, then links the new entry through that address.
`InsertGrow` therefore links it nowhere and keeps it allocated: the least that
can happen. What else a write into freed memory may do is not modelled.

The modules of lmdb, haru, gd and pgsql do not run this module but `TableLoad`: the
number of entries counted, the size, and for each size outgrown the handle that was
lost. Every table there is made by `strhash_create(0)`, so in the code it has 13
buckets and the 27th live handle is the first to be lost. `LoadsAsUsersSee` says
that each step of `StrHash` changes this account as `Inserted` and `Released` do.

### RedisPipeline

`c` and `pipel` are the arrays of the source, and a handle is the number
`connect` or `pipeline` returned. A context holds what hiredis and the socket
hold: commands not written (`out`), written and not handled (`wire`), replies
sent (`due`). A call that blocks in `redisGetReply` is recorded in `call`, and
while it does only `Flush`, `Serve`, `Publish` and `Lose` happen. When the
oldest reply is there, the call returns with it, whosever it is (`ReturnReply`,
`ReturnGetReply`, `DrainOne`, ...); when the connection is lost it fails in the
way its kind of function fails (`FailValue`, `FailArray`, `FailUnsubscribe`,
`FailReader`). The 150 commands fall into those with one value for a reply and
those with an array; one action each for a pipelined and a synchronous call.

Kept in the model though no property forbids it:

* `FailArray`: a command with an array argument on a connection that breaks reads
  `reply->type` of a null reply (`redis/redis.c:1257`); the process ends.
* `FailUnsubscribe`: `unsubscribe` returns 1 without looking at the reply or at
  the error (`redis/redis.c:2506`), where the manual says -1 on error.
* `subscribe` with several channels reads one confirmation and leaves the others
  to the next `getMessage` (`redis/redis.c:4983`).
* A `getReply` that fails clears the slot without freeing the context
  (`redis/redis.c:4058`).

Not modelled: handles no function returned; `pipeline` and `getMessage` called with
a pipeline handle (the code then reads an array element or a union member that is
not there). The commands themselves are in `RedisCalls`.

### RedisCommands and RedisCalls

Each of the some 150 functions of the extension hands its arguments to one of
fifty `tipo...` functions. `RedisCommands` has one operator for each of these: the
set of its *forms*, a record for every number of arguments or subcommand it
accepts. A form says what `validate` demands (`valid`), what goes into each slot of
argv (`words`: a fixed word, an argument, an element of an array argument), how
many slots are allocated (`cap`; `mem_cdo` always takes 25), what is freed and where
the reply is stored. `Dispatch` is the table of awk functions.

`RedisCalls` runs one call: `Accept` or `Reject`; `Build`, which fills the slots;
`IssuePiped`, which returns, or `Issue` and `Receive`, where the server answers with
anything the command has for an answer, QUEUED, an error, nothing, or the reply of
an earlier piped command (`backlog`); `Convert`, with the converter chosen from the
command whatever the reply is. `heap` counts the blocks allocated. TLC explores
every function with every combination of kinds of arguments.

The properties name the functions for which they fail, so that they say of all
others that they hold: BRPOP and BLPOP write a slot too far (`redis/redis.c:2389`);
SORT and PUBSUB NUMSUB can leave the 25 slots (`redis/redis.c:986`); `Leaky` lists
those that forget memory; `set`, `pubsub` and `bitpos` use arguments they have not
checked (`redis/redis.c:3868`); a lost reply is used by the array converters
(`redis/redis.c:1163`); SLOWLOG GET without an array, and `srandmember` and
`slowlog` on a pipeline, return a null pointer for a value (`redis/redis.c:1438`).
The aggregate of `zinterstore` and `zunionstore` is a string that is cut at its
first space in place; without a space a null pointer is written through
(`redis/redis.c:4285`) and the process ends (`CutNowhere`). The properties are about
calls that come back.

Not modelled: the text of commands and keys, and numbers in replies.

### LmdbHandles

A handle is modelled by what it is rendered from: an address, or the number of a
database. The objects of LMDB are `env`, `txn` and `cursor`; the tables are sets of
handles. Each function that creates, ends or moves an object is an action: it
changes the objects as LMDB documents and the tables as the extension does.
`GetHandle` models the fatal assertion of `get_handle`, `Entered` the table after
it: when the insertion makes the table grow, the handle returned is in no chain
(`lib/strhash.c:221`), so its object lives on and no function of the script finds
it. `load` is the `TableLoad` of each kind, and `LiveObjectsNamed` excepts the
objects lost that way, at most one per size outgrown. LMDB may hand out a freed
address again at once, which is the worst case and the common one. `UseStale` is the
call that passes a dangling pointer, after which nothing is claimed.

`careful` records whether the script has so far kept to LMDB's own rules (ends
children and cursors before their transaction, keeps no database handle past the
database) and opens a database only while no handle bears its number. It is a
history variable: it restricts nothing, and `TablesExact` says what such a script
can rely on.

Not modelled: reading and writing data, statistics, flags and sizes of an
environment. Each of these functions checks its arguments, looks up its handles with
`find_handle`, calls one function of LMDB and converts what it gives; they
change no handle and keep nothing between calls.

### SelectSignals

`caught`, `sigrange` are the statics of the source, `blocked`, `pending`, `disp`
the kernel's. The handler may run between any two accesses to state it shares,
so `do_signal` and `do_select` are sequences of steps, `pc` the next one and
`call` the locals. `SignalHandler` is enabled whenever a signal it handles is
pending and not blocked, whatever the step. `owed` is a history variable: what
the handler noted and select has not yet put in the array.

The platform is one with `sigaction` and `sigprocmask`, where the handler runs
with all signals blocked. Not modelled: the fallback without `sigaction`;
`set_non_blocking`, which is one fcntl; the descriptor sets of `select`, which are
built from its arrays and turned back into them in one call and share nothing with
the handler. (A refused element of the second or third array leaves the arrays
flattened before it unreleased, `select/select.c:423`; a descriptor is not
compared with FD_SETSIZE, `select/select.c:430`.)

### HandleTable, HaruCalls, HaruDocs, GdImages, PgsqlHandles

The three extensions name objects alike: a string with a number that only goes up,
in a strhash table. `HandleTable` has the operators (`Issue`, `Found`, `Without`).
`Issue` puts the object in the table unless the table grows by it, and then returns
a handle that finds nothing. `NamesAll` says that the handles are those of the
objects but for the ones lost, at most one per size outgrown; `Keeps`, what a step
may do to a table: a handle may go, and never names another object.

`HaruCalls` has a row for each of the 189 functions of `haru/pdf.c` that read their
arguments one after the other, call one function of the library and hand back what
it gives; `HaruDocs` runs them by their shape (`Refuse`, `Call`, `CallStale`) and
has an action for each of the other ten. `objs` is what libharu owns: freeing a
document frees what is in it, while the handles stay in their tables. A program that
then uses one is in undefined behaviour (`fault`), as is `GetCurrentPage` of a
document without pages. The extension's ways to miss its own objects are in the
model: `GetPageByIndex` and `GetCurrentPage` return bytes of a page as text
(`haru/pdf.c:985`, `1206`), the encoder argument of `CreateOutline` and
`CreateTextAnnot` is never one (`1757`), `FreeDoc` and `FreeDocAll` take the handle
of a document that is alive (`724`, `776`), getters report a legitimate 0 as -1.

`GdImages` has the images and what each function returns. The array of bounds that
`StringFT` leaves is data: after an error of the library it is filled from a local
array that nothing has set (`gd/gd.c:328`), and which values it then has is not
modelled.

`PgsqlHandles` has connections in one of libpq's states (idle, busy, copying, ...),
results with and without handle, statement names, parameter arrays, and the rows
stored in awk arrays. Every function is an action; what libpq answers is any of what
it can in that state. The four functions with parameters run the statements of
`Body` in order; a call ends at one of them (`EndsAt`): before libpq is called, when
the connection, a sensible number of parameters or the command is missing
(`EndEarly`), or with what libpq answers, its failure included. What of the
parameter array is left (`Left`) follows from which statements ran before the exit.
A missing command leaks it (`pgsql/pgsql.c:308`); of two fields with one name the
last counts.

### Reclen

gawk's side is one action each: `Open`, `GetRecord`, `Drop`, `Close`. `buf` is the
buffer all files share, with its count of users; `list` is `file_list`, searched by
name. With two files of one name open at once, closing the older unlinks the node of
the newer, and the next search reads freed memory (`ReadFreedNode`); `ListExact` is
claimed only for programs that never do that (`sharing`). A pipe or a terminal may
give short reads and therefore short records.

### CsvParser, CsvWriter, CsvReader

`csv_parse` is a function from the parser and a character to the parser;
`csvconvert` and `csvsplit` are functions over it, recursive over the text.
`Letters` are the characters it does not tell apart. `DocumentsWritten` says what a
document is: any text, or one with the records it was written from; TLC checks that
of the run's documents (`DocumentsAssumption`). `CsvReader` reads character by
character; `after_cr` is static and is loaded from and stored into the reader around
every record, so that files can be read in turn. The reader and the parser count
quotes on their own, which is why `ReadersAgree` can fail at all. What the code does
and the properties are stated beside: an empty record is returned as end of file
(`csv/csv_input.c:209`), a carriage return is not quoted by `csvquote`, CSVFS is
held by pointer and must not be assigned while a file is open
(`csv/doc/csvmode.3am:56` says that such changes have no effect), a read error never
ends (`csv/csv_input.c:51`).

### XmlPuller

Bytes are places in the stream, so a token says which bytes it was made of. Expat is
a function from its state and the bytes of a block to callbacks and an error
position; each byte of text is a callback of its own, which is the worst case for
merging. `AllHandled` is the callbacks in order, with a failure of conversion or
memory at any of them; `ParseBlock` is one call of `XML_Parse` with what follows:
continue, fail, or the restart where the next document begins (`NextDocument`), with
what is kept of the buffer (`Kept`, `Restarted`). The restart has failures of its
own: of the text flushed and the token put before it (`xml/xml_puller.c:778`), and
of the new parser; so has a buffer that must be enlarged for what is kept
(`xml/xml_puller.c:850`). The parser of the next document is created without the
handler for unknown encodings, so that such a document fails
(`xml/xml_puller.c:796`).

A stream is spelt in whole tags, of which its end may cut off one, and is good when
it is as many well-formed documents as it says (`StreamsSpelt`). What expat makes of
bytes is modelled for such files, and TLC checks that of the run's
(`StreamsAssumption`).

### XmlInterface

`node` has the value and generation of every variable, `path` the cache of XMLPATH
(file address, version, value), `xml` the state at each address. `Record` is one
`xml_get_record`: reset of what an earlier record set, then the variables of the
token. `OpenXml` may take the address of a file that was closed; the cache is then
right nonetheless, since version 1 stands for an empty path and the first element
makes a new one.

### JsonArrays

The handler has the array it fills, the key or index of the next element, and a
stack of those around it. `doc` is what the text says, kept beside it, and each open
object or array remembers what it said before. `ArrayOfText` compares heap and text
at the end, and after a failure anywhere: the array given then has the elements that
were complete, and under the name of the one that was not whatever an earlier
element of that name had left, which without one is nothing. `Parts` is what
`to_json` writes. A top-level scalar and the string `@/` end the process (`Crash`).

## 4. The runs

| run | instance | states | shows |
|---|---|---|---|
| `strhash_grow` | 3 strings, 5 entries, sizes 1, 3, 4, load 1 | 52 thousand | chains well placed, keys unique, count exact, load bounded, one entry lost per growth, only delete unlinks, `TableLoad`'s account is right; implements `LossyMapSpec` |
| `strhash_lost` | the same | violation | `InsertedIsInTable` |
| `redis_slots` | 2 slots, 3 commands, no channels | 1.8 million | counters match replies; a drained pipeline leaves synchronous calls in step |
| `redis_pubsub` | 1 slot, 2 channels, 3 commands, at most 2 replies due before a publish | 1.8 million | never fewer replies than counted on; calls return |
| `redis_calls` | all commands, arrays of 0, 1 and 24 elements | 50 thousand | argv stays in its block, arguments are used as checked, memory is freed, replies are stored and errors returned, but for the functions named |
| `redis_reused` | 1 slot, 2 commands | violation | `GetReplyHasReply` |
| `handles_named` | haru: 4 objects, 5 handles; gd: 3 images; pgsql: 3 connections, 1 result with a handle, 2 statement names; tables of sizes 1, 2, load 1 | 286 thousand | the library's objects have their handles but for those growth has lost, handles keep their meaning, results name what was got, parameter arrays are freed, rows by name and by number agree |
| `readers_records` | reclen: 3 opens of 2 names; csv: 2 files; xml: streams of 1 or 2 documents in blocks of 3 bytes; 2 addresses, generations to 3; json: 7 parts | 978 thousand | what is read is what the file says: list and buffer of reclen, csv records and json arrays round trip, tokens tile the documents, variables are those of the token |
| `lmdb_tables` | 2 environments, 3 transactions, 1 cursor, 2 databases; tables of sizes 1, 2, load 1 | 166 thousand | live objects are named but for those growth has lost; exact tables for a careful script |
| `lmdb_reopen` | 2 environments, 1 transaction, 1 cursor, 1 database | violation | `HandlesUnique` |
| `select_traps` | a plain signal, one with a foreign handler, one that cannot be caught | 154 thousand | nothing trapped is lost, flag and mask agree, mask restored, report complete, refusal respected, everything reported |
| `select_blocks` | the same, with timeouts that may be infinite | violation | `NeverBlocksOnCaught` |

**Why the bounds are enough.** *strhash:* three sizes are two growths and the end of
the ladder; the second growth finds two entries in the table, in one chain or in two
(with sizes 1, 2, 3 it would find one only, as each growth loses one), and the three
strings collide in pairs that differ from size to size; five entries for three
strings leave room for the two a growth can lose. *redis:* two slots are enough for
one to disturb another; three commands allow pipelined, synchronous, pipelined
again; two channels make subscribe and unsubscribe have more confirmations than
calls. `MaxCommands` and `MaxOwed` only stop the program from issuing more and the
server from publishing more. *lmdb:* two environments share database number 1; three
transactions are a writer with a child beside a reader; with sizes 1 and 2 and a
load of 1 (13, 127, ... and 2 in the code) the second live handle of a kind is lost
as the table grows, and the third finds it at its largest size, so that a lost
environment, transaction or database meets every later call. *select:* one signal of
each sort; a call's steps treat signals one at a time, and proofs cover every other
set. *redis_calls:* arrays of 24 elements are what fills the 25 slots of `mem_cdo`
behind the name of a command, and one option string has 21 words. *handles_named:*
four objects are a document, a second one whose handle is lost, and two objects in
the first; a fifth handle lets an object be handed out twice; the second live handle
of a table is lost as with lmdb, so that of three connections two can be used; they
share the counter of statement names. *readers_records:* three opens close the first
of a name while a second is open and open it again; the csv file is any text of up
to three characters of five kinds, or one or two records as the awk library writes
them with each line end, read in turn with a file whose lines end in a carriage
return; blocks of 3 bytes (8192 in the code) and a slack of 1 byte (128) put a
document's end, a tag and the restart at every place of a block; generations to 3
(`UINT_MAX`) wrap around after three records; two addresses are reused at once;
seven parts of a text are an array in an object in an array.

**Deadlock** is checked in the select runs, where a killed process stutters, and in
`redis_calls` and `handles_named`. It is off where the system may stop: a program
has read its file to the end, a destroyed table allows no call, an lmdb
script ends in "fatal" or "undefined" or has used every address, and a redis
call can block for ever (see `redis_reused`) or the command bound be reached.

**Fairness.** `RedisPipeline`: `redisGetReply` loops until it has a reply or an
error, so a call that can return does (`WF(Answered)`); hiredis writes what is
appended and the server answers what it received (`WF(Flush)`, `WF(Serve)`).
Nothing makes the awk program call anything, a client publish or a connection
break. `CallsReturn` leaves out connections that `getMessage` reads, which may
wait for messages without end, and those that inherited a counter.
`SelectSignals`: functions run on (`WF(Signal)`, `WF(Select)`); the kernel
delivers what is pending and unblocked (`WF(Handler)`); the awk program keeps
calling select with its signals array and a timeout, and `get_file` does not fail
for ever (the two `SF`). That is an assumption on the awk program, an event loop
such as the one in the manual, and without it no signal need be reported. Select
itself is not assumed to be woken: its timeout is what ends it.

**Findings.** Four runs end in a violation, each of a sentence the repository itself
contains: a lost entry (`lib/strhash.c:221`), a counter left to the next connection
(`redis/redis.c:169`), fatal "corruption" on opening a database whose number has a
handle (`lmdb/lmdb.c:739`), a select that waits although a signal is trapped
(`select/select.c:454`). The passing properties are stated so that they hold beside
these: `LossyMapSpec` and `OneLossPerGrowth` allow the lost entry and no other loss,
`LiveObjectsNamed`, `ObjectsNamed` and `ResultReachable` except the objects of the
handles so lost, at most one per size a table has outgrown, `Counted` subtracts the
inherited counter, `TablesExact` is about careful scripts, and `CaughtIsReported`
about programs that use timeouts. The properties of `redis_calls`, `handles_named`
and `readers_records` name the functions or the inputs they except (section 3),
which no document of the repository is about. A failed `mdb_txn_commit` keeps the
handle of a transaction LMDB has freed (`lmdb/lmdb.c:645`); it leads to the same
assertion and has no run of its own.

## 5. The proofs

TLC checks the instances above; TLAPS proves the following for every value of the
constants that satisfies the module's `ASSUME`.

**StrHashProofs**, from `StrHashAssumption` and `TableLoadAssumption` (the ladder
consists of positive numbers and has a largest size, entries are finitely many, hash
codes and the minimal size are naturals, the load limit is positive). The inductive
invariant is the conjunction of the safety properties and `SizeOnlyGrows`; they need
one another: keys stay unique because lookups find what is well placed, the count
moves with the entries because a delete takes an allocated one, the load stays
bounded because the size only grows, and the number of lost entries is bounded
because each loss goes with a size outgrown. `LeastNatural`, `TableSizes`,
`HashInBuckets` are the lemmas about the ladder and the hash; there is one lemma or
step per action. Proved: `TypeCorrect`, `WellPlaced`, `KeysUnique`, `CountExact`,
`LoadFactor`, `LossBound`, and the action property `DeletesOnly`. From the same
invariant follows the refinement, `ImplementsMap`: the linked entries are the
abstract map (`MapBarFacts`), and each function of `strhash.c` is the operation of
`gawkextlib.h` of that name or, where it only frees an entry, a stutter; the insert
that grows is the lossy insert.

**SelectProofs**, from `SelectAssumption` (signal numbers are positive, finitely
many; foreign and inherited signals can be caught). The properties are not
inductive as they stand: that nothing is lost between copying the mask and
emptying it rests on which signals are blocked at each step (`SignalMask`), that a
refused call notes nothing rests on the same and on `CallSignalKnown`, and that
the report is complete rests on every trapped signal being in the range or about
to be put there (`TrapsRanged`, `NotesRanged`). `IInv` is the conjunction; TLC has
checked it on the instance of `select_traps` extended by a signal that is blocked
from the start. Proved: `TypeCorrect`, `NothingLost`, `FlagFaithful`, `MaskKept`,
`ReportComplete`, and the action property `RefusalRespected`.

**RedisPipelineProofs**, from `RedisAssumption` (the ranges of slots and counters,
finitely many channels) and `NullAssumption` (null is no context and no call).
What the run checks is about the number of replies still to come, which is a sum
over three places: what was appended, what was sent and what was answered.
`ContextInv` says of each slot that every command among them yields at least one
reply, exactly one without subscriptions (`Sound`), that the counter and the
blocked call balance with them from the counter the context was created with
(`Balanced`), and that the reply of a blocked call is the last (`LastAwaited`). Each
action touches one slot; that the others keep their invariant is one lemma. TLC
has checked `IInv` on the instance of `redis_pubsub`. Proved: `TypeCorrect`,
`RepliesCounted`, `RepliesSuffice`, and the action property `DrainedInTurn`.

**LmdbProofs**, from `LmdbAssumption` (null is no object, the main database has a
number) and `TableLoadAssumption`, for any number of objects and tables that grow.
`TypeOK` is inductive. `LiveObjectsNamed` holds for every script, with its
exception: an insertion either enters the handle or moves the table to the next size
(`NextSize`), which records the handle under the size left (`InsertedLoad`), and no
later step touches that record; `TablesExact` is about a script that has kept to
LMDB's rules so far, and its proof takes the actions in which the script still does.
Proved: `TypeCorrect`, `ObjectsNamed`, `CarefulScriptsExact`.

**HandlesProofs**, from `TableLoadAssumption`. A table issues the numbers below its
counter and none twice, and has lost at most one object per size outgrown
(`IsTable`), from which `HandlesKeepMeaning` follows for each step. That tables and
library agree needs more: that a document, an image or a connection has one handle
(`Single`) which is deleted with it, that a document is its own document, so that
freeing one frees nothing of another, and for pgsql that results carry the number of
their handle and names of statements the number of the counter. An object that a
table has lost stays recorded as lost while it lives (`InsertedLoad`, `AddingNames`,
`DeletingNames`). Proved: `ObjectsAlwaysNamed`, `ResultsReachable`,
`StatementsNamedApart`, `RowsAlwaysAgree`, and the action property `MeaningKept`.

**ReadersProofs**, from `LengthsAssumption` (sizes are numbers),
`GenerationsAssumption` (the generation counter has room for two records) and
`NullAssumption` and `NamesAssumption` (null is no value of a variable). For reclen,
`ListExact` is not inductive: `close` frees the node of a file and unlinks one that
it looks up by name, and they are the same because no two files of a name are open
(`NamesApart`). The count of the buffer's users needs no list, only how many files
there are, and so holds with names shared as well. For xml, `VariablesSound` says
that a variable with another generation than the current one is null or one the
program may assign, so that what `resetXMLvars_after` passes over is right, also
when the counter wraps around; `PathSound` says which versions XMLPATH can have, so
that its cache is right even for a file at the address of a closed one. Proved:
`SharedBufferLives`, `VariablesAreTheRecords`. `RecordsAreRead` and
`TokensAreDelivered` say of the program what `TextReadersProofs` proves of csv and
of the puller.

**TextReadersProofs: csv**, from `DocumentsAssumption`, for texts of any length, any
characters and any number of files. What the parser makes of a text is a recursive
function, and an induction over it is a theorem with an operator for parameter,
which the provers cannot instantiate. It is replaced by sets: among the natural
numbers at which a statement fails there is a least one (`LeastExists`, `NatByStep`,
`SeqByStep`), and that the recursive functions are what their definitions say
follows from the partial runs (`RecursionExists`). `CsvInv` says that the pending
character is the one last read, and that each result is one of reading some text;
with it no character is lost. The reader counts quotes, the parser has states: along
a record they agree on what is quoted (`Passes`), so a record ends where the parser
alone would end it, and the three users of the parser agree. `csvcompose` passes
through the parser to the fields it was given (`Composed`); a written record has no
line end outside of quotes (`InBody`), so the reader stops behind it and nowhere
before, and a file stays at the line it has come to (`Follows`). Proved:
`InputIsKept`, `ReadersDoAgree`, `SplitIsInverse`, `WrittenDoesRead`, `CsvDoesRead`.

**TextReadersProofs: the pull parser**, from `StreamsAssumption`, `BlocksAssumption`
(a block has room for a byte) and `NullAssumption` (null is no place and no token),
for streams of any length in blocks of any size, with a failure of read, of
conversion or of memory at any point. `PullerInv` is about four places that the code
moves separately. `BufferRight`: the buffer ends with the last bytes read, and
begins, with several documents, at those expat has kept; `OffsetFacts` is the
arithmetic by which `Kept`, `Dropped` and `Restarted` preserve that. `ParserRight`:
what expat has consumed ends behind a whole tag, and its depth, row and column are
those of the stream there, counted from where the document began. `Queued`: tokens
delivered, queued and the pending text tile the stream from its first byte up to
there, each spelt and placed as its bytes are (`Tiles`, `Open`); each byte of text
is a callback, and the text that is pending is the last tile. `Promised`: a good
stream makes expat fail only where a document has ended, and the puller only with a
failure from outside, so at the end of the file as many documents were delivered as
there are (`Delivered`). Expat's run over a block and the callbacks in order are
recursive functions, for which `RecursionExists` and `NatByStep` serve as for csv.
TLC has checked `PullerInv` with blocks of one, two and three bytes. Proved:
`PullerInitInv`, `PullerNextInv`, `TokensRight`, and with them `TokensAreDelivered`
in `ReadersProofs`.

**RedisCallsProofs**, from `CallsAssumption` and `OptionsAssumption` (lengths of
arrays and numbers of words are naturals) and `NullAssumption` (null is no reply).
There is one lemma for each `tipo...` function. Most are regular (`Regular`): the
words fit the block, are read from what `validate` has checked, and are all freed;
the lemmas of the others say where they are not. `AllTold` goes through the 159
commands and says that each hands over its command to a function whose converter
fits it, and `GoodForms` puts the two together. `CallInv` then only has to say that
the blocks allocated follow from the form and the stage of the call. That arguments
are sequences of numbers (`ArgumentsAreNumbers`), which the lemmas assume, rests on
`GoodForms` itself, for the empty sequence. TLC has checked `CallInv` on the
instance of `redis_calls`. Proved, for arrays of every length and options of any
number of words: `WordsInBlock`, `ArgumentsAreFit`, `AllIsFreed`,
`RepliesAreStored`, `ErrorsAreReported`, `CallsAnswer`.

**Only model-checked.** Liveness (`CallsReturn`, `CaughtIsReported`): fairness is
out of the prover's reach. `TreeOfDocument`: indices become names of elements by
`ToString`, of which the provers know nothing, not even that it tells numbers apart.
`LoadsAsUsersSee`: no proof has been written. `ParametersFreed`: what there is to it
is a table of six statements and four exits, which TLC evaluates as a whole. The
four runs that expect a violation need no proof: the counterexample is one.
(`TypeOK` of `LmdbHandles` is proved and no longer run.)

## 6. Not modelled

* *lmdb's data path and settings, select's descriptor sets*: see section 3. They are
  the reason why these components are listed as partly modelled.
* *The reading functions of `csv.awk`* parse in awk what the extension parses in C;
  they keep their state in the awk program. *`XML_PullerDisable`* has no caller.
* *varinit* runs once per variable when an extension is loaded and keeps nothing.
* *aregex* has a cache that is one `strhash_get` per lookup; what can go wrong with it
  is `InsertedIsInTable`. Matching is libtre's.
* *mbs, mpfr, errno, nl_langinfo, abort* are functions of their arguments, the locale
  or a precision; there is no state to relate, and numbers are out of reach.
* *`xmllib.awk` and the other awk libraries* format what the variables hold.
* *Drawing, page contents, query results, widths and wording*: data no property tells
  apart. *Memory* is modelled where a function can forget or overrun it (redis,
  pgsql, reclen, the puller's buffer), and otherwise not.
* *Build, packaging, web pages.*
