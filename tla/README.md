# mpDNS: specification, model checking and proofs

mpDNS is a small authoritative DNS server: a daemon of three POSIX threads
around two queues (`program/`), a library that answers queries from a MySQL
database (`mpDNSlib/`), an administration in PHP that writes that database
(`mpDNSadmin/`) and a second server in Delphi for Windows (`mpDNSwin32/`).
Paths below are relative to `src/mpDNS/`.

## 1. The system

| component | state it keeps | operations | interacts with |
|---|---|---|---|
| request pipeline: `inThread.c`, `processingThread.c`, `outThread.c`, `processing.c` | `queueIn`, `queueOut`, `mutexIn`, `mutexOut`, the three run flags, `errorThread`, each thread's `node` | read a datagram, queue it, resolve it, queue the reply, send it; create, start, stop and join the threads | queues (shared memory under mutexes, and without them), UDP, DNS library |
| life cycle: `main.c` | semaphore `terminateMain`, log file, configuration | start-up, the signal handler `exitProgram`, the wait of `main` | signals delivered to the main thread, `errorThread` set by the others |
| queue: `mpDNSlib/src/queue` | `first`, `last`, the nodes' `next` | append, remove first, count, free | pipeline |
| UDP: `net/udp.c` | sockets | open, read with timeout, write, close | pipeline, forwarder |
| query resolution: `dns.c` | `zones`, `forwarder`; per query the header, the message, the record sets | `processDNSquery` and its lookups, `processRRs` | database, forwarder |
| zone lookup: `dns.c` | the zone names read at start | `testZoneName`, `findZoneName` | query resolution |
| message codec: `dns.c` | none | header, question, names, records to and from bytes | query resolution |
| forwarder: `dns.c` `askForwarder` | one socket per question | ask, wait up to 5 s | UDP |
| database: `db/` | the MySQL connection | four SELECTs | query resolution |
| configuration: `configparser.c`, `main.c` | key/value table | parse, read, build the local configuration | start-up only |
| administration: `mpDNSadmin/` | tables `SOA`, `PTR`, one `<zone>_RR` per zone | insert, update, delete zones and records, several statements each | database; the running server's zone names |
| Win32 server: `mpDNSwin32/` | the form's `inThread` and `isIni`, array of requests, two threads, the global `ssocket` | start, stop, receive, process | the library as a DLL |

What is hard here, and where:

* **Concurrency.** The consumers look at `queue.first` without the mutex and
  take the element later without a test for NULL; the in thread counts both
  lists without any lock; flags are plain `int`s that are polled.
* **Shutdown.** `exitProgram` runs as a signal handler on the main thread, at
  any moment after it is installed, can be interrupted by itself, and is called
  by `main` as well. Each thread destroys its mutex at its own end.
* **Partial failure.** Any allocation, lock, `pthread_create`, database query,
  or the forwarder can fail in the middle of an operation.
* **Long replies.** A reply is built from several lookups; header counts, the
  records in the message and the ownership of record sets are kept apart.
* **Non-atomic administration.** A zone is a row and a table, without a
  transaction, and the server reads the zone names once.

What makes each component correct:

* pipeline: no request is reordered, duplicated or lost without a failure; every
  node is freed exactly once and not used afterwards, also when a stop interrupts
  a stop; nobody dies holding a mutex; resources outlive the threads; a stop ends
  the process.
* query resolution: header counts agree with the records, sections are in
  order, record sets are freed once, an unsupported type is refused here.
* forwarder: a client gets the answer to its own question, however late others
  come; a lost descriptor costs an unanswered question.
* records and replies: what is computed of a record's length is what is written
  of it, an answer holds the rows byte for byte, memory is freed once, and the client
  always gets an answer.
* queue: the list is the sequence of its appends; a count is at most the length it had.
* zone lookup: a zone is found if one encloses the name, and then the nearest one.
  Codec: decoding inverts coding.
* administration: a row in `SOA` if and only if there is a record table; a deletion
  takes the zone's own table, and no other; a server that reads meanwhile serves every
  older zone from the zone's own table.
* Win32 server: buffers are freed once; a request is answered unless it met the other
  thread at the array; a stop waits for both threads before the library is released.

`PROJECT.json` lists the components with their status and the hazards, each at
its line.

## 2. The modules

| module | what it is |
|---|---|
| `RequestRelay` | abstract: what the two servers promise to their clients |
| `Server` | the daemon: threads, queues, mutexes, flags, `main`, `exitProgram` |
| `ServerProofs` | its proofs, with the refinement of `RequestRelay` |
| `DnsQuery` | `processDNSquery`, the lookups; the forwarder as a choice of outcomes |
| `Resolver` | `DnsQuery` composed with the forwarder's sockets and a network |
| `DnsQueryProofs` | the proofs of both |
| `Queue`, `QueueProofs` | the linked lists pointer by pointer, with their unlocked readers |
| `ZoneAdmin` | the administration's requests, statement by statement |
| `ZoneService` | `ZoneAdmin` composed with a server that reads the same database |
| `ZoneAdminProofs` | the proofs of both |
| `Startup`, `StartupProofs` | `main()` up to `runThreads`, with the configuration file |
| `DomainNames` | domain names as texts and on the wire, as functions |
| `Names`, `NamesProofs` | the loops over names: coding, decoding, the zone of a name |
| `Reply`, `ReplyProofs` | from the rows of a result to the bytes of a reply |
| `Win32Server`, `Win32ServerProofs` | the Delphi server: form, two threads, and an array that nothing locks |
| `MC...` | the instances for TLC |

`Server` implements `RequestRelay` with its order of the replies (`Ordered`),
`Win32Server` without: it answers from the end of its array. The other modules open what `Server` takes as
one step or as given: `Queue` the lists (sequences there), `DnsQuery` the choice
between a reply and a drop, `Startup` what is before `createThreads`. `DnsQuery`
in turn leaves open the forwarder's outcome, which is `Resolver`'s (every step of
`Resolver` is one of `DnsQuery` or leaves its variables alone, theorem
`ResolverImplementsQuery`), the zone of a name, which is `Names`', and the records
and their bytes, which are `Reply`'s. `ZoneAdmin` shares only the database with the
daemon; `ZoneService` puts the two beside each other. `Win32Server` is a program of
its own around the same library, with other threads than the daemon's.

### Server

One action is one access to shared state with the thread-local work around it;
`pc[t]` says where thread `t` is (`"none"` before `pthread_create`, `"exited"`
after its end), `main` where `main()` is, and `frames` is the stack of
`exitProgram` activations on the main thread, the running one first: signals
interrupt `main` and other activations, so `Main` moves only when the stack is
empty. The action names follow the code: `InRead` is `readUdp` and the building
of a node in `inThreadStart`, `ProcTake` is `queueRemoveFirstElement` in
`processingThreadStart`, and so on; `PROJECT.json` "map" gives the lines of each.

Decisions a reader should know:

* `waitForThreads` is a step for each access: `Join` of each thread, then for each queue
  `DrainCount` (the test of the loop), `DrainRead` (`tempNode = queue->first`),
  `DrainTake` (`queue->first = tempNode->next`) and `DrainFree`, and last `ReleaseAll`.
  A frame is `[at, node]`, where it is and its local `node`, so that an activation that
  a signal interrupted in the drain goes on with the node that it had read, whatever
  the other one did meanwhile: it can free a node that the other one has freed.
* A request is its arrival number and stands for its node. `NoNode` (0) is NULL,
  `Garbage` (-1) an uninitialised pointer.
* The queues are sequences, for the lists are changed under their mutex only.
  The unlocked count of the in thread is a walk that begins in `InLoop` and
  ends in `InCount`; a list changed meanwhile makes its result arbitrary, a
  node freed meanwhile makes the walk undefined.
* What C leaves undefined is a choice between going on and ending the process
  with a `fault`: `useAfterFree` (the walk), `wildFree` (the uninitialised
  `node` at a thread's end), `useAfterFree` again (the drain, where another activation
  has drained already), `badJoin` (joining a thread that does not exist or
  was joined), `doubleFree`, `nullDereference`, `secondRelease`.
* A mutex can be locked after its destruction: glibc returns EINVAL, another
  build may let the lock succeed; the model allows both. No other lock or
  unlock of these default mutexes can fail, so the code's error branches for
  those are unreachable and left out.
* Signals are handled on the main thread only, for the others block them (in the
  first lines of each thread). The window in which a new thread has not yet
  blocked them is not modelled.
* A flag once seen cleared is set by nobody again, so the test of the flag
  inside the wait loop, the one behind it and the head of the loop are two steps
  (`Wait`, `Check`) instead of three.
* `processDNSquery` is a choice between a reply and a drop here; `DnsQuery` opens it.
* Log writes (`dnsLog`, `logFile`) are left out; `Startup` has what is before
  `createThreads`.

### DnsQuery

One query after the other. `h` is the local header, `coded` the header in the
message, `body` the records behind the question: their number per section and
whether an answer stands behind an additional record (`mixed`), which is all a
parser of the reply depends on. `todo` holds the lookups of the query, four for
ALL, one otherwise; `rr` is the fate of the current record set and `lost` counts
the sets that nobody will free. Database results, allocation failures and the
forwarder are nondeterministic. Datagrams are the classes that the code tells
apart; headers of queries claim no answers and have rcode 0. The id and the
fields z, ra, rd and tc are left out.

`codeHeader` is modelled by what it does to qr and opcode, its misplaced shift
included. `ret` has any value after the default branch of the switch, which
assigns none: the refusal that it codes becomes a server failure, or goes to the
forwarder, when `ret` happens to be -1 or 1. A datagram
shorter than a header is refused as well (`RefuseMalformed`), or the header that is coded
for it, longer than its memory, ends the process (`RefuseShort`, fault `overrun`).

The default branch of the second switch turns a query for ALL that is in none of
the zones to the forwarder, though a comment at its `case` (dns.c:605) would rather
not: what the client gets is an answer all the same, and no property speaks of it.

### Resolver

`askForwarder` opens a socket for each question and closes it only on the branch of
an answer that was read. `port` is the open socket, `held` the ports of those that
stay open for ever; the system gives a port to one socket at a time. `answers` is
what the forwarder has sent and nobody read: it can be lost, come in time, or after
`select` gave up. Neither the sender nor the id of an answer is compared with the
question, so that `AnswersMatch` rests on the ports alone, and holds because a
socket whose answer may be late is never closed.

### Queue

Both lists with `first`, `last` and the Nodes' `next`, and the three threads as far
as they touch them. The unlocked readers (the looks at `first`, the in thread's
count) can run between any two writes of `queueAppend`, so an action has at most
one write that they can see: `AppendClear`, `AppendLink` (by which the Node is in
the list), `AppendLast`. `queueRemoveFirstElement` has one such write and is one
action. Nodes are addresses that `InRead` takes from those that are free, so a
freed address comes back. `items` and `length` are history variables: what was
appended and not removed, and how long a list was when its count began.

A count follows `next` and can be led from `queueIn` to `queueOut` by a Node that
was moved meanwhile. If its Node was freed, `CountFreed` lets the count have any
outcome. The thread ends and frees what is left as in `waitForThreads`; `queueFree`
is called by nobody. Failures that end a thread with a Node in its hands are in
`Server`.

### ZoneAdmin

A request is a PHP process that sends SQL statements one by one, without a
transaction; every action is one statement, `End` the end of a request, and a
failure is `mysqlErrorDie`, which ends the request where it is. `TableOf[z]` is the
name of the record table of a zone name: zone names that differ in `.` and `_`
have the same one. Several requests run at once, of any kind: nothing keeps two of
them from deleting or renaming the same zone. Only columns that identify a row
are kept; a record is a count per table. `Init` is a complete, empty database.

A renaming changes the row alone, and a deletion drops the table that it read the name
of before; so a renaming takes a zone from its table (the finding of `zone_deletion`),
and of two deletions of one zone the second can drop what a third request has created
after the first one's end. Two history variables bound the damage: `renamed`
holds the tables that a row got or left by a change of its name, `raced` those of which
two deletions were under way at once. The properties speak of the others (`Kept`): no
interleaving and no failure of anything else takes a zone's table away. Without the
exception of `raced` TLC finds the two deletions.

### ZoneService

The server's state beside `ZoneAdmin`'s: `server` says how far `iniDNSlib` is,
`result` has the rows of its SELECT that are not copied, `zones` the names that it
will serve until its end. A request's statements fall anywhere between the server's.
`queryEntry` finds the zone's table, `querySOA` its row; `lookup` is what the last
one met, until the next statement of a request. The server can end or be killed at any time and starts again from nothing.
`gone` and `came` are history variables: the names that rows have lost and got since
the SELECT, by insertions, renamings and deletions. What the server serves can differ
from `SOA` in these names only.

### Startup

A pair of the configuration is its key, a value the pair's position in the file.
Lines are pairs, empty or comments, or malformed. All calls that can fail do so
within a bound, and what C leaves undefined is a choice between going on and
`crashed`: `freeConfig` as long as `config->len` is not assigned, a copy of the
forwarder that is not in the file, of the uninitialised `dnsIP`, `fclose(NULL)`, a
signal before there are threads. `found` counts pairs, as the code does; of the
nine required keys only the log file's name and the address are told apart.

### DomainNames and Names

Characters and label lengths are bytes. `DomainNames` has what is known of a name
before the program touches it: `WellFormed` (labels of 1 to 63 characters between
dots; mpdnsmysql.c:12 demands it of the database) and `Wire`, the form of RFC 1035.
`Names` has the loops of `convertDomainName` in both directions, one iteration a
step, the place at which `extractQuestion` reads the type, and the search for a zone
(`testZoneName`, then `findZoneName` from the end of the name to its front). `len`
is signed, as `char` is, though well-formed names never make it negative.

Two things of `findZoneName` are kept although they look like accidents. Its scan
begins one place behind the name's end, where an earlier, longer name may have left
a dot; then it compares what an earlier scan left in `buf`. That is `ScanBehind`, a
choice over all zones, and `stale` marks it: the properties exclude it. And the zone
found is the shortest above a name, which the comment at dns.c:124 wants and RFC 1034
does not ("the nearest ancestor to QNAME", rfc1034.txt 4.3.2). `ZoneEncloses` says what is
beyond dispute: that a zone is found when one encloses the name, and one that does.

### Reply

One behaviour is one lookup, from the query's result to the reply: the table of
records, each record with its two blocks (`NewRecord`, with lengths computed from
the text of the row), the sum of the lengths, the longer block for the message, the
copy of each record behind the last (`appendRR`), the frees, and the header. All
allocations may fail. `heap` is the set of allocated blocks; `fault` is a write
behind a block. `sum`, `used` and `ends` keep apart
the three places in which the code computes where a record goes. A byte that was
allocated and not written is `Garbage`.

Two places have a size of their own whatever the text of the row: a record's owner name
has 256 bytes (`NameBuffer`, `name[256]` in dns.h:45), where a coded name takes two bytes
more than the text, and the memory for SOA data 512 (`SoaBuffer`). A column holds 255
characters (`Column`). `NameFits` and `DataFits` are the bounds that nobody tests; where
one fails, `fault` is `overrun`, after which nothing is promised. `WritesFit` says that
these are the only writes that can miss their block. `rdlength` and `rrlen` are of 16
bits, which `USI` keeps of a number: that the message gets the place that is needed is
part of the property. `codeHeader` puts opcode and the reserved bits elsewhere than
`extractHeader` looks for them; `HeaderArrives` holds for answers to questions without
them. A lookup that failed is refused with the question's own header, qr = 0
included, which the property excepts.

### Win32Server

The form runs on the main thread: it waits for a click, or in `WaitFor` for the in
thread (`form`). The in thread (`in`) creates the processing thread (`proc`), puts
requests into its array, and waits for it at its own end. A request is its arrival
number and stands for its two buffers; `nil` is a record that `setLength` made and
nobody has filled.

At its end the in thread first closes the socket, which the other one sends from
(`InCloses`), and then tells that one to end (`InTerminated`) and waits for it
(`InWaited`). The declaration of `iniDNSlib` lacks its last parameter, the forwarder's
name, so that a start may end the process (`noForwarder`).

`putProcessing` runs on the in thread and is three steps of it: the length
(`InRead`), `setLength` (`InGrow`), the record (`InFill`, its three fields at once).
`Execute` of the processing thread is one step for each access to the array. So each
of them acts on a length that the other one may have changed. `SetLength` is Delphi's:
an array that it moves while the other thread uses it is a choice between `fault`
`moved` and an array that stayed; so is a record that is filled behind the array
(`outside`), and a query without a library (`noLibrary`), for the start button starts
the threads also when `iniDNSlib` has failed. `processDNSquery` refuses a NULL
message, which is what `nil` leads to. The length of a buffer is left out, and with
it `REALLOC`; a datagram is read and got its buffer in one step.

`overlapped` is a history variable: the requests put while the processing thread was
between its look at the length and its `setLength`. `OnlyOverlapsLose` says that they
are the only ones that are cut off unanswered, or sent back as they came. `replies` is
one as well: the requests that were sent, in the order of sending. `Waiting` maps the
requests to the `pending` ones of `RequestRelay`: they are neither sent nor freed nor
cut off.

## 3. What is checked

| run | bounds | question and result |
|---|---|---|
| `server_safety` | 3 datagrams, 2 signals, 1 failure, HighWater 1 | order, node lifetimes, resources, what is left behind; `Server` implements `RequestRelay` |
| `server_live` | 2 datagrams, 1 signal, 1 failure | accepted requests leave; a stop after the start ends the process |
| `exit_ends_program` | 1 datagram, 1 signal | **violated**: a stop before a thread saw its flag hangs in `pthread_join` |
| `dns_query` | 2 records per lookup, 3 queries, 2 descriptors and ports | record sets owned once, replies parse, answers match their questions, only unanswered questions cost a socket, each query ends |
| `dns_counts` | 1 query | **violated**: MX records in a reply that announces none |
| `zone_service` | 2 requests of any kind, 3 zone names for 2 tables, 2 row ids, 1 record a table, 1 failure, 1 server | zones have tables of their own, tables have zones, older zones are served, lookups meet the zone's own data |
| `zone_deletion` | 1 request at a time, the same names, 4 row ids, no failure | **violated**: a renamed zone's deletion leaves its table |
| `queue` | 3 Nodes, HighWater 1 | lists hold their items, Nodes are in one place, looks stay true, counts are bounded and end |
| `startup` | 2 required keys, tables of 2, 5 lines, 1 failure | pairs fit, values are the file's last, a failed start cleans up, a file in order starts the server |
| `names` | 8 names of up to 6 bytes, tables of 1 and 2 zones | coding and decoding are inverse, the type is behind the name, an enclosing zone is found if there is one |
| `reply` | 3 rows, results of up to 3, 12 questions, names of 19 bytes and SOA memory of 30 in a record | answers hold the rows, writes fit, blocks are balanced, headers of answers arrive |
| `win32_server` | 3 datagrams, 2 starts | buffers are freed once, only overlaps lose requests, stops are complete and end; `Win32Server` implements `RequestRelay` but for the order |

Why the bounds are enough. Two datagrams give the reorderings and double uses of
nodes, for a node can be in the hands of each thread while another follows it;
three fill both queues and a thread at once. Two signals give an `exitProgram`
interrupted by itself and one followed by another. One failure reaches every error
branch; two of them in one run meet no state that the threads share. HighWater
(100 in the code) is a parameter: with 1 the in thread meets both outcomes of its
test. For queries, two records make the loops over MX hosts go round; the second
query meets what the first one left, a socket and a late answer, and the third one
finds no descriptor any more. Three Nodes fill one list while the third is in a
thread's hands, or moves a freed address behind a reader. Three zone names give a
name of its own and two that share a table; two ids are two zones, or one and another
that is inserted after its deletion. The two requests are alike, and so are the two
names of one table: TLC takes states that differ in them alone as one (`SYMMETRY`),
for no definition names one of them, and the names' table is the same.
Five lines have every required key and the forwarder, a double or an unknown one,
and make a table of two grow twice. The names have labels of one and two
characters, one to three labels, and zones that enclose each other; the rows of
`reply` have names of different lengths, so that a place computed from the wrong
row or column is another one, and numbers with each byte set; the longest one fills the
place of an owner name, and with the suffix of a PTR record is too long for it. In `win32_server` three
requests are one at either end of the array and one put meanwhile; the second start
meets what the first one left. The proofs of
section 4 remove the bounds for every invariant, action property and refinement.

Every property has a mutant beside the code's action (a comment says "Mutant"):
a plausible bug in that action that TLC finds with that property.

Fairness. `Server` assumes weak fairness of each thread, of `main` and of
`exitProgram`: the kernel schedules runnable threads. Nothing that comes from
outside (a datagram, a signal, a failure) has to happen. Weak fairness is enough
for the mutexes, since their holders release them without waiting and the number
of datagrams is bounded; a real mutex under endless load would need strong
fairness. `DnsQuery` assumes that the processing thread runs and that `select`
ends the wait for the forwarder (`FairResolver` fairly treats the steps of the
process alone, the forwarder's and the network's not); no answer has to come.
Requests are not promised to leave while the server is being stopped, or when a
thread could not be created. `Queue` needs the in thread only, whatever the others
do to the list it counts; `Startup` needs the main thread.
`Win32Server` assumes that Windows schedules both threads and the form's `WaitFor`;
no click and no datagram has to come.

The violated properties are what comments of the code or the bundled RFC say;
`PROJECT.json` "findings" quotes them.

CHECK_DEADLOCK is off: the process ends, in `main`'s return, with the form or in a
fault, and `exitProgram` may wait for ever, which is what `exit_ends_program` is about.

## 4. What is proved

All theorems hold for all values of the constants that satisfy the named
assumptions; TLC evaluates those in every run. The
proofs of a component rest on inductive invariants (`Inv` in most modules, `CodingInv`
and `SearchInv` for the loops over names, `Lookup` for replies), whose parts say what
holds between the points that the properties speak of.

* `Server`, in `ServerProofs`. `TypeCorrect`: one lemma for each part of the
  next-state relation. `ArrivalOrderHolds`, `NodeLifetimesHold` and
  `ResourcesOutliveThreadsHolds` come from one inductive invariant `Inv`. The
  properties are not inductive alone: that no consumer takes from an empty queue
  needs `SeenStays` (what a consumer saw through its unlocked look stays, since
  it is the only one to remove, until the drain, which needs the consumer's end);
  that the drain comes after the last thread's end needs `JoinedAreGone`. That it
  frees no node twice needs, for every activation on the stack, what its `node` is:
  what was read from the queue, and nobody else's (`Exact`). An activation keeps that
  as long as none above it has got into the drain (`Hands`); one that has, comes to
  its end before this one goes on, and then everything is released, which is the
  exception that `NodeLifetimes` makes; without it TLC finds the node that is freed
  twice. `Drained`
  says what an activation has emptied when it is at a label behind.
  `NothingStaysBehind` adds `OwnersInside` (who owns a mutex is inside its section)
  and `Accounted` (without an error every datagram read is pending, being freed or
  freed). `ImplementsRelay` is `Spec => RelaySpec`: each step of the daemon
  maps to one of `RequestRelay` or to a stutter, given `Inv`.
* `DnsQuery` and `Resolver`, in `DnsQueryProofs`. `QueryTypeCorrect`,
  `QueryOwnsRecords` and `QueryRepliesParse`. The properties speak of replies, and are
  empty until there is one: `Inv` says what holds on the way. `Counted` carries the
  agreement of `h` and the message, the absence of additional records before answers,
  and that nothing is lost as long as the lookup may still succeed; `Lookups` says that
  a plain question has one lookup, whose return code is the one that the second switch
  sees (for ALL this is false, and the properties exclude it).
  `ResolverImplementsQuery` carries all of this over to `Resolver`, and
  `ResolverMatches` proves `AnswersMatch` from `Matched`: an answer at the port of
  the open socket is one to the current question, since every older question's
  answer is for a port that is held. `SocketsAreLostByFailures` is the action property
  `OnlyFailuresLeaveSockets`.
* `Queue`: `QueueTypeCorrect`, `ListsAreSequences`, `NodesStayInOnePlace`,
  `LooksAreRight` and `CountsAreBounded`, for any set of Nodes. `Inv` adds to the properties what the
  threads know between two writes (`Hands`): that a thread has a Node, that its
  `next` is cleared, that it is linked as the last of its list but not yet `last`,
  and that a list that a consumer saw an element in is not empty.
  `CountsAreBounded` adds where the in thread's walk may be, and what it can still
  count from there (`Walked`): a Node of `queueIn`, one that the processing thread
  carries, one of `queueOut`, one that the out thread carries, or a freed one. What
  lies before the walk moves on with it from list to list, and the in thread appends
  nothing while it counts; a Node that was just taken still points to the first of
  the list it comes from, or nowhere (`HandNext`).
* `ZoneAdmin` and `ZoneService`, in `ZoneAdminProofs`: `ZoneTypeCorrect`,
  `ZonesKeepTheirTables`, `TablesKeepTheirRows`, `OldZonesStayServed` and
  `LookupsStayOwn`, for any requests at once, renamings and deletions of the same zone
  included, and any failures. `Inv` says what each request has in hand: a table just
  created is nobody else's (`Creating`), the row that will be deleted is the one that
  was read (`Doomed`), the table that will be dropped has no row and gets none
  (`Dropping`), each for tables that are `Kept`. Two deletions that have read one zone
  are noted in `raced` when the second one reads (`DeletingApart`), before either can do
  harm, and a renaming takes both of its tables out of what is promised. That the
  served names are those of `SOA` but for `gone` and `came` is carried through the
  server's start by `OldNames`. `ServiceKeepsAdmin` says that the server, which only
  reads, takes nothing from `ZoneAdmin`.
* `Startup`: `StartupTypeCorrect`, `PairsAlwaysFit`, `ValuesAreAlwaysRead` and
  `StartIsClean`. For the third, `found` is the number of places with required keys so far; with no key
  twice the places map one to one into the required keys, and equally many cover all
  of them. `StartIsClean`: with that, a file in order leaves none of the values unset
  that `main` and `createThreads` read untested, and what else crashes has failed.
* `Names`, in `NamesProofs`, for names of any length and any table of zones:
  `NamesComeBack`, `TypesBehindNames` and `ZonesAreFound`. The coder's invariant says
  what of `Wire(name)` is written before the length of the current label is known,
  the decoder's that `text` is the name up to the label at `src`. No induction over
  names is used: that a label has an end, and a place a dot before it, comes from
  the least element of a non-empty set of numbers. For the search, no zone is equal
  to any suffix behind the place the scan has reached, so that a search that found
  nothing has compared every dot.
* `Reply`, in `ReplyProofs`, for rows, results and questions of any number and
  length: `WritesAlwaysFit`, `AnswersHoldRows`, `BlocksStayBalanced`,
  `HeadersArrive`, and `TypesHold`. Of the rows it is assumed that their names are well
  formed and fit into the columns, of the buffers nothing: for 256 and 512 bytes
  `WritesAlwaysFit` leaves exactly names of 255 characters (with the suffix, in PTR
  records, shorter ones) and pairs of SOA names of 489 and more. The invariant `Lookup` has six parts. `Built`: each
  record is written as its row's resource record, whose length is the one computed
  (`RecordBytes`, from `WireWhole`: a coded name has no zero before its end, so that
  `strlen` measures it; from `LengthsAreShort`: no length of a row's record exceeds 16
  bits, since the columns are short). `Places`: the places add up, in order. `Text`: the message
  holds the question and the records appended so far; a new record fits behind them,
  since its place's end is not behind the last one (`AppendFits`), and overwrites
  none. `Heap`: exactly which blocks are allocated in each phase. `Heading`: the
  header that is prepared. `Phase` holds them together. That a header is read as it
  was written (`HeaderBack`) is arithmetic on its twelve bytes.

* `Win32Server`, in `Win32ServerProofs`: `Win32TypeCorrect`, `BuffersStayFreedOnce`,
  `LossesNeedOverlaps`, `StopsAreComplete`, and `Win32ImplementsRelay`. Nothing locks the
  array, so `Inv` rests on who can do what to it meanwhile (`Lengths`): while the in
  thread keeps a length, the array is only cut, and its next place is empty or gone;
  while the processing thread keeps one, the array only grows, and the place stays
  inside. `Places` says that a buffer is in one place of the array, in the in thread's
  hands, freed, or cut off, but for the one that was freed and is cut off next.
  `Overlaps` says that what stands behind the processing thread's place was put
  meanwhile, which makes what `SetLength` cuts off, and what it meets unprocessed,
  `overlapped`. `Replies`: who was sent is freed next, or is freed or cut off already;
  without it a second answer could not be excluded. `Inv` holds in the fault states
  too. `StopsAreComplete` needs `Ends`, which thread runs while which other one does.

Three theorems are the safety half of a liveness property: each step lowers a natural
number (or ends in a fault, or follows a signal), so that there are finitely many of them,
and none leads back. `QueriesAreBounded` is that of `QueryEnds`, `ValidFilesStart` that of
`ValidFileStarts` (with the proof that a file in order is not refused: the places of the
required keys are in bijection with the keys), and `StopsAreBounded` that of `StopEnds`
(with `Told`: the threads were told to end before they are waited for). What they leave
to TLC is that the next step is possible and is taken.

Only model-checked are the liveness properties `RequestsLeave`, `ShutdownCompletes`,
`QueryEnds`, `CountEnds`, `ValidFileStarts` and `StopEnds`, for ENABLED and fairness are
beyond the prover. Every invariant, every action property and both refinements of
`RequestRelay` that the passing runs check are proved.

## 5. What is not modelled

* Of the Win32 server, what is Delphi's own (the message loop in `WaitFor`, the
  visual components, the memo that `logCallback` writes to from other threads), failing
  `MALLOC`s, which nothing there tests, and edit fields that hold no number.
* The administration's pages and input checks, which keep no state, and the creation
  of its database and tables; columns of a record that identify nothing.
* Malformed labels and compression in questions, the reserved bits and opcodes beyond
  what a header is read back as, and the text of SQL statements.
* Characters of the configuration file, and lines longer than its buffer; command
  line help; the wording of the log and of debug output (`printHeader`,
  `printQuestion`, `printRR`); functions that nobody calls (`queueFree`,
  `getUdpClientSocket`).
* Build files, service scripts, and the vendored MySQL headers.

`PROJECT.json` "components" says why for each.

What the modelling showed besides the violated properties; the properties except these
cases where they say so, and the notes of the hazards have the rest:

* a second signal within the drain of the queues frees a node twice;
* a signal while a query fails can run the shutdown a second time, through the error of
  a thread;
* two deletions of one zone at once can drop the table of a zone of that name that was
  inserted in between, against the comment at mpDNSmysql.php:260;
* a failed lookup takes the header from the saved question, qr = 0 included
  (dns.c:652), against "send always an answer" (dns.c:570), and `codeHeader` shifts the
  opcode by 6 places instead of 3 (dns.c:715), so that the second bit of a STATUS opcode
  clears the reply's qr bit;
* a question of an unsupported type is answered by what `ret` happens to be (dns.c:628);
* of two zones of the server that enclose a name the farther one is asked;
* a name of 255 characters, which the columns admit, is coded over the end of its
  record's `name`, and 512 bytes for a SOA record's data are too few for two long names;
* a datagram of less than twelve bytes is refused with a header that its memory has no
  place for;
* the start crashes without a forwarder, although the key may be left out; a key given
  twice makes up for a missing one;
* `iniDNSlib` is declared for Delphi without its last parameter.

A count that steps onto a freed Node ends there (`CountFreed` in `Queue`, with any
outcome), though the code would go on through its old bytes: what it meets is undefined.

## 6. Plan

1. (done) `RequestRelay`, `Server`, their runs and proofs.
2. (done) `DnsQuery`, `Resolver`, their runs and proofs.
3. (done) `Queue`: the linked lists under their unlocked readers, and their proofs.
4. (done) `ZoneAdmin`, `ZoneService`, their runs and proofs.
5. (done) `Startup`, its run and proofs.
6. (done) `DomainNames`, `Names`, `Reply`, their runs and proofs.
7. (done) `Win32Server`, its run and proofs, with its refinement of `RequestRelay`.
8. (done) Measures for `QueryEnds`, `ValidFileStarts` and `StopEnds`.
9. Left: measures for `CountEnds`, for a shutdown of `Server`, and for the loops of `Names`
   and `Reply`; the refinement of `Server`'s queues by the lists of `Queue`.
