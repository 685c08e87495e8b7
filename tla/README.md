# Verification of the lock service and the two file systems

The repository holds three course projects of one author: a distributed lock
service over System V message queues (`project1`), a small distributed file
system over TCP (`project2`, miniDFS), and a variant of it that keeps the
metadata of files (`project3`). This directory holds TLA+ modules of them,
TLC configurations that check the modules on small instances, and proofs that
the TLA+ proof system checks for every instance.

Modelled and checked are the lock service with its test program and its interactive
client; both file systems, with the ring of data servers, the segments, their copies
and the metadata; and the messages of the file systems down to the bytes on a
connection. The lock service with its counter test, the metadata service and miniDFS are
also proved about, for every number of clients, servers and files.

## 1. The system

### project1: the lock service

| Part | State it keeps | Operations |
|---|---|---|
| Message queues, `mqueue.cpp` | one kernel queue per process; the DNS queue, which holds the free names of queues and the rotation of servers | `mq_open` (creates a missing queue), `mq_read` (blocks), `mq_write` (retries while the queue is full), `mq_close` (removes the queue), `publish_name`, `publish_server`, `lookup_server`, `lookup_name` |
| Master, `server.cpp` `master_run` | `lock_dict` (lock to uuid), `mq_dict` (uuid to queue), `mq_foers` (queues of followers), a counter of uuids | `client_register`, `request_lock`, `release_lock`, `inquire_lock_record`, `client_unregister` |
| Follower, `server.cpp` `follower_run` | a copy of `lock_dict`, a `mq_dict` of its own | `message2master` (registrations, requests and releases), `record_client` with an inquiry answered from the copy, `add_lock_record`, `delete_lock_record`, `sync_lock_record` |
| Client library, `lock.cpp` | one message buffer, the server drawn from the rotation | constructor (register), `TryLock`, `TryUnlock`, `isOwnLock`, destructor |
| Counter test, `test.cpp` | a file with a number, one `Dlock` per child process | each child takes the lock, reads, truncates, writes and unlocks, `cnt` times |
| Interactive client, `client.cpp` | two processes that share a queue | the parent reads `req`, `release`, `inquire` and `quit` and writes one message for each without waiting; the child prints the answers; SIGINT or the end of the input removes the queue |

A client sends to the server it drew. A follower forwards what changes the
table to the master, and the master answers the client itself, at the queue
`mq_dict` has for its uuid. After an answer to a grant or a release the master
writes the change to each follower's queue. Every process reads one queue, in
order, and does nothing else while it waits or retries a write.

Hard: the three steps of a grant (record, answer, syncs) interleave with those
of other calls; a follower answers from a copy that lags; a follower may join
while locks are held; a client may take one answer for another; a server name
wanders through the rotation; a full queue stops its writers; the interactive client
types ahead of its answers, and quits while calls of it are on the way.

Correct means: a lock has one holder; a holder is on record; a client's answer
is the answer to its call, and is true when it arrives; every call is answered;
followers agree with the master once they have caught up; a name of a queue has
one owner; a server is in the rotation once; the answers to commands come in their
order; what a client that has quit held is free; a client that leaves stops nobody else.

### project2: miniDFS

| Part | State it keeps | Operations |
|---|---|---|
| Name server, `nameserver.cc` | `files` (segment to data server), `idmap`, `fileidcounter`, `srvs`, `current_svr`, one thread per connection | `FindSegment` (under `floc_lock`), `DSRegister` (without a lock), `message_process` |
| Data server, `dataserver.cc` | its files, its two neighbours, one thread per connection | `updateMyNeighbors`, `message_process_getdata`: store and pass to the neighbours, store a replica and answer its MD5, read |
| Client library, `miniDFS.cc` | a connection to the name server | `UploadFile`, `UploadSegment`, `Read`, `ReadSegment`, `RequireLocation` |
| Programs, `main.cc`, `upload.cc`, `read.cc`, `test.cc` | | upload, read back, compare |

Hard: an upload is not acknowledged, so a read may come before the segment is
stored; data servers that register at once read `srvs.size()` after both are in;
`srvs` keeps the address of a thread's socket; replication stops half way when a
neighbour is gone; the arithmetic of segments at multiples of the segment size
and for reads that begin inside a segment.

Correct means: a segment is read from the server it was given to; the data
servers form a ring; every segment ends up at its server and both neighbours;
reading back an uploaded file gives the file; segments cover the file once.

### project3: metadata

The data server is that of project2 without segments. The name server maps whole
files (`FindFile`), deletes records (`DeleteFile`) and lists them
(`SendAllInfo`); several client threads share one connection under
`socket_lock`.

Hard: `DeleteFile` returns with `floc_lock` held when the file is unknown;
`SendAllInfo` counts and then walks `files` without the lock; a second upload
keeps the first length; `FindFile` makes a record of any file it is asked about, also
by `stat`; an upload is not acknowledged; and a data server that is asked for a file it
does not have calls `exit(0)`, which ends the name server, the ten data servers and the
client, all threads of one program.

Correct means: a request is answered whatever other clients did before; a listing
has as many records as it announces; a file that was deleted is found under a
new number; who asks for a file is sent to the data server that has it; `stat` shows what
`touch` stored; the length on record is that of the last upload.

### Messages of project2 and project3

`socket.h` reads and writes bytes; `msgdelivery.cc` frames a message as four decimal
digits and its protobuf bytes; `message.pb.h` and `message.pb.cc`, generated by
`protoc`, declare a class per message with accessors, and write and parse it. A
program builds a message in a `msgcontainer`, to which it lends a local variable
with `set_allocated_x` and takes it back with `release_x`. The name server's thread
of a connection reads all its messages into one container.

Hard: the container keeps the allocations of earlier messages; a container deletes
what it points to, a local variable too; required fields; early returns between the
two calls.

Correct means: a handler sees the message that was sent and nothing of an earlier
one; every object is freed once, by its owner; every message has its required fields.

## 2. Modules

| Module | Models | Extends |
|---|---|---|
| `LockServer` | `server.cpp` and `mqueue.cpp`: master, followers, queues, names | |
| `Dlock` | `lock.cpp`: clients of the library, with the servers; the properties of the service | `LockServer` |
| `AppClient` | `client.cpp` and, in `server.cpp`, `client_unregister` and `remove_client_in_record` | `Dlock` |
| `LockTable` | what a lock service promises, with no messages | |
| `DlockTable` | the mapping under which `Dlock` implements `LockTable` | `Dlock` |
| `DlockReplicas` | how a follower's table relates to the master's | `Dlock` |
| `LockedCounter` | `test.cpp`, on top of `Dlock`, with its invariant | `Dlock` |
| `DlockInv` | the inductive invariants of the proofs about `Dlock` | `Dlock` |
| `DlockSafety` | proofs: type correctness, names are never shared; what reading and writing a message leaves of the invariant, every handler of a server and every step of a client keep it, and the safety theorems | `DlockInv` |
| `TableProofs` | proofs: records and holders fit together, inquiries are exact, `Dlock` implements `LockTable` | `DlockSafety`, `DlockTable` |
| `RegistryProofs` | proofs: registrations; servers do not block each other, the name of each is in one place | `TableProofs` |
| `ReplicaProofs` | proofs: followers that have caught up have the master's table | `RegistryProofs`, `DlockReplicas` |
| `CounterProofs` | proofs: the counter of `test.cpp` loses nothing, no unlock is refused | `LockedCounter`, `TableProofs` |
| `MetaServer` | `nameserver.cc` of project3: tables, `floc_lock`, a thread per connection | |
| `MetaDFS` | `miniDFS.cc` and `main.cc` of project3: users that share connections, with the name server; the properties of the metadata service | `MetaServer` |
| `MetaStore` | what clients of project3 do at the data servers: uploads, reads, and the exit of the program on a missing file; its invariant | `MetaInv` |
| `FileTable` | what a name server promises: one table, used in atomic steps | |
| `MetaTable` | the mapping under which `MetaDFS` implements `FileTable` | `MetaDFS` |
| `MetaInv` | the inductive invariants of the proofs about the metadata service | `MetaTable` |
| `MetaProofs` | proofs: types, the tables agree, places and their order; answers fit their requests, no id is foreign, `MetaDFS` implements `FileTable`; `MetaStore` is `MetaDFS` to the name server, readers are sent to the server that has the file | `MetaStore` |
| `DSRing` | `DSRegister` and `updateMyNeighbors` of project2 and project3 | |
| `RingProofs` | proofs: data servers that register one at a time form a ring | `DSRing` |
| `MiniDFS` | project2: `FindSegment`, the data servers' files and copies, `UploadFile` and `Read`, with the ring | instance of `DSRing` |
| `MiniInv` | the inductive invariants of the proofs about the copies in `MiniDFS` | `MiniDFS` |
| `MiniProofs` | proofs: the ring of the whole program, places in turn, three copies, files are read back | `MiniInv`, instance of `RingProofs` |
| `Protobuf` | what generated code does, over any class: has-bits, allocation, bytes, parser | |
| `MiniMessages`, `MetaMessages` | the classes and fields of `message.pb.h` of project2 and of project3 | `Protobuf` |
| `MessageExchange` | which function builds which message in which object, framing, and the objects' lives | `Protobuf`, instances of both classes' modules |
| `MCDlock`, `MCAppClient`, `MCLockedCounter`, `MCMetaDFS`, `MCDSRing`, `MCMiniDFS`, `MCMessages` | instances for TLC | |

### How state and actions correspond to the code

*Steps.* A step of a server is the handling of one message: `mq_read`, the
handler, and the computation of everything the handler writes. The writes
themselves go to `out[p]` and are done one at a time by `MqWrite(p)`, which waits
for room as `mq_write` does. A process with a write pending reads nothing. So
other processes see each write of a handler separately, as in the code, and the
handler's tables change before the first of them. In the code `release_lock`
answers before it erases the record; no other process can see the master's table,
so this order cannot be told from the model's.

*Clients.* `cstate[c]` is the blocking point a client is at; `cmsg[c]` is the
buffer `msg` of its `Dlock`; `held[c]` is a history of what its calls returned:
a lock enters when `TryLock` returns true and leaves when `TryUnlock` is
called. A client may call anything at any time, also unlock what it does not
have. `Close` is the destructor, which removes the queue and tells nobody.

*Interactive clients.* `AppClient` keeps `LockServer`'s state and `Dlock`'s connection;
`Command`, `Quit` and `EndOfInput` are the parent, `Printed` the child. `asked[c]` are
the commands without an answer yet, `held[c]` what the user may count on: printed as
owned, and no release typed since it was asked for. `MasterUnregister` is
`client_unregister` with the writes it leaves pending; `PublishReturned` its
`publish_name(mq, name)`, which reaches the DNS queue, not modelled as a queue
elsewhere either. `client_unregister` steps its iterator on from an erased node.
That is undefined: `Walks` has every set of the client's records but the empty one, in
any order, as what the walk erases; a walk that crashes ends the master.
`FollowerUnregister` falls through into the forwarding, as the `switch` does.

*Names.* `publish_name` counts down from `DNS_NODE - 1`; the model counts the
same names up from 1, and MASTER_NODE is 0.

*Tables.* `lockDict[s][l] = 0` stands for a lock that is not in the map (uuids
start at 1). The records of a hash map are walked in any order (`Orders`).

*Undefined values.* A follower never writes the `server` field of its REGISTER
(the line that would is commented out, `server.cpp` 261). The field is `NoName`,
the key of a queue nobody reads; a client that draws it writes into a void.
`ClientMq` gives `NoName` for an uuid the server does not know, where the code
dereferences `end()`; `CallerKnown` shows that it never happens.

*Metadata name server.* `message_process` runs in a thread per connection. `nsAt[c]`
is the place where the thread of connection `c` is; `"read"` is the `readmsg` of
its loop. The places cut a handler where other threads can see the difference:
before and after `floc_lock.lock()`, between the change to `idmap` and the change
to `files`, between the unlocking and the answer, and around every record of
`SendAllInfo`. `nsFloc[c]` and `nsIt[c]` are the handler's local variables; `Return`
clears them, so that states do not differ in dead values. `toNs` and `toClient`
are the two directions of a connection. `PlaceFile` waits, with the lock, until
there is a data server, as the loop in `FindFile` does.

Three points where the code leaves more than one behaviour open:

- A thread that locks `floc_lock` again after `DeleteUnknown` waits for itself.
  For `std::mutex` this is undefined behaviour; a pthread mutex of the default
  kind, which it is in practice, blocks.
- `SendAllInfo` walks `files` with no lock. When the record under its iterator is
  erased, `NextRecord` goes to any record or to the end. A crash at that point
  only ends the behaviour, which safety properties allow; in the runs about
  liveness nothing is deleted while a listing runs.
- Unlocked reads of `srvs` and of `files.size()`, and a step of the iterator with
  the copy of its record, are atomic. `push_back` beside them is a data race; the
  model takes one order or the other.

*Metadata clients.* A user is a thread in the command loop of `main.cc`. Threads
that use one `minidfs` share the connection `ConnOf[u]` and its `socket_lock`
(`socketLock`); `OneConn` and `SharedConn` in `MCMetaDFS` are the two
arrangements that are run. `touch` asks with the length of the file, `stat` with
length 0, `rm` deletes and reads no answer, `cluster` reads a count and then as
many records. The length of `touch` is never 0: an empty file cannot be mapped
(`mmap` fails), so the upload ends before it asks. What follows the location, the
connection to a data server, changes nothing at the name server: in `MetaDFS` it is
`Transfer`, the step that ends it, if it ends.

*Metadata at the data servers.* `MetaStore` puts the data server into that step. `Upload`
sends the file and ends the command; `StoreSegment` is the data server's thread, any
time later. `AskData` sends the `FILEREAD` of a `stat`; `SendData` answers it when the
file is there, `FileMissing` is `readLocalFile`'s `exit(0)` when it is not: `running` is
false, and nothing happens any more, in any thread. A `stat` of a file that nobody
uploaded, that was deleted, or whose upload is still on the way, ends the program in
this way. A file is stored under its name and id (`Segment`). The theorem
`StoreImplementsUsers` says that all this is `MetaDFS` to the name server, so that
what is checked and proved of `MetaDFS` holds with data servers that end the program.
Left out are the copies at the neighbours (they are in directories of their own, and a
reader is never sent there; their way is that of `MiniDFS`), the moment in which a file
that is stored a second time is truncated, and files of earlier runs in the directories.

*Ring.* `Register` is a data server's registration, `nsAt[s]` the place in
`DSRegister` of the thread that serves it, `toDs[s]` the messages on their way to
it, `front` and `behind` its `fDataServer` and `eDataServer`. `srvs` is read again
for every message, as the code does, so a thread may see servers that were added
after its own. `push_back` itself is atomic (two at once could also lose an entry).
`Spec` lets data servers register at any time; in `SerialSpec` one registers when
the name server is done with the others, with messages to the data servers still
under way.

*miniDFS.* `FindSegment` is one step, because `floc_lock` covers it all and the answer is
the caller's own. `cl[c]` is a client's place in `UploadFile` and `Read`; `tasks` are
the data servers' threads that store a segment, each at a system call that others can
see: the truncating `open`, the `write`, the delivery to the front neighbour and to the
one behind, the wait for the checksum. `store[s]` are the files of data server `s`. A
byte is the file and the position it comes from, so the checksum of what was sent is
right and a delivery ends with the first answer. A read is one step with what the file
has at that moment, for nobody truncates a file while patient clients read it. `down` is
the `exit(0)` of `readLocalFile`, which ends all servers, since they are threads of one program. A segment of no bytes is
stored by its copies for ever (`StoreAgain`), the one thread that never ends.

*Messages.* A thread of `MessageExchange` is its memory (cells allocated by `new`, and
locals lent at the moment) and one container. `Lend` and `TakeBack` are
`set_allocated_x` and `release_x`; a container's destructor runs where its function ends.
What is looked up for an answer is open (any entry, any number of them), so that every
sequence of messages a connection can carry is read into its container. `mail[t]` is a
history of what was written to `t`, for `ReadsWhatWasSent`. Threads that write and
threads that read run in any order, a data server's one registration connection and a
client's one connection each in the order of the stream. Strings are byte sequences
and integers are varints, as in the generated code, with negative ones of ten bytes.

Mutants, alternative forms of one operator used to test the properties, stand
before the operator they change and are marked so. No action uses them.

### Assumptions about the environment

- `publish_server` and `publish_name` write `strlen` bytes without the final
  NUL, into buffers of the reader that were never cleared. The model reads the
  string that was written, that is, it takes the rest of the buffer to be NUL.
- The DNS queue never fills: it holds short strings, one per name and server.
- A queue has room for `Cap` messages of 200 bytes; a default queue of 16384
  bytes for 81.
- Kernel queues lose, duplicate and reorder nothing. No message is lost, so the
  model has no loss.
- Processes do not crash. (SIGINT at a server is not modelled, see below.)
- `MSG_UNREGISTER` comes from the interactive client only; `Dlock`, and with it the
  proofs, have clients of `lock.cpp`.
- The `name` of an interactive client's messages, which `app_run` never writes, is not by
  chance the name of a queue. Published on quit, it is drawn by a later client, which
  then waits for its ACK for ever (`AppConnect`); an inquiry through a follower, which
  opens that name, gets no answer (`Answered`).
- A connection loses and reorders nothing (TCP), and stays open: no code of the
  repository closes one while the programs run. `writemsg` never blocks: messages
  are short and a peer reads them all.
- A write to a data server's disk succeeds and is not cut short.
- A message fits the 512 bytes `writemsg` and `readmsg` have for it (`msgdelivery.cc` 6, 23),
  that is, no file name is near that long.
- In `MiniDFS` data servers register one at a time, in their order. `main.cc` starts them
  together, and nothing but the short time a registration takes arranges this; finding 2 is
  what happens otherwise.
- A message is written whole. Two threads that write to one socket could mix the
  length of one message with the body of another; under `socket_lock`, and with one
  registration at a time, no two do.

## 3. What is checked

| Run | Instance | Shows |
|---|---|---|
| `dlock` | 2 followers that register first, 2 clients, 1 lock, 1 free name, queues of 2 | safety of the service: `MutualExclusion`, `OneMessagePerCall`, `AnswersAreTrue`, `CallerKnown`, `NamesDistinct`; a follower that has caught up has the master's table (`ReplicaSynced`); no server waits on another for ever (`NoSendCycle`); `Dlock` implements `LockTable`; `isOwnLock` through the master is exact (`InquiryExact`) |
| `dlock_live` | 1 follower that registers first, queues of 2 | `ClientRegisters`, `CallReturns`, `ReplicaLearns` |
| `counter` | 4 children of 1 round, two at a time, 1 follower that registers at any time, also while the lock is held | the counter is exact (`CounterExact`), no unlock is refused (`UnlockNotRefused`), every child that draws the name of a server finishes and its round counts (`ResultRight`); servers are in the rotation once (`OneTokenPerServer`), a follower's records are no others than the master's were (`ReplicaNeverWrong`) |
| `late_follower` | a follower joins while a lock is held | `ReplicaSynced` fails (finding 1) |
| `app` | 2 users of `client.cpp` who quit whenever they like, 2 locks, 1 follower, 3 commands together, 2 at most of one user | answers in the order of commands (`AnswersInOrder`), a lock printed as owned is recorded (`HolderRecorded`), only a user who left before the answer keeps a server retrying for ever (`SpinsOnlyForUnanswered`) |
| `meta` | `MetaStore`: 3 users, two of them on one connection, 2 files, 2 data servers that register first, 4 uploads, reads and deletions | safety of the metadata service: `TypeOK`, `TablesAgree`, `DeletionFindsPlace`, `NoForeignId`, `RoundRobin`; `MetaDFS` implements `FileTable`; who asks for a file is sent to the data server that has it, or was sent it (`ReadsWhereStored`) |
| `meta_live` | `MetaStore`: 2 users of one connection, 4 uploads, reads and listings, a data server that comes at any time | every command ends or ends the program (`CommandsEnd`), and takes exactly what was sent for it (`AnswersFit`, `NothingLeft`) |
| `unknown_file` | one user deletes an unknown file and goes on | `CommandsEnd` fails (finding 3) |
| `dfs` | 4 data servers that register in their order, 2 clients, files of 3 and of 2 bytes, segments of 2 | the ring (`RingClosed`, `NeighboursStay`); segments go to servers in turn (`PlacedInTurn`) and are stored three times (`ThreeCopies`); files are read back (`ReadBack`); all registrations arrive, and all clients and deliveries end (`AllEnds`) |
| `ring_race` | 3 data servers that register at once | `RingClosed` fails (finding 2) |
| `early_read` | 1 client that reads at once | `ReadBack` fails (finding 4) |
| `messages` | both projects, 3 data servers, 2 calls of a client, 2 names, 3 numbers | `ReadsWhatWasSent`, `OwnershipKept`, `SentComplete` |

*Bounds of the lock service.* Nothing in the model is cut off: names and uuids grow only with
registrations, and each process registers once, so all instances are finite
without constraints. Two clients are enough for every property that compares two
holders, two answers or two names; a follower and a master give both routes to
the table. One lock is enough: the handlers touch no record but that of the
message's lock, and `Orders` alone, which walks all records, is the subject of
finding 1. `InitNames` of 1 (9 in the code) lets the clients run out of names and wait
for the master to publish more. `Cap` of 2 makes queues fill; the number that matters
is its relation to the number of clients: with as many places as clients no server
blocks another, with one place less two servers do (see below).
The configurations with liveness properties use no symmetry. Deadlock is not
checked because a run may end with every client closed.

*Bounds of the metadata service.* `MaxCommands` bounds the commands of all users
together, since ids and commands would otherwise be counted for ever; it is the only
bound. Four commands are enough for a deletion and a new upload of one file beside
two lookups on other threads. With two files one can take the place of the other
(`NoForeignId`, `AnswersFit`); with two data servers the turn comes back to the
first. The runs leave out what a finding breaks: `meta_live` has no deletion
(finding 3) and counts a command as ended that ends the program (a `stat` of a file that is
not there, see below); `meta`, with two connections, has no listing (a listing can be longer
than it announces, see below). In `meta`, deletions of unknown files do happen: the lock stays taken and the invariants go on
to hold. `meta` uses `OrderedStoreSpec`, in which commands start when all data servers are
known, as `main.cc` arranges with its pauses: while servers are being added the turn
is not defined. `meta_live` and the proofs allow them to come at any time.

*Bounds of the interactive clients.* A user types two commands at most, both users three, and
then quits, or leaves at any time before. Two commands typed
ahead are the least that can overtake each other; with two locks `client_unregister`
has a second record to step to. Queues of 6 are never full: what full queues do is the
subject of `dlock` and `dlock_live`. The follower registers first and the users connect one
after the other, in either order, since registrations are the subject of the other runs.
The users need not wait for answers before they quit: then a server may retry a write to a
queue that is gone, for ever (see below), and `app` shows that nothing else gets it there.

*Bounds of the counter test.* A follower that comes late puts a name no server has into the
rotation (finding 1). A child that draws it, `Astray`, waits for its ACK for ever and `test`
does not end, whatever number it expects; `ResultRight` says that this is all that happens: the
others finish, and their rounds count. With one follower four children are the fewest of which
one goes astray: the rotation has the names of the two servers before it. In `counter` there are four,
so this does happen in it; two at a time, so that each meets another at every step (those who
wait longer for a lock only retry), and in the order of their names, which they are given
for nothing else. One round each is enough: the next child does what a second round would.
The README of project1 runs fifty children. Fairness is weak: every process goes on, be it with
a step or with a write it retries. With as many places in a queue as children no write waits.

*Bounds of miniDFS.* A file of 3 bytes has a full segment and a partial one; a file of 2 a
full one and an empty one. Four segments on four servers make every server a primary and
a neighbour, so that servers deliver to each other at the same time. Nothing else
is bounded. Clients read when what was uploaded is stored: finding 4 is what happens
without it.

*Bounds of the messages.* A client's calls are bounded by 2, which is one message read
after another one in the same container, of each pair of kinds; three registrations make a
server that is told as new, as the last and as the first one. The name of no bytes, the
number 0, the two-byte 300 and the ten-byte -1 are the cases of the encoding.

*Bounds of the ring.* Every server registers once, so nothing is cut off. A
registration tells three servers; with four, one of them can be told by two
registrations at a time and one is told by none.

*Ordered runs.* `OrderedSpec` lets clients start only after every follower has
registered. `do.sh` starts the programs in this order but waits for nothing, so
the run `counter` does not assume it, nor do the proofs but two: `ReplicaSynced` and
`NoSendCycle` hold under it and fail without it, the former in the run of finding 1.

*Fairness.* Threads of the metadata service, of the ring and of miniDFS run (weak fairness
of every thread; in `MiniDFS` a thread that stores a segment is known by its segment and
its role). `floc_lock` and `socket_lock` are under strong fairness: a mutex that
is free time and again is got in the end, which `std::mutex` does not promise and
its implementations give. `Fairness` in `Dlock` says that every server keeps running its loop
and every client runs until it is connected and returns from its calls: weak
fairness of each such action, since a blocked `mq_read` wakes when a message comes.
Nothing obliges a client to call or to close. A write is under strong fairness:
`mq_write` sleeps between attempts, so several writers to one queue compete for
each free place, and with weak fairness one of them could lose every time, which
the code does not exclude either. The strong form is the assumption that a
writer that finds room time and again gets through.

## 4. Findings

1. *A follower that joins late is never told of the locks held*
   (`server.cpp` 116). `client_register` means to send all records, but it sets
   `MSG_LOCK_SYNC` in the payload's `type` and leaves the message a
   `MSG_REGISTER`. The follower forwards it to the master as a registration. It
   answers inquiries wrongly until the lock is released. The master takes
   the returned message for a client's registration and publishes its server
   field, which nobody wrote, as the name of a server. The child of `test.cpp` that draws it from
   the rotation registers with nobody and waits for its ACK for ever (`lock.cpp` 44), so `test`
   never ends. `do.sh` starts the followers in the background and `test` right after.
2. *Data servers that register at once are no ring* (`nameserver.cc` 74 of
   project2; the same code at 136 of project3). `DSRegister` takes the entry
   before the last for the server before the new one, without a lock. `main.cc`
   starts all data servers at once. When two threads have both added their entry,
   both tell the last but one, and a server can become its own neighbour.
3. *The deletion of an unknown file stops the name server* (`nameserver.cc` 69 of
   project3). `DeleteFile` returns with `floc_lock` taken.
4. *A client can read before its upload is stored* (`miniDFS.cc` 78 of project2).
   `UploadFile` returns when the bytes are written to the connection. `main.cc` reads
   at once; it can find no file, which ends the whole program, or one that is
   truncated and not written yet.

Seen while modelling, and not given a run:

- *Master and follower can block each other* (`mqueue.cpp` 53). Each retries a write into
  the other's full queue and reads nothing meanwhile. It takes more clients than a queue
  has room for messages: more than 81, where README.md of project1 allows 100. With
  `Cap` below the number of clients TLC finds `NoSendCycle` violated. With as many
  places as clients it is proved not to happen when followers register first, and TLC finds
  it when one joins late.
- *A listing can have more records than it announces* (`nameserver.cc` 93 of project3). The
  client takes the last one for the answer to its next request. With a listing in `meta`
  TLC finds `AnswersFit` violated.
- A second upload of a file finds the first record, and `FindFile` drops the new length
  (`nameserver.cc` 29 of project3): a longer file is read back cut off.
- A file of project2 whose length is a multiple of the segment size has an empty last
  segment (`miniDFS.cc` 107). Its copies are stored for ever (`dataserver.cc` 133): a
  `read` of no bytes never meets the end of the stream. A later upload of more bytes
  under that name would be emptied by that thread again.
- `Read` of project2 takes `min(length - off_in_seg, ...)` (`miniDFS.cc` 144): a read
  that starts inside a segment gets too few bytes, or a negative count. No program
  of the repository makes one.
- `client_unregister` erases from the map it walks (`server.cpp` 154): of two or more locks
  of a client that has quit some can stay recorded, or the master crashes.
- *Who quits before the answer can stop the master* (`client.cpp` 81, `mqueue.cpp` 53). The
  user's queue is gone; the master retries the answer to an earlier command for ever, and never
  reads the UNREGISTER nor anything else, so locks of that user stay recorded. In `app` this happens;
  `SpinsOnlyForUnanswered` says that nothing else leads to it.
- *A `stat` can end all of project3* (`dataserver.cc` 149): of a file that nobody uploaded, that was
  deleted, or that was made just before, since `UploadFile` does not wait for the data
  server (the same race as in finding 4). Before that it gives the file a record
  (`nameserver.cc` 22, 46). In `meta` and `meta_live` this happens (`FileMissing`).
- `quit` publishes whatever is on the stack as a free name (`client.cpp` 31 sets no name),
  not the client's; and an UNREGISTER that the master sends on to a follower for each
  erased lock (`server.cpp` 147 sets the payload's type) comes back to the master.

## 5. What is proved

Proofs hold for every value of the constants: of followers, clients, locks, free
names and the capacity of queues in the lock service; of users, connections, files,
data servers, lengths and commands in the metadata service; of data servers, clients,
lengths of files and of segments in miniDFS. They rest on the assumptions named
`...Assumption` in the modules, and some on a hypothesis that the theorem states and the text
below explains.

`DlockSafety` first proves `TypeCorrect` and `NamesNeverShared`. The invariant is
`TypeInv`: the types, `NameInv` (free names are consecutive numbers below
`nextName`, names in use are smaller, so the next name taken is new) and
`QueueInv` (the queue a connected client reads exists, since only its owner
removes it and names are never shared).

It then proves `MutualExclusion`, `HolderRecorded`, `AnswersAreTrue`,
`CallerKnown` and `OneMessagePerCall`. None of them is inductive. That two
clients do not hold one lock rests on a grant meaning what it says when the
client reads it, and the master may have handled other messages since it
wrote the grant. `SafeInv` strengthens them to an invariant that is:

- `FlightInv`: every message in a queue or still to be written is well formed
  (it uses names that were handed out; a client's queue gets only answers), and
  if it belongs to a client's conversation it fits what the client waits for
  (`OfRegistration`, `OfCall`). In particular a grant in flight is for a lock that
  is recorded under the caller's uuid *now*.
- `SingleInv`: of one client's conversation there is one message at most. So the
  handler that reads the call has removed the only one, and what it writes is
  again the only one. Without it the answer to a call could be followed by a
  second one, and `lk_sendrcv`, which takes any message, would take that for the
  answer to the next call.
- `ClientInv`: what a client holds is recorded under its uuid and is not being
  released. With `FlightInv` this gives exclusion: a table has one uuid per lock,
  and uuids are not shared.
- `DictInv`: uuids are handed out once; a follower's `mq_dict` agrees with the
  master's. So an answer goes to the client that called.

The argument follows messages. Its first part says once what a read, a write and
new pending writes do to `FlightInv` and `SingleInv`; then there is one lemma
per handler of a server and one per step of a client, then `SafeInit`, `SafeNext` and
the theorems.

`TableProofs` proves the other direction: what the master has on record, a client
holds. `ClientInv` leaves open that a record stands for nobody. `RecordsInv` closes it:

- `UuidInv`: a client has no uuid before it is registered and keeps it when it closes.
- `OwnedInv`: every record is of a client.
- `HeldInv`: a lock recorded for a client is held by it, or the client is asking for it
  or giving it back.
- `TellsInv`: the one message of its conversation says which. When a lock is recorded for
  a client that waits for it, the message is the grant; while the release of a lock that
  is recorded is in flight, it is the release itself and not yet its answer; the master's
  answer to an inquiry is what the client's calls say.

`TableInv` is `SafeInv` and `RecordsInv`; it gives `InquiryExact` in both directions. With
it every step of `Dlock` is a step of `LockTable` or leaves it as it is
(`LockTableImplemented`): the master's `request_lock` grants, the client's reading of the
answer takes, `TryUnlock` and the destructor stop using, the master's `release_lock` frees, and
the steps of followers, syncs, queues and registrations are stutters. There is one
lemma per handler. This is the theorem that says what the lock service promises.

`RegistryProofs` is about registrations, on which three things depend that the proofs so
far leave open: who may be in the master's queue, where the name of each server is, and
who is told of a change. Two invariants are true of all behaviours. `RegisterInv`: what
registers is a follower, or a client, with the name and the server it drew; the master is
sent nothing but registrations and calls; only the master puts names of servers back; who
expects no answer has nothing to write. `FoerInv`: the registration of a follower is in
one place, and the master does not know it before it has it. The first half of
the module says what each kind of handler and step does to messages in flight, in terms of
those two (`QuietStep`, `PassesOn`, `Acknowledges`, `Enrols` for handlers, `Introduces`,
`Applies`, `CallsWith`, `Takes` for the others); the invariants that follow only look at
these.

- `NoSendCycle`. The argument is a count. A follower that waits for room in the master's
  queue has in hand the message of a client, and of each client there is one message at
  most (`SingleInv`). If all that is in the master's queue is of clients too, each of another
  one and none of the client the follower waits with, it has fewer messages than there are
  clients, so with room for that many it is not full (`NoServersSpin`). `CycleInv` provides what
  is needed: since followers have registered before a client starts, their
  registrations are gone by then, and no record was ever sent to them as a registration
  (`OrderInv`). Both hypotheses are needed. With less room than clients TLC finds the two
  servers blocked, and a follower that joins late gets records as registrations, which it
  sends back to the master as further messages (finding 1).
- `OneTokenPerServer`, for all behaviours (`ServersKept`). `Token` says where the name of an
  enrolled server can be: in the rotation, with one client that has drawn it and whose
  registration has not arrived, or with the master, which has still to put it back; in
  one of these, once; and a server that is not enrolled is in none. A registration moves the
  name from the second place to the third in the same step. The records a late follower returns
  as registrations (finding 1) carry no server's name, so they put back none.

`ReplicaProofs` proves `ReplicaNeverWrong` for all behaviours (`ReplicasNeverWrong`), and
`ReplicaSynced` for deployments whose followers come first (`ReplicasSynced`); without the order
the latter is false, as finding 1 shows. Both speak of `CaughtUp`: the record a follower would
have after all that is ahead of it, in its queue or still to be written by the master. A change
at the master adds a sync at the end of what is ahead of each follower; a write that
arrives moves the end of one part to the other; a handler of the follower takes the first.
`AfterPushes`, `AfterFirst`, `AfterHead`, `AfterLast` and `Catch...` say what that does to
`CaughtUp`, and each handler and each step has a lemma that uses them (`Followed`). A grant is
recorded only when the lock was free, a release only when it was not, and that makes the
follower's rule (`After`: an insertion does not overwrite) end in the master's record.
`PushInv` says that only the master writes syncs, and none to `NoName`, which stands for the name
of a follower that has not started; `ReplicaInv`
adds that a follower the master does not know has, after what is ahead of it, no record at
all, so its table is empty when it is enrolled. `AfterAll` is a recursive function. The facts about it
for sequences of every length are proved by its course of values (`Course`) and by the least
number for which a fact fails (`LeastNumber`, from the library's `WFMin` on the natural numbers),
which takes no operator as a parameter.

`CounterProofs` adds `test.cpp`. Every step of a child is a step of `Dlock` or leaves it as
it is, so `SafeInv` holds. `CounterInv` says that a child between `TryLock` and
`TryUnlock` holds the lock of the file, so there is one of them at most; that what it read
is up to date; and that the file holds the number of increments (`Total`, the number of
rounds that are done) or, while one child has truncated it, nothing. From it follow
`CounterExact` and, when all children are done, that the file holds their number times
`Rounds` (`CounterRight`). That they get done is liveness and left to `counter`. The
sum needs a finite number of children, which `CounterAssumption` says.

`UnlockNotRefused` is not a property of the lock service: anybody may call `TryUnlock` of a
lock it does not have, and is refused. It holds of these children, by `UnlockInv`: a child
unlocks what it holds, and as long as its release is on the way to the master the lock is
recorded for it, and no refusal is on its way back (`AcceptInv`). The record of a lock only
changes when its owner's release is handled, and that message is the only one of its
conversation (`SingleInv`), so nothing else can answer the call. What all handlers have in
common is `Echo`: of what a handler writes only the answer is part of a conversation, that
of the message it has read.

`MetaProofs` proves `TypeOK`, `TablesAgree` and `DeletionFindsPlace` of the metadata
name server, and `MetaInvariant`, on which they rest. `TablesAgree` speaks of the
moments when `floc_lock` is free; between them `FindFile` has given an id to a file
without a place, or `DeleteFile` has taken the id of a file whose place is still on
record. `TableInv` says exactly this: `idmap` and `files` agree but for the one file a
thread is `Placing` or the one id it is `Erasing`. `LockInv` says that a thread at
such a place has the lock, so there is one of them at most, and the change it
still has to make is the one that is missing. `IdInv` (an id in use was given out)
makes a new id new. The lock that `DeleteUnknown` leaves taken does no harm to the
tables: no thread is in the middle of a change, and none will be again.

`PlaceInv` ties a location to its id: it is recorded under the id it carries, and only the
newest id can be without a location. `RoundRobin` speaks of the order in which locations
were given, and needs `TurnInv`: `currentSvr` is the number of ids that were given out with a
location (`IdsGiven`), modulo the number of servers, and no file comes before the servers
are complete. So it is proved under `OrderedSpec`; when servers come later the turn is not
defined, as said above.

The second part of `MetaProofs` is about the connections that users share. `socket_lock` is held from a
request to its answer, but a deletion is not answered and its user goes at once, so
deletions pile up in front of the next request. `TalkInv` says for each connection what is on it: when no user
has the lock, deletions at most (`Quiet`); when one has it, its request behind deletions
(`Asking`), or the thread looking up its file (`Finding`), or one answer (`Answered`), or
the listing (`Listed`): the records on the way and the ones `SendAllInfo` still has ahead of
it are as many as the user was told or will be. A location that is found, on the way
or with a user carries an id that was given to its file, and if the id is anyone's now, it is
that file's (`OwnId`); ids are not given twice, so a deletion meanwhile does no harm.
From this follow `NothingLeft`, `AnswersFit` and `NoForeignId`, and the refinement of `FileTable`
(`FileTableImplemented`): a lookup takes effect at `PlaceFile`, whether the file
is new or known; a deletion when `DeleteFile` takes the id from `idmap`; a request is asked when it is
sent and ends with the transfer; all else is a stutter.

These four assume `ListingsAlone`: there is one connection, or nobody asks for a
listing. `SendAllInfo` takes no lock, and a file that another connection's thread adds or
deletes during a listing makes the number it announced wrong. Then a record is left on the
connection and the next reader takes it for its answer, or the user waits for a record that
never comes (see the list of what else was met). With one connection one thread
serves all, and the invariant holds with listings, deletions and lookups together; with
with several it holds without listings. The runs `meta` and `meta_live` are of these two kinds.

The third part is about `MetaStore`. `StoreImplementsUsers` shows that its steps are steps of
`MetaDFS` or nothing to it. `ReadsWhereStored` is about a location that is out of date: its user
may upload to, or read from, a server the name server no longer has the file on. It holds because
an id stands for one server for ever. `StoreInv` says so of everybody who knows a pair
of an id and a server (`KnownPlaces`): the tables, the threads of `FindFile` and
`SendAllInfo`, answers on the way, users, uploads and directories. All of them copy from
each other, in that order, and only `PlaceFile` makes a new pair, of an id that is
`IdsGiven`, larger than all that are known. No `ListingsAlone` is needed.

`RingProofs` proves `RingClosed` under `SerialSpec`. Threads of `DSRegister` end while
what they wrote is still on the way, so between two registrations the neighbours may
be long out of date, and `RingClosed` says nothing until all has arrived. The
invariant `RingInv` speaks of the neighbours a server *will* have (`WillFront`,
`WillBehind`): the last field that is set among the messages on the way to it, or the
present neighbour. An arrival leaves these as they are (`Arrived`), and a message sent
changes the one it sets, at its receiver (`Sent`). In these terms the first `n` servers
are a chain that is closed; while the thread of a new server runs, `Standing` says how
much of it stands after each of its three messages. The lemma for each step moves from
one of its lines to the next. One thread at a time and one entry per server are part of
the invariant; without the first `RingClosed` is false, as finding 2 shows.

`NeighboursStay` is proved from `StayInv`: a server that `DSRegister` has not told anything
yet has no front, and no message on the way sets it; any other than the first is told of a front
once, so when that message arrives there was none; and every message's `e` field is the
first server or the one registered after the receiver.

`MiniProofs` shows that every step of `MiniDFS` is a step of this ring or leaves it
alone, and that its initial states are those of the ring, so `RingClosed` holds for the
whole program, whether clients wait before they read or not. `PlacedInTurn` rests on
`TurnInv`: `currentSvr` is the number of segments modulo the number of servers. That
holds because no segment is placed before the ring is complete, after which the divisor
no longer changes.

`ThreeCopies` and `ReadBack` rest on `CopyInv` of `MiniInv`. Its core is `Copying`, which says for each
segment that was sent how many of its copies stand, by where the thread of its data server is:
none while it stores the segment itself, the first after that, the front neighbour's when that has
answered, all three when it ends (`Passing`); and that without such a thread all three stand and
who still writes the segment writes no bytes (`Copied`). The last is the endless thread of an
empty segment (see what else was met, above): it goes on emptying a file, but the file is empty. From `Passing` it follows that one thread at
most is at work on a segment (`Roles`), so that the truncation by one cannot hit what another one
relies on. Three facts from elsewhere carry it: file ids are not shared (`IdsInv`), a segment has
one place for good (`Located`), and the neighbours are those of a ring that no longer changes once
it is complete (`RingRests`, from `MiniRingCloses`): with two servers or more they are other servers
than the one that sends (`Neighbours`; the two may be the same, which `Passing` allows for). With one server only there
are no neighbours and no copies; `main.cc` starts ten. `TwoServers` is this condition of the two theorems.

For `ReadBack` `ReadInv` adds that a client has read a number of whole segments, which are the
start of its file, and that no thread is at work on the segments of a client that reads. The last is what
waiting gives it: `MiniReadBack` is about `PatientSpec`; without it finding 4 applies. The arithmetic of
`UploadFile` and `Read` (shifts, remainders, the short last segment) is in `SegmentTypes` and `ReadReads`, for
every length and segment size.

Only model-checked:

- Liveness (`ClientRegisters`, `CallReturns`, `ReplicaLearns`, `ResultRight`, `CommandsEnd`,
  `AllEnds`): the prover handles no fairness and no `ENABLED`.
- The interactive clients (`AnswersInOrder`, `SpinsOnlyForUnanswered`). The proofs are about clients of
  `lock.cpp`, which have one message under way; `SingleInv` and all that follows from it is
  false for a client that types ahead. `HolderRecorded` is proved for the former and checked
  for the latter.
- The messages (`ReadsWhatWasSent`, `OwnershipKept`, `SentComplete`). Encoding and parsing
  recurse over classes and bytes, with RECURSIVE operators, which the provers do not take.

## 6. Not modelled, and the plan

- The death of a server by SIGINT. The service has one master and no restart, so nothing
  holds afterwards. A SIGINT at an interactive client is modelled at its prompt only.
- The drivers `upload.cc` and `read.cc`, which make one call each of the client library,
  and `test.cc` of project2, which sets fields `message.proto` no longer has.
- Of the generated code descriptors, reflection, `MergeFrom`, `CopyFrom` and `Swap` (copies
  of messages are values here), and unknown fields.
- A connection that breaks. No program closes one in the middle of a message; if one
  breaks, `readmsg` ends the program.
- Two uploads of one name in miniDFS, and reads that start inside a segment.
- In project3 the buffer of a file's length on a thread's stack, which limits files to the
  stack's size.
- In project3 the neighbours' copies and files left by earlier runs; `MetaStore` starts with
  empty directories.

To model next: two uploads of one name with `MiniDFS`'s tasks.

Theorems to come: `AnswersInOrder` and `SpinsOnlyForUnanswered` of the interactive clients, which need
`SafeInv` again for clients with several commands under way.
