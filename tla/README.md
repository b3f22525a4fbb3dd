# INVINCIBLE-RAID: a verification project

INVINCIBLE-RAID stores images on a home-made RAID 5. An image is Huffman-coded,
the bits are cut in three fragments, a parity fragment is added, and the four go
to four directories that play the disks. When a directory disappears, the
program infers which fragments were on it and computes them again. Images are
asked for over HTTP; requests and answers are JSON.

This directory holds TLA+ modules of that program, TLC configurations that check
them on small instances, and TLAPS proofs about them. The modules also cover the
parts of the two vendored header libraries, Pistache and nlohmann/json, that have
logic of their own and whose code is in the repository. Lines below are of the
repository's files; `RC` stands for `RAID/RAID_Controller.cpp`.

The repository has no tests and no documents besides its comments and the
messages it prints. The disagreements listed in section 3 are with those.

## 1. Inventory

| Part | Where | State | Operations | Modules |
|---|---|---|---|---|
| Striping arithmetic | RC 220-303, 545-590, 676-699 | none (strings of bits) | `codigoteSplitter`, `parityCalculator`, the arithmetic of `XORrecovery` and `merge` | `Striping`, `StripeLife` |
| RAID controller | RC | `c_disk` (next parity disk), the columns of the four disks, the map of trees; the directories and files | constructor, `imageDecomposer`, `diskWriter`, `getImage`, `merge`, `diskVerifier`, `reconstructDisk`, `repair`, `XORrecovery`, `imageRestore` | `RaidController` (not `diskVerifierT` nor `compose`, which nothing calls) |
| The controller as a store | RC | what its caller sees | store, read | `ImageStore`, refinement in `RaidStore` |
| File names and paths | RC 89-107, 139-198, 450-496, 662-693 | the names in the directories | what is written into a name, and what is read from it again | `FileNames` |
| Disk, FilePart | `RAID/Disk.cpp`, `RAID/FilePart.cpp` | number, column; name, path, part number | getters | the variable `col` and the locations of `RaidController` |
| Huffman compressor | `Huffman_Compressor/` | none | `compress`, `sort`, `codifier`, `encoder`, `decompress`, `treeReconstructor` | `HuffmanCode`; with the stripe `ImageTrip` |
| List, Node | `Structures/` | a linked list | `add`, `setHead`, `delFirst` | a sequence in `HuffmanCode` |
| HTTP handler | `server/requestHandler.h` | the one `RAID_Controller` | `/INSERT` (stores nothing: the call is a comment, line 44), `/SELECT` (`getImage`), `/UPDATE` (echo), default page | `/SELECT` in `RaidController`; bodies and echo in the JSON modules |
| main | `Main/main.cpp` | none | starts the server with one worker thread | one call at a time |
| Queues of Pistache | `pistache/mailbox.h` | linked entries and an eventfd; a ring of cells | `push`, `pop`, `popSafe`; `enqueue`, `dequeue` | `MailQueue`, `BoundedQueue` |
| Promises of Pistache | `pistache/async.h` | state, value and requests of a core, under a mutex | `then`, `Resolver`, `Rejection`, the continuations, `whenAll`, `whenAny` | `Promise`, `When` |
| Dates of Pistache | `pistache/date.h` | none | calendar arithmetic, times of day, `to_stream`, `from_stream`, `operator<<` | `Calendar`, `TimeOfDay`, `DateFormat`, `DateParse` |
| JSON library | `nlohmann/` | a value; lexer and parser while they read | `parse`, `accept`, `dump`, CBOR, MessagePack, UBJSON, BSON, pointers, patches | `JsonValue`, `JsonLexer`, `JsonParser`, `JsonSerializer`, `JsonWriter`, `JsonReader`, `JsonPatch`; reference `JsonGrammar` |
| Matrix, build files, sample data, rest of Pistache | | | | not modelled |

How they interact. In the program itself everything is calls on one thread, but
the calls nest in a way that is hard to follow: `getImage` calls `merge`,
`merge` calls `diskVerifier`, which may find a disk missing and call
`reconstructDisk` and `repair`; `repair` restores the strips of pictures (crops
of the original kept beside the fragments) with `imageRestore`, which calls
`merge` again, which verifies the disks again. The file system is shared with
the outside world: a directory may go at any moment. Exceptions go through all
of this and leave the columns half changed; the server goes on using them. Around
that thread, Pistache's own threads hand it peers and answers through the
lock-free queue and tell each other of finished writes with promises.

What makes each part correct:

* Striping: the fragments written, recovered any number of times, are the same
  files, and joining them gives back the bits, for every length modulo three.
* Controller: one lost disk never loses an image; every fragment is rebuilt on
  the disk it belongs to, with the right content; reads give what was stored;
  a boot repairs what is missing; every call ends.
* File names: whose a fragment is and which, read from its name at the next
  start, is what was meant when it was written.
* Compressor: the tree written to a file and read back decodes what was encoded,
  and the code is as short as the counts allow.
* Queues: nothing lost, repeated, overtaken or read after it was freed; no call
  refused wrongly; no thread stuck.
* Promises: a continuation runs exactly once however attaching and settling
  meet; values and exceptions reach the end of a chain.
* JSON: a text is understood as what the grammar says, or refused; what is
  written is read back; a patch leads where it was computed to lead.
* Dates: every day has the number and the weekday the calendar gives it; a date
  that is written is read back, and a text that says two dates is refused.

Which behaviours are hard: losses between two steps of a rebuild; a rebuild
nested in a rebuild; exceptions and crashes that leave a directory created and
not filled, a column changed and not repaired, fragments without a tree; columns
that are not what is on disk (strips are never registered by `diskWriter`, Info
files never by `reconstructDisk`); the rotation of the parity that starts again
with every process; in the libraries, threads between two accesses to the same
queue or promise, and long texts of parts that may contradict each other.
`PROJECT.json` lists them under `hazards`, each at its line.

## 2. Modules

| Module | Extends or instantiates | Contents |
|---|---|---|
| `Striping` | | pure operators: cutting, padding, parity, recovery, joining |
| `StripeLife` | `Striping` | state machine: store, lose one fragment, recover it, forever |
| `StripingProofs` | `StripeLife` | the arithmetic is right for every length |
| `FileNames` | | names of files written by one process and split again by the next |
| `HuffmanCode` | | one picture through the compressor, the tree file and back |
| `ImageTrip` | `HuffmanCode`, `Striping` | the same picture through the stripe as well |
| `RaidController` | | the controller, its disks and its failures |
| `ImageStore` | | abstract: pictures under names, one request at a time |
| `RaidStore` | `RaidController`, `ImageStore` | the refinement mapping |
| `RaidProofs` | `RaidStore` | under any failures, type correctness, `Spread`, `RecoveryRight`; under cold ones reads, recovery, messages, the refinement |
| `ImageTripProofs` | `ImageTrip`; instantiates `StripingProofs` | the compressor and the trip lose nothing |
| `TextProofs` | `MCStripeLife`, `StripingProofs`, `JsonLexer` | what is said of `FileNames`, for any words and images, and of the lexer, for any text |
| `MailQueueProofs`, `BoundedQueueProofs`, `PromiseProofs` | the module they are about | its invariants, for any numbers of threads, messages, cells, promises |
| `PistacheProofs` | `MCPistache`, `MailQueueProofs`; instantiates these three | `When`, and all that is proved of the others, for the sum that TLC runs; the calendar |
| `MailQueue`, `BoundedQueue`, `Promise`, `When` | | Pistache's queues and promises |
| `JsonValue` | | values and their equality |
| `JsonLexer` | | the lexer, one byte a step |
| `JsonParser` | `JsonLexer`, `JsonValue` | the parser and what it builds, one token a step |
| `JsonGrammar` | `JsonParser` | reference: what a text says, by RFC 7159 |
| `JsonSerializer` | `JsonValue` | `dump` |
| `JsonWriter`, `JsonReader` | `JsonValue` | the four binary formats |
| `JsonPatch` | `JsonValue` | pointers, patches, merge patches, flattening |
| `Calendar`, `TimeOfDay`, `DateFormat`, `DateParse` | each the one before | the dates of `date.h` |
| `MCStripeLife`, `MCPicture`, `MCRaid`, `MCPistache`, `MCMailQueue`, `MCJson`, `MCTexts` | the modules above | values for the constants, and the sums of modules described in section 3 |

Operators whose name has an underscore (`Link_FromHead`) are mutants: forms of
the operator before the underscore as a plausible slip would have written it.
No specification uses them. `PROJECT.json` names for each property a mutant
that breaks it.

### Striping and StripeLife

A bit is 0 or 1, a codigote (the program's word for the encoded bits) a sequence
of bits, a fragment file a record of the number on its `Size:` line and the bits
on its second line. `Cut` gives in closed form where the loops of
`codigoteSplitter` cut. `RealSize` is the loop of `XORrecovery` that hands out
the remainder to two entries of an array of three. `RealBits` is the
`substr(0, Size)` of `merge`. `StripeLife` lets one fragment at a time be lost
and recovered; its recovery reads the total size from the Info file of another
disk, which the state machine takes as right (when it is not is the concern of
`RaidController`).

### FileNames

What a fragment is, and whose, is written nowhere but in the name of its file.
A text is a sequence of words, which the program separates with `_`; `disk` and
`column` hold the files and what is registered of them. `imageDecomposer`
writes, `Restart` is the constructor's `fileFetcher`, `ReadFor` the search of
`merge` (a substring: a name that ends with the searched one is found too, and
`Endings` says which words end with which). `RaidController` assumes names of a
single harmless word; this module says what comes of the others. Words, suffixes
and images are constants; of them `MCStripeLife` assumes no more than is true of
any texts (a path has a name and an extension, a word ends with itself) and of
the words the program itself adds.

### HuffmanCode and ImageTrip

`compress` counts the bytes (the inner loop stops at `ind-i`, so the counts are
too low), sorts the linked list by swapping neighbours from the head again and
again, and combines its first two nodes until one is left; `backTrackCoder`
reads the codes off the tree; `encoder` joins them; `diskWriter` writes one line
per byte and `treeReconstructor` reads the lines back. A tree is the set of its
leaves, each a path and a byte. A newline byte among the keys splits its line in
two, as it does in the file. One action is one turn of a loop. `ImageTrip`
composes this with `Striping`: what was encoded is cut into the four files, one
is lost and recovered, `merge` joins them, and decoding uses what was read.

### RaidController

| Variable | Code |
|---|---|
| `dir`, `file`, `treeFile` | the directories `RAID/Disk_1..4`, their files, `../Trees` |
| `up`, `stack` | the process and the calls in progress, innermost first |
| `col` | the `fileColumn` maps of the four `Disk` objects |
| `trees`, `c_disk` | the members of `RAID_Controller` |
| `image`, `reply` | history: what was stored under each name; the last answer |
| `faults` | a counter that bounds the faults TLC explores |

A file is a triple of disk, name and part number (Info 0, parts 1-3, parity 4,
strips 51-53: the numbers of `FilePart`). Its content is a set of marks. Data
fragment `i` of an image carries the mark `i`, parity the three marks; XOR is
symmetric difference. A fragment's size line is the mark 0, because the size of
a data fragment follows from the total size in the Info file: a fragment
recovered with a blank Info file throws, as `stoi` does. `Striping` justifies
this: what the marks say of sets, its theorems say of bits.

Each action is the stretch of one function between two points where the world
may interfere:

| Action | Code |
|---|---|
| `Boot`, `EndBoot` | constructor: columns and trees read from disk, then `diskVerifier` |
| `imageDecomposer`, `StartWriting`, `WriteFile` (once per file, in order), `WriteTree` | RC 89-107, 139-218 |
| `getImage`, `Answer` | RC 730-745 and the rest of `merge` |
| `VerifyNothing`, `VerifyAllGone`, `VerifyTooMany`, `reconstructDisk` | `diskVerifier` by the number of directories missing; RC 305-442 |
| `RepairInfo`, `RepairPart`, `RepairParity`, `RepairDone` | `repair`: a name's Info file, each pass of the loop over parts and strips, its parity; RC 592-660 |
| `imageRestore` | RC 716-729, after the nested `diskVerifier` returned |
| `Throw` | an exception through all calls in progress: an error answer, or the end of the process for the constructor |
| `DiskFail`, `Crash` | the world: a directory is lost with its files; the process ends, the file it was writing possibly empty |

Details of the code the model keeps because they decide properties: columns are
walked disk by disk in the order of file names (`Precedes`), the first three
fragments in that order are the ones used (`FirstThree`), vectors shorter than
three throw; `repair` takes its names from the Info files *registered* for the
next disk, and captures parts and strips of the lost disk's column;
`imgs.at(i)` uses the index of the parts; a stream to a directory that is gone
writes nothing and raises nothing; `merge` looks for a substring of file names
(`Hits`); the iterator of RC 205 belongs to a temporary and is undefined
behaviour (`DanglingTree`: the tree file may hold anything).

Assumptions about inputs. Names have no `_` and none of the words Part, Parity,
Info and ImgPt. Pictures are valid. Different pictures differ in their encoded
size. A captured list of parts is taken when `repair` handles the name: the
column of the lost disk does not change during its repair, so this equals the
capture at its start. What happens inside the constructor before `diskVerifier`
is one step: nothing it reads can be changed by anything but a disk loss, which
commutes with it.

### ImageStore and RaidStore

`ImageStore` is what the controller promises its caller: a picture is stored
under a name that has none, and a read answers with what is stored, or
"not found"; every request that was taken ends. The refinement mapping of
`RaidStore` takes `picture[n]` to be the payload of `image[n]` once its insertion
is over, and `request` to be the call at the bottom of the stack, unless that is
a boot. Boots, crashes between calls, disk losses, verifications and repairs
stutter; `WriteTree` is `Stored`, `Answer` of the outermost call `Answered`.
`ImplementsStore` includes the fairness of the store.

### The queues: MailQueue and BoundedQueue

`MailQueue` is `Queue` and `PollableQueue` of `mailbox.h`: producers exchange
the head and link the entry they got (`Push`, `Link`), write the eventfd
(`Notify`); the consumer pops (`PopEntry`, `PopNothing`), reads the eventfd
empty (`Drain`), hands the message out and deletes the entry (`Take`). With
`Polling` it sleeps in `epoll_wait` (`Wake`), without it asks again. The loop
that pops is in the compiled library; it is taken from what `popSafe` returns.
`BoundedQueue` is `MPMCQueue`: indices moved by `compare_exchange_weak`, which
may fail without a reason (`ClaimFails`), and cells with a sequence number. In
both, one action is one access to shared memory; a load gives the value stored
last, as on the processors the program is built for.

### The promises: Promise and When

A core of `async.h` is what the copies of one promise share. `then` makes a core
and a request that hangs on another core; both are named by the new core. A
thread's nested calls are its `stack`; the mutex of a core is `owner`. A core is
settled under the mutex and calls its requests one by one; a request that is
attached to a settled core is called by `then` itself. Callbacks return a value,
nothing, or a promise (then a `Chainer` is attached to that); handlers of
exceptions ignore or throw on. What a callback computes is left out.

Two switches widen the model to uses nothing in `src/` makes, and which fail:
with `Chained` a thread attaches to a chain while another settles what it hangs
on, and a `Chainer` or a value reaches a request twice or never, because a chain
is settled without its mutex (`async.h` 393); with `TwoSettlers` both pass the
test of the state before the mutex (`async.h` 763). The run keeps both off and
states the rule they stand for: one settles, and what hangs on a promise is
attached while nobody settles it. `Promise` also keeps that a handler which
ignores an exception leaves its chain pending, and that a callback which returns
a promise tells, on an exception, the requests of the core it hangs on and not
those of its chain (`async.h` 539); `Follows` promises nothing there.

`When` takes from `Promise` that a continuation runs once, and models what the
continuations of `whenAll` (of arguments or of a range) and of `whenAny` do with
the data they share while inputs are settled and attached in any order.

### JSON

A value is a pair of a type and a content, a string a sequence of bytes, an
object a function from keys. `JsonLexer` has one action per `get()` of the
lexer: `label` says where `scan` is. `JsonParser` has one action per token;
`states`, `ref_stack` and `object_element` are the parser's and the builder's
own, pointers being paths in the value. `mode` chooses `parse`, `parse` without
exceptions, `accept`, or `parse` with a callback; in the last `keep_stack`,
`key_keep_stack` and `alive` (which entries of `ref_stack` are no null pointers)
are those of `json_sax_dom_callback_parser`, and `rejected` says what the
callback refuses.

In the text part integers have the ranges 0..`MaxUnsigned` and
-`MaxInteger`-1..`MaxInteger`, so that both overflows happen within a few
digits, and a float is the text it was read from; `dump_escaped` has a buffer of
`BufferSize` bytes in place of 512. In the binary part a number is its 64 bits.
`JsonGrammar` reads the value off a whole text by the grammar, with none of the
parser's steps. `JsonWriter`, `JsonReader`, `JsonPatch` and `JsonSerializer` are
operators: these parts of the code keep no state between calls. An exception is
a result.

### Dates

A date, a year, a weekday are records of numbers in the widths the header gives
them (a byte, a short). `DateFormat` and `DateParse` go through the format
character by character, as `to_stream` and `from_stream` do; a parse is a state
of the text left, the stream's bits and the fields read, and the reconciliation
at the end of `from_stream` combines the fields or fails. The code is the one
compiled with `ONLY_C_LOCALE`: the other build takes names and the E and O forms
from the standard library. `date.h` is used by the compiled part of Pistache; no
file of `src/` includes it.

## 3. Runs

| Run | Bounds | Properties |
|---|---|---|
| `stripe_life` | codigotes of 0 to 7 bits; seven kinds of names, 4 insertions, any restarts | `FilesExact`, `ReadsBack`, `ReadAsWritten`, `ThrowsForUnderscore`, `ReadsItsParts`, `RestartKeeps` |
| `raid_cold` | 4 names; a disk is lost only while the process is stopped and all four directories exist | `Recoverable`, `ReadsStored`, `BootHeals`, `ImplementsStore` |
| `raid_any` | 2 names, one a suffix of the other; 2 faults (disks, crashes) anywhere; junk trees | `TypeOK`, `Spread`, `RecoveryRight`, `CallsEnd`, `RebuildGivesUpRightly` |
| `raid_again` | 1 name, 2 pictures, no disk lost, restarts, one crash in any call | `ReadsStored` |
| `raid_restart` | 2 names, disks lost while stopped, one crash in any call | `BootGivesUpRightly` |
| `picture` | pictures of up to 7 bytes of 6 kinds, the newline among them | `TypeOK`, `NothingLost`, `Optimal`, `EndToEnd`, `Ends` |
| `pistache` | 2 producers with 2 messages; 2 cells with 3 threads of 2 calls or 2 of 3; 2 threads and 5 cores; 1 to 3 promises together | `Types`, `InOrder`, `NoUseAfterFree`, `Hidden`, `Handed`, `Told`, `RightOutcome`, `RefusedRightly`, `ReceivedWhenAsked`, `CallsReturn`, `Answers` |
| `texts` | see below | `Positions`, `Understood`, `TextTrip`, `BinaryTrip`, `PatchTrip`, `CalendarRight`, `DateTrip` |
| `restored` | 1 name, disks lost while idle | violation of `RestoredIsWhole` |
| `two_damaged` | 1 name, disks lost while idle | violation of `NoRebuildOfTwo` |
| `initialized` | 1 name, one crash in a call | violation of `InitializedIsWhole` |
| `mail_queue_woken` | 2 producers with one message | violation of `AllReceived` |

Three runs check sums of modules: `MCStripeLife` (contents and names of files),
`MCPistache` (two forms of the mail queue, the bounded queue, promises, promises
together) and `MCTexts` (texts, documents, edits, days, dates). The parts share
no state, so their product would only multiply states; a variable of the sum
says which part a behaviour is about, and the others keep their initial values.
Fairness in `MCPistache` is that of each module, for the behaviours about it.

### Bounds and why they are enough

Seven bits cover every residue modulo three with fragments of no, one, two and
three bits, padded and not. Four names give a turn of the parity over the four
disks and its wrap; each name's behaviour under a repair differs only by the
position of its parity. Two names are what it takes for one name's strips to
meet another name's index in `repair`, for one name to throw after another was
registered, and for substring hits. Two faults put a second loss in the middle
of a repair, a crash in the middle of one and a loss after it. In `raid_cold` the
number of losses is not bounded: the state returns to where it was when a boot
has healed. `MaxFaults` bounds the others.

`Failures` is the discipline of disk losses. `cold` is the one under which the
program works: a disk lost while the process is stopped is healed by the next
boot, which reads the columns fresh. `idle` allows a loss while the process
waits for requests, `any` at any step; under `never` only the process stops.

Seven bytes of six kinds give lists of up to six nodes, with ties and swaps at
the head, in the middle and at the end, and codes of up to five bits; pictures
are taken up to the names of their bytes. Two producers of two messages let one
be cut off between exchange and link while the other overtakes it, and its own
next message follows. Three threads on two cells make a ticket wait for a cell
of the round before; liveness of the bounded queue is checked for two threads,
because three make no new way to wait. Five cores are chains of five, trees, and
a promise returned by a callback with its chainer; the bound on the fifth core
(`LastOfTwo`) keeps callbacks of two kinds there. Three inputs are the least with
one before, at and after the settling one.

`texts` reads every sequence of at most three lexemes, alone and after six
openings of arrays and objects; every number-like text of three characters and
string of two pieces (bytes at the edges of UTF-8, halves of surrogate pairs,
escapes); every three of blanks, byte order marks and literals; in three modes.
Values of up to three levels go through the callback parser with one kind of
thing rejected. What `dump` writes of some hundred values and all strings of
three critical bytes is read back, in three layouts. Numbers at both sides of
every edge of 8, 16, 32 and 64 bits and lengths at both sides of where their
encoding changes go through the binary formats, and documents of at most 30 bytes
are cut at every byte. Edits are all pairs of values of two levels out of a few
leaves, with keys that must be escaped, and arrays of more than ten. Days are
walked through common, leap, centurial and quadricentennial years on both
sides of year 0 and through the first and last year of a short; five days of each
year (the ends of the year and of February, a week in) are written in every format and
read back, combined with parts of the same, the next, and the next week's date.
TLC's integers hold time points in seconds from 1902 to 2037.

### Fairness

`RaidController`: `WF_vars(Step)`, the one thread goes on as long as it has
something to do. No fairness is assumed of requests, of boots, of losses or of
crashes. `BootHeals` needs it so that a boot goes on; a process stopped while
idle does not matter, and in the cold run there is no crash within a call.
`CallsEnd` uses the bound on faults: with a loss in every nested verification,
calls nest without end.

`HuffmanCode` and `ImageTrip`: the thread goes on; a lost fragment is recovered,
and `merge` is asked for again and again (strong fairness, because losses may
come between).

`MailQueue`: what push has begun it ends, and the consumer runs; nobody has to
push. `BoundedQueue`: threads go on, and a `compare_exchange_weak` that finds
its value does not fail for ever for no reason (strong fairness of `Claim`).
`Promise`: a mutex that is free again and again is got. `When`: what has begun
to be attached is attached, and continuations run; nobody has to settle.

`texts` states safety only: its behaviours are finite, and what a property says
of a result it says of every result there is.

### What the properties say

* `FilesExact`, `ReadsBack`: section 1, striping.
* `ReadAsWritten`, `RestartKeeps`: of a name without underscores a file means
  after any restart what it meant when written; only files of names with two
  underscores or more are forgotten. `ThrowsForUnderscore`: the constructor
  throws only when a name with one underscore was stored. `ReadsItsParts`:
  `merge` finds exactly the three data fragments of a harmless name.
* `Spread`: a disk never holds, in directory or column, two fragments or two
  strips of one image; what is inferred for a lost disk is what was there. A
  name stored again with another parity disk is excepted (`mixed`): there the
  code mixes old and new fragments.
* `RecoveryRight`: when three fragments and the Info file are right, the fourth
  is recovered right, whatever else goes on.
* `Recoverable`: at every step of the cold run at most one disk lacks anything.
* `ReadsStored`: `getImage` answers a stored image with what was stored last,
  and an image never stored with "not found". In `raid_again` the insertion of
  the one name is also stopped at every step: nothing is promised of the image
  until it is stored again, and then whatever the interrupted insertion left
  (fragments of another picture, no tree) does not show.
* `BootHeals`: a boot ends with every disk whole. `CallsEnd`: every call ends.
* `ImplementsStore`: section 2.
* `BootGivesUpRightly`: while what it finds is in order (names of images stored
  to the end, trees that decode them, no name found in the text of another's
  files, one disk at most incomplete) a boot does not end the process. Otherwise it may, at every start again: an insertion
  interrupted before its third fragment and a lost disk lock all images out
  (RC 392).
* `RebuildGivesUpRightly`: the same of every rebuild, one that a request asks for
  and one nested in another's repair included, with disks lost between any two
  steps: in a verification, a repair or the decoding for it no exception leaves
  the call and the process does not end, while the images are sound (stored to
  the end, decodable, one disk at most incomplete) and the columns `Matched`. They
  are not after an insertion until the next start, because `diskWriter` registers
  no strips (RC 185), nor when an exception or a crash cut a repair: there
  `imgs.at` does throw.
* `NothingLost`: relinking the list in `sort` and combining its nodes loses and
  doubles no byte, although the head is recognised by comparing pointers that
  are all null for inner nodes. `Optimal`: the codes are a prefix code, and no
  other is shorter *for the counts made*; these are too low for bytes that come
  late, so the code need not be the best for the picture. `EndToEnd`: a picture
  of two different bytes or more comes back through code, tree file, stripe,
  loss and recovery; one that repeats a byte comes back empty, and an empty one
  ends the process. `Ends`: every loop ends.
* `InOrder`, `NoUseAfterFree`, `Hidden`, `ReceivedWhenAsked`: messages come out
  in the order of the exchanges, once; no deleted entry is touched; only a push
  in progress hides messages; a consumer that asks again gets all.
* `Handed`, `RefusedRightly`: of the bounded queue, cells are never shared, a
  value is read once with the ticket it was stored with, and a lone call is
  refused only by a full or an empty queue.
* `Told`: callbacks run once, are never forgotten, and tell what hangs on them;
  no Error is thrown by the rules above. `RightOutcome`, `Answers`: `whenAll`
  gives all values or one exception, `whenAny` what came first, and only an
  exception that comes too late ends in an Error; once all inputs are settled so
  is the result. `CallsReturn`: no thread loops or waits for ever.
* `Positions`: the position and the quoted token of the lexer are those of the
  bytes read, also when one was put back, except for the column while that byte
  is a newline. `Understood`: `JsonGrammar` and the parser agree on every text,
  and the callback parser leaves what was not rejected. `TextTrip`, `BinaryTrip`:
  what is written is read back as the same value, cut documents are refused, and
  writers throw for exactly the values they have no form for. `PatchTrip`:
  `patch(diff)` gives the target; a merge patch changes what it names; what is
  copied or moved is there; `unflatten` undoes `flatten`.
* `CalendarRight`: every day has its number and weekday, is the n-th or the last
  of its weekday, and months, years, weeks and hours are added and rounded as the
  calendar says. `DateTrip`: a text that says one date is read as it, in small
  letters or capitals, and one that says two is refused. Texts that cannot be
  read as written are named by `Lossy`.

### Disagreements between the code and its comments and messages

1. `restored`. `diskVerifier` prints "Disco N reestablecido correctamente"
   (RC 337) whenever `repair` returns. `repair` takes names from the Info files
   registered for the next disk, and `reconstructDisk` registers no Info files
   (RC 402-432): after a boot that rebuilt disk d, the loss of disk d-1 restores
   nothing, and the message is printed.
2. `two_damaged`. "Mas de un disco se ha dañado, no se puede continuar"
   (RC 321) is decided by counting directories (RC 319). After 1, disk d-1 has a
   directory and no fragments: it does not count, and a further loss starts a
   rebuild from two damaged disks.
3. `initialized`. "Discos inicializados correctamente" (RC 75) is printed and
   holds for directories only: the directory is created before its files
   (RC 334), a crash in between is never noticed again.
4. `mail_queue_woken`. `PollableQueue::pop` looks at the queue first
   (`mailbox.h` 290) and reads the eventfd empty afterwards (295): the event of a
   message pushed in between is taken with it. A consumer that waits for the
   eventfd then sleeps on the message until another is pushed, although the queue
   is for passing messages between threads (146).

### Behaviours worth knowing that no run is about

The models contain them, and the properties are stated around them.

JSON. A comment says that the parent of an added value "cannot be primitive"
(`json.hpp` 7548); an `add` below a number reaches the `assert(false)` there, and
a `remove` below one does nothing. `flatten` is said to be undone by `unflatten`
(7378-7381), but an object with a member "0" comes back as an array or throws. A
byte 0 ends the input where a token may begin. Unsigned 2^64-1 equals the
integer -1. Discarded values are said to be removed (1097-1103): when a callback
rejects a value or an array inside an object, the member stays, marked as
discarded, unless another member that is an object ends later; a discarded
object stays in an array; and the key's entry in `key_keep_stack` stays, without
consequence. `Understood` compares without such members.

Dates. Week 0 of `%U` and `%W` is refused, its days being of the year before. Years before 0 ending in 00 are
refused when given by `%Y` and `%y`. `%g` without a century reads 1969 to 2068,
and `%F` of the years -999 to -1 writes "00-5". `%D` and `%x` keep two digits of
the year; `%C%y` of -9999 prints three for the century; the same letter read
twice is not compared; a negative offset with minutes is read back wrong; hours
of three digits and negative durations cannot be read; minutes 60 to 99 are
accepted and carried.

The server. A POST to another resource than the three gets no answer at all
(`requestHandler.h` 27-88).

## 4. Proofs

The theorems hold for every value of the constants that satisfies the
assumptions of the module (`ValuesAssumption` of `RaidController`,
`RequestsAssumption` of `RaidStore`: the values that stand for nothing are none
of the others) and, where there is one, the hypothesis named in the theorem. A
hypothesis is an operator with a name (`Cold`, `LegalSize`, `LegalRules`) that
is true of the run that checks the same property. Every invariant below was
checked by TLC on a run's instance before it was proved. The induction is always
the same: an inductive invariant, a lemma for each action, one theorem of
invariance by `PTL`, and the properties as its consequences.

**Striping** (`StripingProofs`), for codigotes of every length. `SplitJoins`
says the three cuts cover the codigote in order; `PaddedFacts` that only the bit
after the end is added; `ParityOfThree` that of four bits with even sum each is
the parity of the others; from them `RecoverExact` (a fragment recovered from
the three others is the stored file, size line included) and `MergeStored`.
`StripeInv` is inductive: the files that exist are the stored ones and at most
one is missing. `StripeFilesExact` and `StripeReadsBack` follow.

**File names** (`TextProofs`), for any words, which of them end with which,
and any images and calls. Every file belongs to an image that was called for.
What is registered was written so, or is what `fileFetcher` reads out of the name
of a file that is there; for a name with a single word that is the same
(`FetchedSingle`), and with two words the Info file, which always is on the first
disk, is one the constructor cannot read (`ThrowsOnlyThen`). The parts of an image
that could be read stay on the disks and, while the program is up, registered.
`NamesInv` is the conjunction. From it: `NamesReadAsWritten`, `NamesThrows`,
`NamesKept` (`RestartKeeps`) and `NamesReadParts` (`ReadsItsParts`). The last one
showed what a harmless name needs: a name with which a word of the program ends
(`t`, as in `Part`) is found in the file of every image.

**The controller under any failures** (`RaidProofs`), for any number of names,
payloads and faults and every setting of the switches.

* `RaidTypes`: type correctness. Frames of the stack are records of different
  shapes; `FrameFields` gives their fields by function. `LeastFacts` and
  `NumbsFacts` show that what `reconstructDisk` registers is a location, that
  is, that the search of RC 394-401 always finds a missing number.
* `RaidSpread`: `Spread` is not inductive. `SpreadInv` adds that the calls in
  progress only intend to write where a file belongs: the list of `diskWriter`,
  the parts and strips `repair` captured, the strip of `imageRestore`; and that
  files exist of stored names only. `Good(I, l)` says it of a location under a
  history `I`, and `GoodGrows` that history only makes locations good. The heart
  is `MissingFragment`: with the column of disk d empty and the others spread,
  three fragments of an image are on three different disks, so the number that
  is missing is the one that belongs on d; `RebuiltGood` follows.
* `RaidRecovery`: of four marks with even sum, three right ones give the fourth;
  that the three `repair` takes are three different ones is `Spread`.

**The controller under cold failures** (`RaidProofs`). `Cold` is the setting
of the run `raid_cold`: disks are lost one at a time and while the process is
stopped, which it is between calls; a tree file is what was written; no name is
stored twice or is part of another. Without any of these the run that drops it
has a counterexample (sections 3 and 2), so they are the program's conditions,
not the proof's. The invariant `ColdInv` is a disjunction of phases. `Down` and
`Booting`: one disk may be lost and the others have all their files. `Ready`: a
call of the caller finds all disks whole. `Writing`: everything stored is whole,
and each file of the new image is right or still in the list. `Repairs`: the
other disks are whole, the names behind the loop are right on this one too, and
of the name the loop is at so are the parts it has passed (`PassInv`,
`StripsDone`). A lemma for each action says which phase leads to which. The
points that are not plain: all directories exist once the rebuild has begun, so
a nested verification does nothing; the strip at the index of a part is of the
same name; and what `XORrecovery` and `merge` find of
an image are its fragments and nothing else (`RecoveryWorks`, `MergeRight`). From it: `ColdRecovers` (`Recoverable`), `ColdReads`
(`ReadsStored`), `ColdCallsReturn` (no call is cut short: none
is left by an exception, from however deep in a repair, no read is answered with
an error, and the process does not end in one),
`ColdMessages` (the messages of section 3, wrong in other runs, are right) and
`ColdStore`: the initial state is one of `ImageStore`, and every step is a step
of the store or leaves it as it is.

**What a boot survives** (`RaidProofs`). `RaidBoots` is `BootGivesUpRightly`,
assuming only that no disk vanishes in the middle of a call (`Failures # "any"`).
Crashes in any call, spoiled trees, names stored again, names that are found in
one another's files and losses between calls are all allowed in the lives before;
what the boot finds is in order, and that is all the theorem supposes. With
losses at any moment TLC has no counterexample on two names and one fault, but
there is no proof. Types, `SpreadInv` and `PayloadInv` hold of every run;
`BootInv` adds, about the boot in progress alone: the columns hold what is on the
disks; of the names the repair has yet to reach the disk under repair has nothing
but what its loop has written (`Unwritten`), so it is this disk that misses a
file, the three others are whole (`OthersWhole`, `MissesOne`, `OthersKnown`), and
`merge` and `XORrecovery` find three right fragments (`MergeOrderly`,
`RecoveryWorks`); and each part has its strip beside it in the column and in
what the loop has left (`Paired`, `PairedPass`), so the two lists end together
and no iterator runs past an end. That an orderly RAID has no name inside
another's text is used in `MergeOrderly`: otherwise `merge` takes a fragment of
the other image. TLC checked `BootInv` on the instance of `raid_restart`, and
the search for this proof showed that `Orderly` has to speak of the trees too,
because `merge` looks for the text of the name in the names of all tree files.

**The compressor and the trip** (`ImageTripProofs`), for every picture. `HuffInv`
has a part for each loop of the program. While `compress` builds, the list is a
`Forest`: whole trees, every byte met so far under exactly one. `sort` loses no
node although it takes every inner node for the head, their pointers to a byte
being null alike: the statement that cuts the list, `setHead(temp->getNext())`,
runs only with `temp` before a node that belongs in front of it. Away from the
head that is no smaller number, because the pass before has compared the two, and
no tie of a leaf with an inner node, because a leaf that is taken for the head is
the head (`SameDigit`, `SortHead`). In a whole tree no leaf lies above another, so the
paths are a prefix code (`TripCodesPrefixFree`), a line of the tree file puts
its leaf where it was, and bits lead from byte to byte: `EncodedBy` and
`DecodedTo` relate a number of bytes with a number of bits. Together they are
`CompressorIsLossless`. For the trip, `FilesInv` says that the files are cut from
the codigote and one at most is missing; `MergeStored` and `RecoverExact` of
`StripingProofs`, which is instantiated, give that `merge` reads what was
encoded. `TripIsLossless` is `EndToEnd`.

**The mail queue** (`MailQueueProofs`), for any producers and messages, with
eventfd and without. The entries are a chain in the order of the exchanges
(`Entry`); each link is there, or the producer that took the head after it is
about to make it (`LinkInv`, `PushInv`); the tail is the last entry popped, and
what is freed lies before it (`TailInv`). `FirstInFirstOut`, `NothingDangles` and
`NothingHidden` follow.

**The bounded queue** (`BoundedQueueProofs`), for any threads and calls and every
size from two (`LegalSize`, from `static_assert`, without the power of two; with
one cell the algorithm is wrong). A cell is in the turn of one ticket, its round;
its sequence number says whether the writer or the reader of that ticket is to
come; who has a ticket finds the number of his turn unchanged until he writes it.
`Rounds` and `NextRound` are the arithmetic of the ring. `NoRace`,
`EachHandedOnce`, `NoFalseRefusal` follow.

**Promises** (`PromiseProofs`), for any threads, cores, promises and continuations
used by the rules of the run (`LegalRules`: a promise is settled by one thread,
what `then` returned is attached to while nobody settles anything, and a callback
that returns a promise throws an exception on; sections 2 and 3 say what happens
without them). The invariant is in parts, by what the calls on the stacks of the
threads are about to do. A request is in one place: on its way to one list, or in
one list once (`ListInv`, `FlyingInv`, `ApartInv`). Two may call it, who attaches
it to a promise that is settled, and the loop over the list it is in; that loop is
the only one over the list, has called all that is behind it and nothing that is
ahead (`CallInv`, `OneLoopInv`, `AheadInv`, `BehindInv`). Both see the promise
under its mutex, or a promise `then` returned that nobody settles (`OwnerInv`,
`QuietInv`). So what is in the list of a settled promise has been called the way
it was settled unless the loop is still there (`ToldInv`); a count that refuses
the second call is set only by the call that ran (`CountInv`), and no call is
refused. A chainer settles a promise made for it that no other chainer settles
(`ChainerInv`), and there always is room for the promises that callbacks are going
to return (`RoomInv`), which is what makes the bound on cores harmless.
`PromisesKept` is `TypeOK`, `RunOnce`, `NoneLost`, `Follows` and `NoErrors`.

**`whenAll` and `whenAny`** (`PistacheProofs`), for any number of inputs. Who has
run is told by what is settled, attached and no longer waiting; the counters of
the policies count exactly those, so all values are there just when the last has
run (`WhenInv`). `WhenGives` follows: the outcome is right, and only an exception
that comes late ends in an Error.

**Their sum** (`PistacheProofs`). `MCPistache` runs the queues, the promises and
`when` side by side, a step of one leaving the variables of the others alone.
Its instances and those of the proof modules are the same actions (`SameMail`,
`SameBounded`, `SameRules`), so each step of the sum is a step of one
of them or changes none of its variables, and the invariants carry over. The one
of the mail queue does not say whether there is an eventfd, so it holds of the
behaviours with one and of those without. `MailDelivered` (`InOrder`,
`NoUseAfterFree`, `Hidden`), `QueueHands` (`Handed`), `QueueRefuses`
(`RefusedRightly`), `PromisesTold` (`Told`), `WhenGives` (`RightOutcome`) and
`AllTypes` (`Types`) are the safety properties of the run, for all sizes with
`SizesAssumption` and `PromisesAssumption`, which TLC evaluates for those of the
run.

**The calendar** (`PistacheProofs`, its last section), where `CalendarRight` looks
at some thousands of days. Days are counted in eras of 400 years that begin in
March. A day of an era says its year because the three corrections of
`YearOfEra` take away as many days as the years before it have beyond 365, one
short on the last day of a long year, which rounds the same (`EraYear`,
`EraDay`); a day of a year says its month because months from March on have 153
days in five (`DayInYear`, `DateInYear`). `DateAgain` and `DayAgain`: between
the valid dates from -32767-01-01 to 32767-12-31, all that a `short` has room for,
and 23936166 successive numbers the two functions are each other's inverse;
`DatesInOrder`: they keep the order. `WeekdaysInTurn`, `MonthsBack` and
`NthWeekdayAgain` are what the arithmetic of weekdays, months and n-th weekdays
promises. The model's integers do not overflow; the code's hold every number these
theorems are about.

**The lexer** (`TextProofs`, its second half), for a text of any bytes and any
length. `LexerSpec` lets `scan` be called whenever the last call has returned;
the parser does nothing else to the variables of the lexer, so what holds here
holds below `JsonParser`, whose own module reaches RECURSIVE operators through
`JsonValue`.

* `LexerPositions` (`Positions`). Of what is read a step takes a byte, puts one
  back, leaves all as it is or begins the token anew (`FourSteps`). `ReadInv`
  adds to the property that a byte is put back only where none is and where the
  token holds it, which is why `unget` may shorten the token and count backwards;
  that at the end of the text nothing is left to take; and where the line of the
  current byte begins, so that a newline that comes back brings the column it
  had. The column of a newline that was put back is 0 in the code and no column
  of the text: the property leaves it out, and the next `get` sets it right.
* `LexerStrings`: every string token, value or member name, is well-formed UTF-8.
  "Well-formed" is the least set of texts that holds the empty one and with a
  text every one that goes on with `Utf8` of a code point that is no half of a
  pair. Characters come in two ways: as bytes, which `next_byte_in_range`
  compares with the ranges of `Following` one by one, and as escapes, computed
  from hex digits. `TwoBytes`, `ThreeBytes`, `FourBytes` show that the ranges
  leave only bytes of characters (no overlong form, no half, nothing beyond
  U+10FFFF), `Paired` that two halves make a character. `StringInv` says of the
  middle of a character that, whatever fitting bytes follow, the buffer will be
  right, and of an escape that its number stays below 65536. The assertions of
  the code on code points (lexer.hpp 176, 358) follow. TLC does not run this
  one; the runs compare single texts with `JsonGrammar`.

Only model-checked so far: `RebuildGivesUpRightly` (disks are lost at any
moment and repairs nest: there is no proof yet), `Optimal`, the JSON properties but those of the lexer,
and of dates the texts and the sums of their parts (`DateTrip`, the rest of
`CalendarRight`). Out of the prover's reach and left to TLC: the
liveness properties (`BootHeals`, `CallsEnd`, `Ends`, `ReceivedWhenAsked`,
`CallsReturn`, `Answers`, and the liveness part of `ImplementsStore`), ENABLED,
induction over recursive definitions (that the parser and `JsonGrammar` agree on
texts of every length, that no other code is shorter), and whatever stands in
the modules that use RECURSIVE operators: the JSON modules with their runs, the
formats of dates and `MCPicture`.

## 5. Plan

Done: striping and its proofs; the controller, its runs and its safety proved,
the refinement included; the compressor and its composition with the stripe,
with proofs; file names, with proofs; queues, promises and `when` of Pistache, with proofs;
the JSON library, with proofs about the lexer; dates, with proofs about the
calendar.

Next: two verifications at the same time (`diskVerifierT`), which needs the
columns as shared memory.

## 6. Not modelled

* In the program: the layout of files and the wording of messages, the JPEG
  contents and OpenCV's crops (a strip is a mark), memory that is never freed,
  directory streams that are never closed, `Matrix` (unused), `compose`,
  `diskVerifierT`, `Compressor::getImage`, `alterdecode` and the unused
  operations of `List` (never called). Of the HTTP handler, `/INSERT`, `/UPDATE`
  and the default page keep no state: each parses a body, which the JSON modules
  cover, and sends an answer.
* Of Pistache: what is declared in the headers and compiled elsewhere (listener,
  transport, reactor, HTTP parser). The model uses of it that an exception of a
  handler becomes an error answer, that one worker runs the handler, and that
  the consumer of a mail queue pops until nothing comes. Of the headers whose
  code is here: `Barrier`, `Any` as a type-erased value, `whenAll` of an empty
  range, which never settles (`async.h` 1406), continuations that use their own
  promise, and so wait for its mutex for ever (1054), moving an `MPMCQueue`,
  wrapping of its indices, loads that see old values; of `date.h` names
  from locales, wide characters and the unit names of durations.
* Of the JSON library: the digits of floats (`to_chars.hpp`) and half and single
  floats of the binary formats, whose correctness is one of real numbers; wide
  strings and other input adapters, iterators, conversions to and from C++ types,
  comparison of order, user-defined literals. Lengths above 65535 in binary
  documents count as longer than the document; that is not so of one CBOR length,
  2^64-1, which equals the `size_t(-1)` that stands for an indefinite one
  (`binary_reader.hpp` 794, 831) and is read as such. Errors of the callback parser are
  those of the other modes and are not given texts of their own.
