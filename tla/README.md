# Young.Geo.S: models, checks and proofs

Young.Geo.S is the server of the card game *Landlord* (three players): worker
threads on libevent talk to the lobby clients, one thread on epoll talks to the
clients that play.  This directory holds TLA+ modules that follow its code, TLC
configurations that check them on small instances, and proofs, checked by
TLAPS, of what matters most for instances of every size.

Line numbers below are those of the files under `src/`.

## 1. The system

| part | state it keeps | operations | who it talks to |
|---|---|---|---|
| master thread (`Server/YS.cpp`) | `last_thread`, the listening socket | `master_libevent_work` on every new connection | workers: `conn_queue` and a byte `'C'` in the worker's pipe |
| worker threads (`Server/YS.cpp`) | `conn_queue` and its mutex, `conn_num`, libevent's buffers | `thread_libevent_process` on a byte from the pipe, `read_cb` on input | master (above), `do_work` |
| framing (`Server/Ypkt.cpp`) | none; the stream it reads is cut and joined by the kernel | `pkt_match_head`, `pkt_parse_data`, `pkt_make_client`, check sums | `read_cb`, `recvdata`, `senddata` |
| requests (`Server/Yprocess.cpp`) | `arr_users` (a list per worker), `readys`, `ready_num`, `mutex_ready` | LOGIN `login`, REGISTER `rigister`, MATCH `ready_start` | database; game thread, through `readys` |
| matchmaking (`Game/YGame_Server.cpp`) | `games`, `wait_senddata_user` | `parse_readys`, `get_user`, `send_waitdata` | `readys`; `Game`; event loop |
| game (`Game/YGame.cpp`, `YCard.cpp`, `YUser.cpp`) | the deck, the three seats, each `User`'s cards to be sent | constructor, `display`: shuffle, `deal`, `data2user` | matchmaking |
| event loop (`Game/YGame_Server.cpp`) | `g_events`, epoll's registrations, `checkpos`, the fds | `acceptconn`, `recvdata`, `senddata`, `work`, the 60 s sweep | kernel; matchmaking, through `user->_ev` |
| containers (`afx/`) | `xlist`, `xchain` (used by the server); `xbigheap`, `xtreap`, `xarray` (not used by it) | add, remove, search, order ... | everything |
| stream sockets (`afx/xsocket.cpp`) | none of their own: the kernel's | connect, accept, `xsk_send`, `xsk_recv`, `xsk_forward` | programs beside the server |
| utilities (`afx/`) | datagrams, serial lines, daemon, log, time, md5, process title, directories | | the server uses the log and the string macros only |
| database (`DataBase/`) | one MySQL connection and one statement per worker | open, prepare, bind, execute, fetch; transactions, batches | `login`, `rigister` |

`main` starts four workers, the game thread and the master thread, in this
order, and leaves.  The threads share `global_t`.  What is hard about the code
is listed, line by line, under `hazards` in `PROJECT.json`; in short:

* three kinds of threads share lists, and only some accesses are locked:
  `readys` is appended to under `mutex_ready`, read without it, and shortened
  under it again, by names read before;
* a connection passes from the master to a worker in two parts, a queue entry
  and a byte, that must stay in step;
* a user is served over two connections, and the game's cards wait in a list
  until the second one arrives;
* the event loop reuses slots and file descriptors while users and epoll still
  point at them, and closes what it thinks is idle;
* the containers keep invariants (a circular `prev`, a spare last node, a count
  beside the granules, sizes in a tree that is rotated) that every operation must
  restore;
* a frame, or a message, may come in parts or together with the next;
* the database's connection, or only its answer, may be lost at any call, while
  the worker's handle still says that it is open.

What makes each part correct: a connection is handed to one worker, once, in
turn (dispatch); requests are served in order, none lost or doubled, no null
node read (matchmaking); every card is dealt once and every user gets the cards
it was dealt (game); a slot, its epoll registration and its fd agree, idle
clients go and active ones stay (event loop); every list operation does to the
list what it would do to a sequence (containers); a request whose frame comes whole is
answered, and one whose end is missing is not completed from the next (framing); what is reported as stored
is stored (database); messages come out whole and in order (sockets).

## 2. The modules

| module | what it is |
|---|---|
| `Matchmaking` | what matchmaking promises: one FIFO queue from which tables of three are taken |
| `Match` | the code of matchmaking: LOGIN and MATCH in the workers, `parse_readys`, FIRST and `send_waitdata` in the game thread |
| `MatchProperties` | its properties and its inductive invariant |
| `MCMatch` | its instances: which `User` object has which name |
| `MatchProofs` | its theorems |
| `Dispatch` | the code of the hand-over of connections: `master_libevent_work`, `cq_push`, `cq_pop`, `thread_libevent_process` |
| `DispatchProperties`, `MCDispatch`, `DispatchProofs` | likewise |
| `Deal` | the code of a game's cards: `create_card`, `display`, `deal`, `data2user`, `set_carddata` |
| `DealProperties`, `MCDeal`, `DealProofs` | likewise |
| `EventLoop` | the code of the game thread's loop: `acceptconn`, `recvdata`, `work`, `senddata`, `send_waitdata`, `EVMOD`, the sweep |
| `EventLoopProperties`, `MCEventLoop`, `EventLoopProofs` | likewise |
| `Lists` | what the list of `afx/xlist.cpp` promises: sequences, and the items taken out of them |
| `XList` | the code of the list: its calls on nodes and links |
| `XListProperties` | its properties, its invariant, its refinement of `Lists` |
| `XListMore` | the calls that loop over the links (copy, sort, reverse, `xlist_popv_notzero`), beside those of `XList` (`SpecMore`) |
| `MCXList`, `XListProofs` | their instance, and the theorems about them |
| `Framing` | frames, `read_cb`, `do_work`, `User::todata` for one client of a worker |
| `Cursor` | a worker's database session: `COCIDatabase`, `COCICursor`, `login`, `rigister` |
| `XChain`, `XBigHeap`, `XTreap`, `XArray` | the other containers of `afx/`, each against what it stands for |
| `Socket` | the stream sockets, their messages and the forwarder |
| `MCParts` | one instance of the seven modules above: a behaviour is one of one part, chosen by the first state |
| `FramingProofs`, `CursorProofs`, `LibraryProofs` | the theorems about `Framing`, about `Cursor`, and about `Socket`, `XChain`, `XArray` and `XBigHeap` |

Each of the first components has a module with its state and its actions, one of
properties, one of instances, and one of proofs; the seven modules of `MCParts`
end with their properties.  The operators named `Fault...` describe
slips that the code does not make.  No specification uses them; putting one in
the place of the action after it must break the property it is meant for.

### Match

One action is one access to shared state, so that every interleaving of the
threads that the hardware can produce at that grain is a behaviour.

| code | actions |
|---|---|
| `login`, Yprocess.cpp:10 | `login`: one step, since a reader of the list compares the hash first and it is written last |
| `ready_start`, Yprocess.cpp:109 | `ready_start` (search of the user) or `SearchNoList`, `LockReady`, `LinkNode`, `InitNode`, `CountReady`, `UnlockReady`: `xlist_cat` links a node and then fills it, and a reader without the lock can see the difference |
| `parse_readys`, YGame_Server.cpp:304 | `ParseCheck`, `ParseRead` (once per seat, no lock), `ParseLock`, `ParseKill` (once per seat), `ParseUnlock`, `MakeGame` or `DealTwice` |
| `work`, case FIRST, and `get_user`, YGame_Server.cpp:356 | `FirstGames` (walk of the games), `WalkReadys` (one node of `readys` a step, no lock) |
| `send_waitdata`, YGame_Server.cpp:521 | `send_waitdata`: data of this thread only, so one step |

`readys` is the sequence of its nodes' values; a node that is linked and not
filled is `NULL`.  A key of the list is the name of the node's user.  The cards
are abstracted to the number of the game they were dealt in.  A process that
dies is a state with `halt # "no"`, in which nothing happens any more.
The byte of a MATCH request that says which worker's list has the user is not
compared with the number of workers (Yprocess.cpp:126): `Stray` are the values beyond.
What lies there may be taken for a list and lead to any user of the name (`Found`), or
end the process (`SearchNoList`).
`get_user_by_name` (YGame.cpp:281) ends without a `return` when nobody in the
game has the name.  What its caller reads then is undefined: `GamesLookup`
offers `NULL` and a value that is no pointer to a `User` (`Wild`).

### Dispatch

`queue[w]` is the list of worker `w`'s `conn_queue`, `mutex[w]` its mutex,
`pipe[w]` the number of unread bytes in its pipe.  The master's program counter
`mpc` walks through `master_libevent_work` and `cq_push`, each worker's `wpc`
through `thread_libevent_process` and `cq_pop`.  `cq_pop` that finds nothing
returns -1 *without unlocking*: the step from `"pop"` goes to `"adopt"`, past
`"unlock"`, and the mutex stays with the worker.  `AsChar` is the assignment of
the popped descriptor to `char cfd`.  Two failures are actions: the allocation
in `cq_push` (its caller cannot see it and writes the byte), and the write of
the byte (the descriptor is closed and stays queued).  `assigned` is a history of
the connections each worker was given, `failed` of those among them whose byte was not
written: the only ones that may share a descriptor's number with another
(`NoTwoOwners`).  Workers close nothing, because the event callback is not registered
(YS.cpp:282).

### Deal

`cards` is the deque as a function from positions, `owner` the field `_user` of
each card.  One action deals one card (`DealCard`), or looks at one card in
`data2user` (`DataCard`); `i` counts both loops.  `Orders` are the orders that
`std::random_shuffle` may leave, `NumSuits` and `NumRanks` the sizes of the two
enumerations.  `Compared` says with which seat's user `data2user` compares when
it fills each of its three arrays: the third comparison names the second user
again (YGame.cpp:268).  An array takes `UDATA` bytes; a byte more, or a `_user`
that was never set, leaves the defined program and ends the model
(`pc` in `"overflow"`, `"unset"`).  The properties speak of three different
users (`Distinct`), because `Match` shows that one user may have two seats.

### EventLoop

`g_events` is the array of slots, `file` what each descriptor number is open on,
`epoll` the registration of each.  One action is one call: a handler, one slot
of the sweep, `epoll_wait`, `send_waitdata`; the loop's data belongs to its
thread, and clients (`Connect`, `Send`, `Leave`) and time (`Tick`) move between
any two calls.  `Rewatched` and `Moved` are the macro `EVMOD`: delete if the
slot believes it is registered, then add; the kernel's answer to the addition
is ignored by the code.  `epoll_wait` reports input as soon as there is some, but
room for output only where the client has read: it may leave out any slot that waits
for room.  `close` is close(2): the registration goes with the
descriptor, and the number may be returned by the next `accept`.  The slot
keeps its number, because no handler gives a slot back.  What the sweep writes
to is `ev`, the slot of the last event (YGame_Server.cpp:627), which is `NULL` before the
first.  `senddata` decides by an uninitialised sum (line 221) whether it closes
a connection that is well: a choice.  A chunk that does not parse is skipped, or
ends the process at one of the assertions of `pkt_parse_data` (`pc = "halt"`).
A chunk is one frame; what `Match` says of `get_user` and of tables is a choice
here.

### XList

A node is an address (`Node`), its fields are `next`, `prev` and `data` (key,
type and value, which `xlist_exchange` moves together).  One action is one call.  `alive` is what is allocated, `loose` what
`xlist_break` and its relatives have handed to a caller, who frees it with
`clean_taken`.  `mine` are the strings that no list holds: `Given` says that a
caller hands over its own strings only, and a string that is freed is in `mine`
again.  `chain` is a history variable: the nodes of each list in order.  It
also stands for the callers' indices: `xlist_index(h, k)` is `chain[h][k]`.
`xlist_combin` leaves its second argument to the caller although it has freed
the node; here the handle forgets it.  A call that its early return leaves
without effect (an empty list, a key that is not there) is no step.

`XListMore` runs the loops on a record of the fields of all nodes (`HeapOf`) and
of the loop's variables, one round after the other.  A loop is a function of its rounds
(`Swapped`, `Inserted`, `Drained`), at most `max` of them, which is the length
of the list; a loop that has come to its end stays there.  `beg` and `end` are the two extra nodes of
`xlist_orders`, which are freed when it returns.  `CopyItem` is what `xlist_dup` makes of
an item: a string is a new one, everything else is the same.  Keys are numbers, in the order
of `xstrcmp`, in which no key at all is the least one.

### Framing

The client's stream is `wire`; `read_cb(n, good, row)` takes the first `n` bytes
of it, whatever frames they cut, as `evbuffer_remove` does.  `Parse` follows the
code from `pkt_match_head` to `xchain_add`: the first start tag, the assertion on
the type, the sum over the length that the frame claims.  Bytes behind the chunk
are zero as far as `xmalloc` clears and pads (`Pad`); a length beyond that makes
the sum read anything.  Then the chunk is refused, or the sum fits by chance and what the
memory holds is handled (`Unknown`; `Beyond` is what may be there), or the read leaves
the process's memory (`halt = "wild"`).  A byte is a number below `ByteMod`, and `ExOr` is a constant, so
that the proofs need not know what a check sum is.  `requests` and `took` are
histories: where in the stream a request's frame begins, and a chunk began and ended,
where its first start tag was and what was done.  `do_work` writes the type,
the worker's number and, after a login, `todata`'s 25 bytes.  `NewUser` is the
constructor, which returns early for a low id and leaves what the memory held
(YUser.cpp:39); the result is listed and written all the same.

### Cursor

`db` is `m_IsOpen` together with what MySQL keeps of the session, `cur` the
statement and its bound variables, `job` what the caller is at: `login` and
`rigister` go call by call, so that the connection may be lost
(`LoseConnection`) and other sessions may write (`Elsewhere`) between any two.
Each call chooses whether MySQL did the statement and whether the answer came:
an answered statement was done, and one done without an answer costs the
connection.  `BeginTrans` turns autocommit off and nothing turns it on again.
`ExecuteBatch` stores rows up to the first that fails, which may itself be stored and only
its answer lost, moves the bound pointers and leaves them moved, and gives MySQL a length whose block has ended
(`Garbled`).  `told`, `durable` are histories.

### XChain, XBigHeap, XTreap, XArray

One action is one call of the library.  `XChain` keeps granules as the bytes
between `bufpos` and `buflen`; `queue` is what a reader is to find.
`xchain_pre_add` of more than a granule of new bytes reverses the granules
(xchain.cpp:131): there `queue` takes over what the chain has.  `XBigHeap` is
the array of references and each node's weight and position; a loop is a function of
its rounds (`Turns`), at most as many as there are places; `xbigheap_sink` looks
at the children only if there are two (xbigheap.cpp:87), so the heap's order
itself does not hold, and the property says which nodes may be out of order
after which step.  `XTreap` is the tree as nested records, with the random `fix` of
a new node as a choice.  `XArray` is the two-dimensional array with its four
quadrants; `CountMod` stands for the 65536 of `unsigned short array_count`, and
an index beyond it stops the model (`stuck`), as the loop at xarray.cpp:56 never
ends.

### Socket

`up` and `down` are the kernel's buffers before and behind the forwarder; each
send and recv moves any part the kernel may choose.  A call that a signal
interrupted is repeated with the length -1 (xsocket.cpp:316, :378), which takes
all there is (`wild`).  Such a stream, and one from which `xsk_forward` has lost
what a send did not take (:578), is `spoilt` or overrun, and the property
speaks of the others.

## 3. The runs

| run | question | bounds |
|---|---|---|
| `match_core` | are the unlocked reads safe, do removals by name take what was read, does `Match` implement `Matchmaking`, is a hand of cards lost | 2 workers, 3 `User` objects, two of them of one name, 2 requests each, 1 FIRST message |
| `match_live` | may a FIRST message come at any moment without a user wrongly denied; does a table get made for three that wait; do seated users that have arrived get their cards | 2 workers, 3 `User` objects, two of them of one name, 1 request each, 1 index that is no worker's, 2 FIRST messages, fair |
| `dispatch` | is each connection handed to one worker, once, in turn and in order, and no mutex kept; does every accepted connection get its bufferevent | 2 workers, 4 connections, 3 descriptors, 1 write and 1 allocation fail, fair |
| `deal` | does each seat get its share and the deck stay whole; are the bytes sent to the clients those of their cards, in order; does an array overflow | 54 cards, 3 orders, every seating of 3 users, 2 games |
| `eventloop` | do slots, registrations, descriptors and waiting events agree after every handler; are replies waited for; do cards go where their user was named | 2 clients, 2 descriptors, 2 slots, 2 users, 1 chunk each, 1 table of 2, 3 seconds with a timeout of 2 |
| `eventloop_live` | is every watched client that reads read from and answered, and every silent slot swept | the same with 1 descriptor, 1 second and a timeout of 1, fair |
| `xlist` | do links, nodes and strings stay right under every sequence of calls; does each call, copying, sorting and reversing included, do to the list what its name says of a sequence | 2 lists, 5 nodes, 2 keys, 1 pointer and 2 strings as values |
| `parts` | is a frame that is cut refused, and never completed from the next; are whole frames answered; does the database tell the truth; are the chain, heap, treap and arrays what they stand for; are messages whole | 2 requests of 3 kinds in 3 chunks; 2 rows in the table, a batch of 2; chains of 5 bytes in granules of 2; 5 nodes of 3 weights, 4 values of 3 keys; 3 sets at 3 by 5 indices in cells of 2; 2 messages, kernel buffers of 3 bytes |
| `v_assert_value` | the assertion at YGame_Server.cpp:384: violated, the walk meets an unfilled node | |
| `v_conn_dropped` | "add to base" (YS.cpp:278): violated, descriptors 128 to 255 are dropped | |
| `v_sweep_active` | "not communicated for 60 seconds" closes a client (YGame_Server.cpp:607): violated, a client that has just come is closed through the slot of an earlier one | as `eventloop` |
| `v_third_hand` | "send the data of the cards to the client" (YGame.h:36): violated, the third user is sent the second's cards | |

Why the bounds are enough.  A table takes three users, so three objects with
two requests each fill one table and start another while the first is being
removed.  Two workers contend with each other and with the game thread for the
mutex.  Two objects of one name are what makes a removal by name doubtful.
The two workers of `Dispatch` get two connections each; with three descriptors the
fourth connection gets a number that a failed write has freed, so that numbers
return.  `CharMod` stands for 256 and is 8, so that three descriptors are below
its half (`Small`); in `v_conn_dropped` it is 4, and two are not.
The deck of `deal` has three orders, as made, its reverse and one with a stride,
and a second game that finds the first's bytes in `card_data`; the proofs cover
the other orders.  `v_third_hand` has every order of a deck of six cards.  Users are interchangeable there (`SYMMETRY`), since nothing
orders them; so are clients, users and descriptors in `eventloop`.  Two
clients and two descriptors are enough for a number to be used again while the
slot of its first owner still has it, which is what the hazards of the loop are
about; one slot is swept a round (`SweepLen`), so that the sweep is a round
behind.  The proofs cover more slots, clients and descriptors.

Five nodes are a list of four items and its spare node, which can be sorted with
every distance between the node of the handle and the one that sorts first,
and reversed with an even and an odd length; or a list of one item and its copy, each
with its spare node; or two lists of one and two items
to be joined.  Nodes, handles and strings are interchangeable (`SYMMETRY`).

In `parts` the three requests are one of each kind, among them bytes equal to the
start tag in a payload and an ending whose sum is zero.  A chunk that begins
behind the first frame's start tag and holds the head of the second may be handled as a
frame made of both: the runs have it, and the properties speak of the frames that are
found first in a chunk.  More chunks would
only repeat cuts.  Chains of five bytes have three granules, and
additions of one, two and three bytes fill, exactly fill and overflow one.
Five nodes in a heap are a root with two children of which one has two, the shape in
which an only child is passed over.  Four values under three keys give equal
keys on both sides of a rotation.  The array's indices lie on both sides of zero,
at a cell's end, in the next cell, and beyond the count.  A message of three bytes
does not fit into what is left of the kernel's buffer, and has a byte that could
be taken for a head.

Deadlock is checked in the runs of `Match`, `EventLoop` and `XList`.  In those of `Dispatch` it is not:
clients may stop coming (`MaxAccept`), and an allocation that fails does jam
the worker and then the master, which `LockInv` describes and `NoLeakedMutex`
excludes as long as none fails.  Nor in those of `Deal`, which stop when
`MaxGames` games are dealt, nor in `parts`, where a process may end and bounds are reached.

Fairness.  Every thread is scheduled: weak fairness of a worker's steps inside a
request, of the game thread's loop and of the master once it has accepted.
None of it makes a client send or connect anything, and none of a thread is strong:
`pthread_mutex_lock` is not fair.  The game thread still gets `mutex_ready` in
`match_live` because requests are bounded there; a client that asks for a
match infinitely often is not modelled.  `EventLoop`'s thread is fair as a whole (`WF_vars(Loop)`): `epoll_wait` returns after a
second even if nothing happens.  That a reply is sent in the end needs a client that reads:
a slot that can be reported again and again as having room is reported some time
(`SF_vars(epoll_wait /\ RoomFor(s))`); nothing in the code can make it so, and the safety
properties are checked without it.  In `dispatch` the two threads at
a queue cannot keep each other out for ever, since each has to do the other's
work's complement (push, pop) before it locks again.

## 4. The proofs

Eight modules hold theorems: one beside each of `Match`, `Dispatch`, `Deal`,
`EventLoop`, `XList`, `Framing` and `Cursor`, and `LibraryProofs` for `Socket`, `XChain`,
`XArray` and `XBigHeap`.  They prove, for every number of threads, users, descriptors, connections,
cards, nodes, bytes and cells, the invariants and action properties that the runs check,
but for those named at the end of this section, and a few that follow from them
(`TypeOK`, `CountMatchesList`, `OneDeck`, `NoByteTwice`, `AllWatched`, `LengthComesBack`);
that `Match` implements `Matchmaking`, and `XList` `Lists`.  They rest on the named
assumptions of the modules and on nothing else: threads, users and the special values
differ, descriptors are positive numbers, bounds are numbers, orders are permutations of
a deck that three seats can share; an item of a list is not the null node, keys are
numbers, and the nodes that sorting allocates are new ones; a batch is an
array of rows; granules, heads, buffers and cells have a size, messages fit the lengths that a
head can say; data that is added to a chain is bytes, at least one; a request is one of
the three kinds and fits a frame, and a user's numbers have the widths of the code
(`FrameAssumption`); indices are integers, and the null pointer is no array
(`IndexAssumption`); the weights of a heap are integers, and there is one.  For every one of them TLC evaluates the instances of the runs.

Where an invariant is not inductive, the one that is is named below; each was first
checked by TLC.

**Match.**  That the unlocked reads find filled nodes (`ReadsAreFilled`) does
not follow from itself.  The invariant `IInv` adds: who is inside the critical
section is who holds the mutex (`MutexInv`); `ready_num` is the length of the
list less the node being added (`CountMatchesList`); only the last node can be
unfilled, and then the mutex is held (`NodeInv`).  So `ready_num >= 3` promises
three filled nodes, and stays true because only the game thread lowers it
(`PickInv`).  What was read is still the front when it is removed (`FrontInv`),
because workers only append; hence the removal by name finds the first node of
that name, which is the node that was read.  `WalkInv` says of the walk
in `get_user` that all it has passed had other names.  Each action has its step
of the proof, with one step per conjunct it can disturb.  The refinement follows
from the same invariant: `Waiting`, the users in `gpc = "kill"`'s hands before
the list's filled nodes, changes only at `InitNode` (Join) and `MakeGame` (Seat).
`HandsKept` is inductive given the types: `MakeGame` loads the three users' cards and
puts them on the waiting list, and `send_waitdata` takes from that list only the one it
serves.  Its third case is a loss the code does allow: a user who is seated again
before it is served has its loaded cards overwritten (`set_carddata`,
YUser.cpp:238), and never gets those of the earlier game.  `match_core`
reaches that case, since each object may ask twice.

**Dispatch.**  `NoEmptyPop` needs that bytes never outnumber entries
(`StepInv`), counting the byte a worker has read and the one the master still
has to write.  `LockInv` says who holds a mutex, the worker that will never
release it included.  `MasterInv` says that only the last node is unfilled, and
when.  `HandedInOrder` speaks of a concatenation; the invariant states it
position by position (`PlaceInv`), and a lemma on sequences puts the positions
together.  `TurnInv` says which workers have one connection more, `OnceInv` that
no descriptor is handed out twice but one whose byte was not written (`Kept`).

**Deal.**  The invariant says where the deal stands: of the first `n` cards the
`p`-th is with seat `(p - 1) % 3` and the others are unset (`TurnsTo`), which needs
`OneDeck`, for a card that were there twice would change hands; and an array has
exactly the bytes of the cards that its seat has among the first `n`, of which
there are `Share(k, n)` (`WrittenTo`).  `PlaceFacts` and `DeckFacts` show that
`create_card` makes every card once, by division with remainder, `ByteFacts`
that the packing into a byte loses nothing as long as suits and weights fit four
bits.  `FairDeal` counts a seat's cards by a bijection with `1..UDATA`.

**EventLoop.**  `WatchedSlots` and `AllWatched` support each other: a number that
is watched is open and belongs to the slot it reports to, and, as long as
nothing has been closed, each slot in use is watched, so that `EVMOD`'s addition
finds its number open and free (`RewatchFacts`).  After a `close` the numbers of
other slots may be open for somebody else; `WatchedSlots` survives because
the registration ends with the descriptor (`CloseFacts`).  `SlotInv` says that a
slot in use stays so, `EventInv` that events which wait are of slots in
use; hence the sweep has an `ev` whenever it has something to close
(`SweepHasEvent`).  There is one lemma per action, and the handlers share
`TakingFacts` and `OneSlotFacts`.

**XList.**  `IInv` says that the `next` links from a handle and the `prev` links back
make a circle of different nodes with the blank spare node at its end, for each list,
and that what is not in a list is free or in the hands of a caller (`HeapInv`).  It is
not inductive alone: a value that a caller hands over must be a string of its own, so
`StringsOwned` is part of the invariant (`ListInv`).  The proof names what a call does to
`chain`, a sequence of nodes (insert, remove, exchange, append), and lemmas on sequences
say which neighbours change; that the links agree with the new chain is then a case
distinction on positions.  `CallsAreTheirs` and the refinement `ListsAreSequences` say the same of
what is in the nodes: each step of `XList` is the step of `Lists` of that name, or a
stutter.

All theorems are about `SpecMore`, in which the calls that loop come at any time too.
Each loop has an invariant of its own, which says what the heap is after `k` rounds, in
terms of the heap before the call: `Half` (the first `k` items and the last `k` have
changed places), `Gone` (`k` items are gone, and only the last of them may have a value),
`Sorting` (the nodes between `beg` and `end` are the first `k` of the list, in the order
of their items, linked both ways; the others still follow each other).  One lemma each
shows that a round keeps it (`RoundSwaps`, `RoundDrains`, `RoundInserts`), and `StepByStep`
takes it to all rounds, by the least number at which it would fail; that the
functions of rounds exist is `LoopRuns`, without the library's induction
theorem, which the provers cannot use.  The invariant after the last round says that the loop has ended, so that
`max` rounds are enough.  Sorting goes on after its loop: `Row` says that nodes are
linked both ways in a given order, `Joint` what one assignment pair does to that, and
`FrontedIs` puts the handle's node first, in the case that it is next to the node
that sorts first (`FrontNear`) and in the other (`FrontFar`).  `LoopsAreTheirs`
then names the rearrangement of the items, and shows that it is one-to-one.  Of
`xlist_dup` it takes that the new list's nodes are others, in the order of the old one's,
and the strings in them the caller's (`DupCopies`).
Sorting compares keys, so the invariant also says that each item of a list has one
(`Keyed`; an item that nobody has filled has none): `MoreInv` is
`ListInv` and `Keyed`.

**Cursor.**  `CallsTellTruth` says two things.  Of the storage: rows reported as stored for
good are in the table, as often (`DurableIsStored`, part of `CurInv`).  `StorageKept`
carries it through each way a call ends: rows join the table and are reported, join it
unreported because the answer was lost, or never join it; counting them in a
concatenation is `TimesConcat`.  Of the call that just ended: what it wrote is a first part
of what it was given, all of it if it says that it worked (`CallIsTrue`).  For that
`CurInv` keeps what is true while a call is under way: the step it is at, that it has a
row to look for or to write, and that, while it fetches, all that has been found so
far is that row.

**Framing.**  The chunks are cut anywhere, so what is on the wire is the end of some
frames and whole ones.  The invariant (`FrameInv`) keeps each frame to its place in the
stream: from the byte at which it was sent, as long as none of it has been taken, it is
on the wire byte by byte (`OnWire`).  `FrameParsed` says that a chunk whose first start tag
begins such bytes parses to the payload, whatever precedes them, since the sum is taken of what it was made of; it
needs no more of the sum than that it is a function of the bytes.  `AnswerTrue` goes
through the answers: `todata` writes 25 bytes, of which a client reads the numbers of
a row (`TodataFacts`, `ReadFour`).  An answer is a frame, so it is parsed likewise.

**Socket.**  Everything that `xsk_send` was given, byte by byte with the heads, is what the
receiver has read, what it has of the message it is at, what lies in the two buffers
and what the sender still has to give to the kernel (`SockInv`), whatever part each
call moves.  The bytes of a sequence of messages are a concatenation of concatenations:
the proof has its own lemmas on `FlattenSeq` (`FlatConcat`, `FlatOne`), by the least
number at which two functions differ.  That the next message out is the next one in is `NextMessage`:
heads have one length, `LengthComesBack` makes that length the message's, and so two
streams with the same bytes begin with the same message.

**XChain.**  The invariant (`ChainInv`) adds to `ChainIsQueue` that the granules are a row of
non-empty strings of at most `BUFFER_GRANULE` bytes (`Sound`), and that a chain whose
`update` is not set is empty and has no string made of it: only then does `xchain_str`
hand out the string it made before.  `xchain_add` fills the last granule and cuts the
rest, `xchain_delete` goes round its loop: `RoundKeeps` is one round, and
`RoundsFollow` takes it to all rounds by the least number that would not follow.

**XArray.**  `ArrayReads` compares what is read with the calls of `xarray2_set` so far.  The
invariant (`ArrayInv`) says of the array of rows, and of each row, that behind its size
there are only cleared cells, up to the last one made, and that the pointers have room
(`CellsSound`); that each side of zero goes as far as the farthest call (`IsFar`);
and that what is at an index is what the last call for it has set (`IsLast`), one row
for each index that has been set and none elsewhere.  `SetPointers` is one `xarrayp_set`:
quotient and remainder by the size of a cell find one place for each index
(`PlaceFacts`), new cells read as zero, and nothing else changes.  A call sets twice,
an element in its row and the row in the array (`RowSet`, `SetStep`).

**XBigHeap.**  That every node knows its place is inductive (`HeapInv`); what order there
is in the heap is not, for it is lost while a node is under way.  So the two loops have invariants
of their own: `UpOrder` allows one node, the one that swims, to be heavier than its
parent, `DownOrder` one node, the one that sinks, to be lighter than its children, and
both say that the node's children are not heavier than its parent.  One round keeps them
and goes up or down or not at all (`UpTurn`, `DownTurn`); `TurnsFollow` takes that to
all rounds, and `LoopEnds` shows that as many rounds as there are places are enough.
A loop that sinks ends in order but for the last node, which it never looks at if
it is an only child.  `FirstIsHeaviest` goes from a node to its parent, up to the first.
Each call starts one loop (`PushStep`, `UpdateStep`, `PopStep`).

What is only model-checked:
* `TablesFill`, `CardsArrive`, `EachAdopted`, `Served` and `SweepReaches`: liveness
  under fairness is out of the prover's reach;
* `TreapFinds`, whose model is recursive operators on trees of any depth;
* `CutFramesRefused`: the sum of a frame without its end and that of the end have to follow
  from each other, which takes the laws of exclusive or (in the proofs a function of two
  bytes, no more) and an induction over the fold in `pkt_build_check_sum`;
* the four violations, each of which is one behaviour.

## 5. What is not modelled, and why

* The text of messages, hashes and database queries: data that no property
  tells apart.  LOGIN's outcome is a choice in `Match` and in `Framing`; `Cursor`
  has what it depends on.
* That requests are not lost: `read_cb` drops what follows the first frame of a chunk,
  so `Framing` claims an answer only for a frame that is found first in its chunk and is
  whole.  Nor is anything claimed of a chunk whose first start tag is a byte of a payload.
* What the code does wrong and no property is about, although the models have it: the
  eighteenth byte of a user with two seats (`Deal`), the number in a slot whose client has
  left (`EventLoop`), rows that a lost connection takes back after they were reported
  (`Cursor`), bound pointers that stay moved (`Cursor`), the order of bytes in
  `xchain_pre_add` of more than a granule, an only child in the heap's last place, the loop
  without end at xarray.cpp:56, and the length -1 after a signal (`Socket`).  `hazards` says
  so at each of their lines.
* `Destory`, `pro_scrap_user`, `stop`, `Shuffle`: nothing calls them.
* In the list: lists as values of lists (`XLIST_XLIST`), and the functions that
  split and join text (`xlist_lst2str` of a list without keys writes `data[-1]`).
  `xlist_terminal` at the first or at the spare node, and
  `xlist_popv_notzero` of a list without a value, which break the list or read
  a null pointer: nothing calls them, and the model leaves them out by their
  guards.
* Datagrams, serial lines, logging, daemon, md5, process title, directories,
  text helpers: no state that other parts depend on.
* In the containers: freeing whole heaps and treaps, values other than pointers,
  printing.  In the sockets: addresses and names.  In the database: the typed
  forms of `Bind` and `Define`, texts of errors.
* `pkt_build_byte_tag`, `pkt_build_short_tag`, `addlandlord`, `add_res`: nothing
  calls them.
* In the event loop: a failing `epoll_wait`, which ends the thread, and
  descriptors that other threads open, which `EVMOD` and the sweep may hit too.
* MySQL, libevent and the kernel: external; what the code relies on is in the actions that
  call them.
* That a user may log in twice: `login` never looks for an object of the name,
  although the comment at Yprocess.cpp:239 says "must not log in repeatedly".
  `Match` has two objects of one name in `match_core` and `match_live`.  Likewise
  `ready_start` adds a user to `readys` who is there already, although YGame.h:41
  speaks of three users: one user may take two seats of a game (`DealTwice` when it
  is dealt to); `match_core` has such requests.

## 6. Plan

In this order, the behaviour that matters most first:

1. *done* `Match` with `Matchmaking`, `Dispatch`.
2. *done* `Deal`.
3. *done* `EventLoop`.
4. *done* `XList` with `Lists`.
5. *done* `Framing`, `Cursor`, `XChain`, `XBigHeap`, `XTreap`, `XArray`, `Socket`,
   checked together in one run; `Framing`, `Cursor`, `XChain`,
   `XArray`, `XBigHeap` and `Socket` proved.

Left for modelling: a composition of dispatch, login and matchmaking, a user's
messages over its two connections.  Every safety property of a run is a theorem,
but for `TreapFinds` and `CutFramesRefused` (Section 4).
