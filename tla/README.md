# Verification of the Online Boutique, base-admin and its rich text editor

The repository is a collection of Istio and Envoy course material: Markdown and
YAML, a copy of the *microservices-demo* shop (Online Boutique), the Spring Boot
application *base-admin* with the rich text editor UEditor in its static files,
and a set of proxy-wasm plugins. These parts contain programs with state of their
own, and they are what this directory is about:

    MD  src/24istio项目实战/microservices-demo/src/
    BA  src/16wasm/base-admin/src/main/java/cn/huanzi/qch/baseadmin/
    UE  src/16wasm/base-admin/src/main/resources/static/common/ueditor/
    WX  src/istio-teaching/wasm/examples/

`PROJECT.json` lists every component, run, mutant, hazard and theorem, and maps
each definition to the source lines it stands for.

## 1. Inventory

### The shop (MD)

| component | state | operations | hard behaviour | what makes it correct |
|---|---|---|---|---|
| money library (`checkoutservice/money/money.go`, same file in the frontend) | none | IsValid, Sum, Must, MultiplySlow, comparisons, Negate | carry and borrow of nanos, signs, `units = 0` | no nano is lost; results are valid amounts |
| order totals (`PlaceOrder`, `viewCartHandler`, `placeOrderHandler`) | running total | shipping plus quantity times price per line | three copies of one computation; panics of Must end the process | they agree and are exact; no panic |
| cartservice on Redis (`RedisCartStore.cs`) | one hash entry per user; connection flag | AddItem, EmptyCart, GetCart; EnsureRedisConnected and its callbacks | read, await, write back the whole cart; failures at each await; callers that stop waiting; callbacks against the lock | an atomic cart; carts of different users stay apart; every call is answered |
| cartservice in memory (`LocalCartStore.cs`) | ConcurrentDictionary of carts | the same three | the update function of AddOrUpdate may run twice and changes the shared cart in place | as above |
| checkoutservice `PlaceOrder` | one execution per order | cart, products, quote, Charge, ShipOrder, EmptyCart, confirmation | partial failure, lost answers, ignored errors, panics of other orders, other requests of the same user | effects in order; nothing lost; nothing paid twice without a cause; it ends |
| payment, shipping, email | none that lasts | Charge, GetQuote, ShipOrder, SendOrderConfirmation | executed although the caller saw an error | seen through PlaceOrder |
| frontend (`handlers.go`, `rpc.go`) | one package variable (platform) | pages, add, empty, order | | shows the total that is charged |
| productcatalogservice (`server.go`) | parsed catalog, its mutex, reload switch, products.json | ListProducts, GetProduct, SearchProducts; SIGUSR1/2 | requests decode the file into the message that others index | one version at a time; edits are picked up; exact answers; it stays up |
| currencyservice (`server.js`) | none | Convert, carry of fractions | floating point | amounts stay valid |
| recommendation, ad, loadgenerator | none | | | |

### base-admin (BA)

| component | state | operations | hard behaviour | what makes it correct |
|---|---|---|---|---|
| open API rate limiter (`limiter/RateLimiter.java`, its listener and aspect) | token count, running flag, setting | execute, star (refill task), stop; saving settings | refill outside the lock; task started asynchronously; stop noticed a second later | count in bounds; burst bounded; on means it keeps serving |
| URL authority cache (`MyFilterInvocationSecurityMetadataSource`, its listener, `SysAuthorityServiceImpl`) | map of pattern to authorities, answer kept per URL | look up, rebuild on authority changes | cleared before the table is rebuilt, published before the transaction ends | between saves, memory and answers are those of the database |
| sessions and login | Spring Security's session registry | login, logout, forced logout | | |
| log and monitor sockets (`LoggingWSServer`, `MonitorWSServer`, `AsyncConfig`) | line offset per session, one task per connection, the executor | onOpen, onClose, the polling tasks | endless tasks in the 20 threads that the refill task shares; offsets of a file that is replaced at midnight | tasks start and end; a page follows the log in order |
| users, menus, authorities (services, `user.js`, `common.js`) | database tables; form, tree and calls of the page | open, tick, save; deletions and their cascades | answers arrive late and out of order; cascade one level deep; only leaves are ticked | what is shown as saved is stored for the user it was ticked for; saving again changes nothing |

### UEditor (UE)

| component | state | operations | hard behaviour | what makes it correct |
|---|---|---|---|---|
| tables (`ueditor.all.js`: UETable and the commands on it) | rows and cells, the index rebuilt from their spans, the selected range | select, merge, split, insert and delete rows and columns, type | spans that overlap a boundary; commands that stop half way | the index tiles the grid; no content moves or is lost |
| undo list (`ueditor.all.js`: undo plugin) | scenes, index, timer, intervals, flags | keys, compositions, commands, undo, redo | timers that race saves and input methods; the limit of the list | at most one key is unsaved when all is quiet; redo takes back undo |
| upload dialogs (`dialogs/image`, `attachment`, `video`; `third-party/webuploader`) | status of each file, the uploader's pool and promises, the state of the page | choose, delete, start, pause, OK; ticks, compression, answers | callbacks in any order; a file deleted while it is compressed; a page told late | a deleted file is never sent; OK inserts what was stored; files that wait go on |
| the other plugins and dialogs | | | | |

### proxy-wasm examples (WX and `wasmplugin/`)

Shared counter with compare-and-swap (`shared_data`), postponed requests
(`postpone_requests`), request budget per tick (`wasm-rate-limiting`). The other
examples log or rewrite headers and keep no state.

### How they interact

The frontend calls cart, catalog, currency and checkout; checkout calls cart,
catalog, currency, shipping, payment and email in sequence. All calls are gRPC
without deadlines of their own. The money library is linked into frontend and
checkout; a panic of `Must` in a gRPC handler of checkout is recovered nowhere
and ends the process with every order in it. In base-admin a saved setting or
authority is published as a Spring event to listeners that run on the saving
thread; the refill task and the socket tasks run on `asyncTaskExecutor`
(20 core threads, unbounded queue). The users page calls the services by AJAX, one
call at a time for the tree, with the user's save and the save of the menus in
sequence. The editor runs in the browser alone; only the upload dialogs call a
server.

## 2. Modules

| module | models | role |
|---|---|---|
| `Money` | `money.go`: IsValid, Sum and its errors | operators, shared by the next |
| `OrderTotal`, `MCOrderTotal` | the three loops, MultiplySlow turn by turn, Must | one behaviour is one loop |
| `Cart` | what the cart service promises | abstract specification |
| `CartStore` | `RedisCartStore.cs` behind `CartService.cs` | a handler per RPC; implements `Cart` |
| `LocalCartStore` | `LocalCartStore.cs` on AddOrUpdate | a call step by step; implements `Cart` |
| `MCCart` | | either store |
| `Checkout`, `MCCheckout` | `PlaceOrder`, the effects of payment, shipping and email, the shopper's requests | EXTENDS and composes `CartStore` |
| `Catalog`, `MCCatalog` | `productcatalogservice/server.go` and the decoder it calls | requests against an edited file |
| `RateLimiter` | `RateLimiter.java`, `SysSettingEventListener.java`, `OpenApiAspect.java` | threads at single reads and writes |
| `LogSocket` | `LoggingWSServer.java`, `MonitorWSServer.java`, `AsyncConfig.java` | connections, their tasks and the threads they share |
| `UploadBatch` | what the upload dialog promises | abstract specification |
| `UploadDialog` | `dialogs/image/image.js` on `webuploader.js` | clicks and callbacks; implements `UploadBatch` |
| `MCExecutor` | | the limiter, the sockets or the dialog |
| `AuthorityCache` | `SysAuthorityServiceImpl`, its event listener, the metadata source | saves and requests at single entries |
| `UserPage` | `user.js`, `common.js`, the services of users, menus and their links | a page, its calls on their way, others' changes |
| `MCBaseAdmin` | | either of the two |
| `UETable` | table.core.js and table.cmds.js in `ueditor.all.js` | one command is one step |
| `UndoManager` | undo.js in `ueditor.all.js` | keys, timers and commands |
| `MCUEditor` | | a page with a table, or with text |
| `SharedCounter` | what the `shared_data` plugin promises | abstract specification |
| `SharedData` | `shared_data/main.go` on the host's key-value store | implements `SharedCounter` |
| `OrderTotal_proofs` | | proofs about `Money` and `OrderTotal` |
| `Checkout_proofs` | | proofs about `CartStore` and `Checkout` |
| `Catalog_proofs` | | proofs about the module of that name |
| `RetryLoops_proofs` | | proofs about `SharedData` and `LocalCartStore`, whose loops start again when another was first |
| `BaseAdmin_proofs` | | proofs about `AuthorityCache`, `UserPage`, `RateLimiter` and `LogSocket` |
| `UEditor_proofs` | | proofs about `UndoManager` and `UploadDialog` |
| `UETable_proofs` | | proofs about `UETable`: the index, rows and columns put in or taken out |
| `UETableCommands_proofs` | | proofs about `UETable`: merges, splits and the selection |

An MC module that joins several parts chooses one of them in its initial state and
leaves the variables of the others alone: the parts share no state, and one run of
TLC checks them all. Recursion is written with recursive functions and folds, so that
every module can be proved about; no operator is RECURSIVE.

Mutants (definitions with the comment "Mutant:") are not part of any specification;
each is a plausible bug in the definition next to it, and the run named in
`PROJECT.json` must refute its property with it.

### Money and OrderTotal

Amounts are records of units, nanos and currency. The nanos in a unit are the
constant `NanosMod` (10^9 in the code): TLC uses 4, the proofs cover all. `/` and
`%` are Go's, rounding to zero. int64 and int32 are unbounded integers: the
nanos of two valid amounts stay below 2^31. `OrderTotal` picks one of the three
handlers, a shipping cost and a sequence of lines; program counters are the
places where `Must` is called. A quantity arrives as `uint32(item.Quantity)`, so
the set of quantities contains 0 (MultiplySlow then returns the price once).

### CartStore

A handler is a record with the await it is at. `AddItem` is three steps: the
call, `AddHashGet` (read into a private copy), `AddHashSet` (write the copy and
the new item). `EmptyCart` writes an empty cart, `GetCart` reads. Either access
may fail before it takes effect (`AddFail`, ...), or after (`answer = "error"` in
`AddHashSet` and `EmptyHashSet`). `EmptyAbandoned` is the caller giving up while
the handler goes on; the handlers take no cancellation token.

A cart is the *set of AddItem calls* whose quantities it sums up. Carts merge
quantities per product by addition, so the set determines the cart, and it lets
properties say which request an item comes from. Two things are left out by
this: a quantity that overflows int32, and the connection flag (any access may
fail instead).

The history variable `overlap` records the users who had two requests in
progress at once. `Cart` promises such a user nothing: two AddItem calls that
overlap do lose an item in this code, and no comment promises otherwise.

### Checkout

An order is one execution of `PlaceOrder`; its `pc` names the RPC it waits for.
`GetCart` and `EmptyCart` are the handlers of `CartStore`, called under the
order's own name. `charge[o]` and `ship[o]` are the requests at the payment and
shipping services: sent, executed, refused. `LoseAnswer` ends the order with an
error whatever happens to the request later. `FailOrder` is an error answer; as
in the code nothing is undone. `SendOrderConfirmation` goes on whatever
EmptyCart answered, because the code ignores that result. `Crash` ends every order
in progress. The read-only RPCs of the preparation (GetProduct, Convert,
GetQuote) change nothing outside the handler and are the time an order spends in
`prepare`, where it may fail.

Histories: `revived` are items that an AddItem wrote back after they had been
removed from the cart; `after[o]` are the orders whose EmptyCart was executed
before order `o` read the cart.

### RateLimiter

Every read and write of the volatile count is an action: `ExecuteTest`,
`ExecuteRead`, `ExecuteWrite` inside the lock of `execute`, `RefillRead` and
`RefillWrite` outside it. A saved setting is `Save` (the map), `GetStatus`,
`TestOn` (which submits `star()`), `TestOff`, `Stop`, interleaved with other
saves. `Star` is the first line of the task, in its own thread. Seconds are not
counted: a sleeping task wakes at any time. `burst` is a history: the requests
granted since the last refill. The setting may be Y or N; with N a request
touches no shared state and is left out.

### LocalCartStore

The dictionary of .NET is external: `LookUp`, `TryAdd` and `TryUpdate` are the
steps of AddOrUpdate, which calls its update function outside any lock and starts
again if the value has changed. `FindItem` and `ChangeItem` are that function. It
changes the shared cart object in place, so two calls can add to the quantity both
have read, or write to the same place of the list (`List<T>` is not made for two
threads: an item goes behind the ones its call has seen or behind all there are, and
ends the list; there is no place beyond the end); two items of one product make `SingleOrDefault` throw, which ends the
call. `TryUpdate` compares with protobuf's `Equals`, by value: the cart that
EmptyCart makes has no UserId and differs from an emptied one (`SameCart`). A cart
is named after the call that made it. `clash` records the users who had two
AddItem calls at once, to whom nothing is promised.

### Catalog

A request is a record with its `pc` and the call of `parseCatalog` it is in
(`site`): `GetProduct` makes one for its loop test (`count`), one for the
comparison (`id`) and one for the assignment (`take`), the other two make one
(`all`). A call is `Check`, then, if it must load, `LockAndRead` and the decoder's
steps, then `ReturnProducts`, which reads the shared slice without the mutex.

The decoder is jsonpb of golang/protobuf 1.3.1 (`go.mod`), an external library:
it stores a slice of nil pointers of the final length, then allocates and fills
one product after the other. The slice header is two words stored in either order
(`StoreFirst`, `StoreSecond`); a request that reads it in between has the array
of one version with the length of the other. That a request may also read the two
words on either side of a whole reload is left out: it yields the same two
defects, a length beyond the array or short of it. What lies behind an array is
not known: reading it panics or matches nothing (`Panic`, `CompareId`). A version
of the file is a list of product ids and the number that decode (`good`), or not
JSON, or a missing file. While a product is being decoded its id may or may not
match; that its other fields may be missing from an answer is left out. A signal
that finds the channel full is dropped, which is the same as not sending it.
After a crash the container restarts with the image's file.

### LogSocket

Each connection has a task in the executor: it waits in `pool.queue` for one of
`CORE_POOL_SIZE` threads and keeps it until it finds its connection closed. The
refill task of the limiter is a loop of the same form in the same executor; a
monitor socket stands for it. `ReadLog` and `ReadFails` are the reading of the log
file, `Send` the message. The file begins anew at `Midnight`, and its first line
makes it; a reader whose offset lies behind the end fails, and its error is itself
a line of the log (`Logged`). Colours and escapes of the lines are left out.

### UploadDialog

A file has the status that webuploader gives it. `wu` is the uploader: `runing` and
`trigged` are its flags, `pool` the files on their way, `preparing` the file of
`_promise`, `ticks` and `finished` the calls it has scheduled with `nextTick`, of
`_tick` and of the event `uploadFinished`. `dialog` is the page: the state of its
button, whether the button is disabled, whether the dialog is open. The author
picks files, deletes those that have a button for it, starts, pauses and says OK
at any time between the callbacks. Files go in one piece, because the dialogs ask
for no chunks, so that a file is one block. Thumbnails, rotation, progress and
the counts in the page's text are left out, and so are the other tabs of the dialog.

### AuthorityCache

`SysAuthorityServiceImpl.save` is `begin` (its first read, which fixes what the
transaction sees), `list` (which writes the row first, and waits for a transaction
that has written it), the listener's `ClearUrlAuthorityMap`, `ClearRequestMap` and
one `PutPair` per entry, `commit` or `rollback`. A deletion is a save with no
patterns. `getAttributes` goes through the map one entry at a time and keeps its
answer. The URL is one that every pattern matches. An iteration that meets a
concurrent change of one of its sets may throw in Java; that is left out.

### UserPage

The page holds the form, the tree, up to `MaxLoads` loads of the tree (two reads
on the server, the answer later), one save of a user and up to `MaxPosts` saves of
the menus, which are read and written in two steps. Others delete users and menus
and save menus meanwhile. A deletion is one step, as it is one transaction; that
deletions interleave statement by statement is left out. The tree of authorities,
which the page treats like the tree of menus, is left out, and so is a second load
of the same user while one is under way. `claim` is a history: what the
page has last told the administrator it saved.

### UETable and UndoManager

A table is a sequence of rows of cells with spans, and `index` is the function
from positions to what `getCellInfo` says of the cell there, built by `update()`
as in the code: each cell goes to the first free position of its row, searched
from its own place on (`PlaceCell`), and a position that stays free gets a clone of
the row's last cell (`WithMissing`). The loops over cells, rows and calls are recursive
functions of their counter: `FillRow`, `FillIndex`, `KeepLowerParts`, `splitToCells`,
and `Again`, which repeats an operation for each row or column of the selection.
`checkRange` calls itself until nothing grows; each call moves at least one of four
sides, so that `rowsNum + colsNum` steps of `Grown` are enough (`CheckedRange`). A command
is one step, as JavaScript runs it without a
break. A command that meets an undefined cell ends with an exception: `state` is then
"thrown", the rows are what it had done to them, the index is the one of before,
and nothing but a new selection or a deletion is tried on it. `checkRange` that cuts
a cell is "null" (getCells answers null). Contents are sets of words, so that what
moves and what is lost can be told.

A table is followed while its index is right (`Followed`, and `Tiled` in `Again` and
`SelectCells`): the step that leaves a wrong index is taken and judged, and after it
the table may only be deleted or a button pressed in it. On cells that lie over each
other the code does go on, in ways of its own: `getCellInfo` looks for a cell from its
own place on and finds none for one that is covered, so that `update()` throws (lines
18243 and 18226), the loop of `deleteCol` need not advance (line 18762), and
`mergeRange` throws before it takes the marks away (line 18509). None of this is
modelled. At the size of the run no table of a wrong index is in use, so that nothing
is cut off there. Nor is the end of `deleterow` (lines 19353 to 19357), which looks
for a cell to put the caret in when the rows are gone: it may throw when the last row
went, and only the flag of the editor that a command is under way depends on it.

In `UndoManager` a scene is a content and a caret or selection; the timer of 200 ms,
the interval that waits for the end of a composition and the handlers of keys,
commands and the mouse are actions. A key press and the text it enters are one
step. `unsaved` is a history that counts, up to two, the key presses since the
document was last in the list.

### SharedData

A VM is at `GetSharedData` or `SetSharedData` of the loop; the host calls are
atomic, VMs interleave between them. A VM that starts stores the initial value
unconditionally and may do so at any time, as Envoy starts a VM per worker
thread. The host's key-value store is external: a number per stored value.

## 3. Runs

| run | question | bounds | states |
|---|---|---|---|
| `order_total` | are the totals exact, when are they invalid, when does Must panic | 4 nanos per unit, 6 prices and 3 shipping costs below, at and above one unit, quantities 0..3, up to 2 lines, one currency | 38 thousand |
| `order_total_proto` | does a total obey `demo.proto`? (violated) | same | |
| `cart` | is either store an atomic cart per user, is every call answered | 2 users, 2 AddItem, 1 EmptyCart; on Redis 1 GetCart, in memory 2 products | 31 thousand |
| `checkout` | effects, losses and double payments | 1 user, 2 orders, 2 AddItem, 1 EmptyCart; symmetric | 1.7 million |
| `checkout_live` | does PlaceOrder end | the same with 1 AddItem, no symmetry | 0.35 million |
| `rate_limiter` | the limiter's bounds, burst and service; the sockets' threads and lines; the upload dialog against `UploadBatch`, and files that wait | limiter: 2 requests, 2 administrators, 2 tasks, bucket of 2, speed 1. Sockets: 1 log page, 1 monitor, 1 thread, first message of 1 line, 6 lines a day, 2 days. Dialog: 2 files, 1 at a time, 2 pauses | 74 thousand |
| `rate_limiter_twice` | is there one refill task? (violated) | 1 request, 1 administrator, 2 tasks | |
| `catalog` | what do reloads do to the catalog, the answers and the process | 2 requests at a time, 4 versions of the file (one product, missing, not JSON, two of which one decodes), asking for `p` | 3.4 million |
| `catalog_reload` | is no restart needed? (violated) | 1 request, 2 versions | |
| `base_admin` | is what the users page says it saved stored; are the copies of the authority table current | page: menus of three levels, 2 users, 2 loads and 2 saves of menus on their way, 3 buttons, 2 changes by others. Cache: 2 authorities, 2 patterns, 2 saves and 1 request at a time, symmetric | 5.7 million |
| `editor` | do the commands keep the table, does the undo list keep the text | tables up to 3 by 3 with one word, every one that the commands make; 3 contents, 1 caret, 1 selection, a list of 3, 2 keys, 1 interval | 0.24 million |
| `shared_data` | is the counter atomic, is the loop lock-free | 3 VMs, 8 values stored | 32 thousand |

Why the bounds are enough. *Totals*: with 4 nanos every combination of carry,
no carry, zero units and zero nanos occurs in a sum of two and of three amounts;
one line more repeats the same loop body, which is what the proofs are about.
*Cart*: losing an update takes two AddItem calls; reviving a cart takes an
AddItem and an EmptyCart; crossing users takes two users. *Checkout*: every
property relates at most two orders of one shopper and one or two cart requests.
No action of Checkout relates two shoppers except `Crash`, which is the same as
each order failing; that carts of shoppers stay apart is checked in `cart` and
proved for any number, and the proofs of Checkout are for any number of shoppers.
*Rate limiter*: the races are between one refill, one request in `execute` and
one waiting, or two refills, or two saves; `Tasks` bounds the star() calls that
have not returned, and a save starts only while a slot is left for it.

*Catalog*: a race takes one request that loads and one that reads; two products
are enough for a slice to be nil, half filled, longer or shorter than another.
Requests repeat without a bound. *Shared data*: a lost increment takes two VMs, the
third starts late or wins the race; `MaxCas` bounds the values stored.
*Carts in memory*: two AddItem calls race on one object, an EmptyCart replaces it in
the middle of one; a second product shows the list of items. *Sockets*: with one
thread and two connections a task waits for the other; with more threads tasks only
interleave more, and share nothing but the file. An offset of one day must be
beyond the end of the next day's file, and be overtaken by it: 6 lines. *Dialog*: one
file that is sent or prepared while another waits, which is all that a tick tells
apart; three files with two at a time were checked once with one pause (0.3 million
states), and the refinement is proved for any number. *Users page*: every property
speaks of one claim, so the second user and the second load are there to be mixed
up with the first; a third level of menus is what the one-level deletion leaves
behind. *Cache*: two saves may overlap and one request be between any two steps; two
authorities under one pattern and two patterns are the least for half a table.
*Tables*: a cell of two rows or columns has a neighbour on either side of a boundary
only in three; the commands reach every such table from the first one. With four
rows or columns more goes wrong than with three, and the properties were corrected
by it: every table of 3 by 4, 4 by 3, 2 by 5 and 5 by 2 positions was put before
TLC once as a first state, with one selection and one command from it, and they
hold there in the form they have now. In tables of the size of the run, what the
last three exceptions of `TilesGrid` and that for rows of
`ContentsKeepPlace` allow was not met. *Undo*: with a list of 3 the limit, both ends and a scene in the middle
occur, also as scenes that differ in the selection only.

`CHECK_DEADLOCK FALSE` is set where behaviours end: a total that is added up, a
cart whose calls are used up, orders that ended, shared data at its bound, a page
whose buttons and changes are used up, log tasks that ended, a dialog that was closed.

What the runs show:

* `ExactTotal`, `EachLineExact`: whichever handler adds up the order, the total
  is worth shipping plus lines to the nano.
* `InvalidOnlyBelowOneUnit`, `NoPanicFromWholeUnits`: `Sum` builds an amount of
  positive units and negative nanos when units are 0, and only then. An order of
  free or whole-unit amounts never panics; an order with a running total below
  one unit may, and takes the process with it. `order_total_proto` shows the
  amount itself against `demo.proto:154`.
* `ImplementsCart`, `AckedItemKept`, `CallsAnswered`: for a user whose requests do
  not overlap the store on Redis is an atomic cart; every call is answered. That no
  user ever sees another's items, overlapping or not, is the theorem `CartsStayApart`.
* `ImplementsLocalCart`: so is the store in memory for a user without two AddItem
  calls at once, even when the cart is emptied in the middle of one: the retry then
  adds the item to the new cart, although an order may have read it from the old
  one. With two AddItem calls at once an item may be lost or be there twice, and two
  items of one product make every later AddItem of it fail.
* `EffectsInOrder`: nothing is shipped unpaid, emptied or confirmed unshipped,
  under any failure, lost answer and crash.
* `PaidTwiceOnlyAfterFailure`: a shopper who does one thing at a time pays twice
  for an item only after an order that failed or died, or an EmptyCart that
  failed or was not waited for. All three do happen in the model: they are the
  exceptions the property names, not bugs it hides.
* `BilledAgainOnlyIfRevived`: ordered items reappear in a later order only
  through an AddItem that read the cart before it was emptied.
* `NothingLost`: the items of such a shopper are in the cart, emptied on
  request, or in an order that was paid and shipped.
* `CountTypeOK`, `BurstAtMostLimit`: although the refill takes no lock, the
  count never leaves its bounds, and no more than `limit` requests are granted
  between two refills. (A refill may give back tokens that were taken meanwhile,
  and a request in `execute` may undo a refill: the long-run rate is not exact.)
* `OnKeepsServing`: while saves do not overlap, a limiter that stays on is
  refilled again and again. The condition is needed: one save that switches the
  limiter off, overtaken by one that switches it on after the first tested the
  setting and before it stops the task, leaves it on without a task. TLC finds
  this behaviour when the condition is dropped.
* `OneRefillTask` is violated: see the finding in `PROJECT.json`.
* `SettledIsOneVersion`: when nobody is decoding, the mutex is free and the catalog
  is one version of the file, possibly up to the product that did not decode.
* `EditsPickedUp`: with reloading on, an answer has no product of a version older
  than the file was when the request arrived, whoever else reloads.
* `ExactUntilReload`, `DownOnlyAfterLoad`: without a reload every answer is exact
  and the process stays up; both stop being true once a request has read the
  file, or, for the second, when the image's file decodes only in part (the slice
  then keeps its nil products, and no later request reloads it).
* `NoRestartNeeded` is violated by a single request whose calls of `parseCatalog`
  see a file that gets shorter: see the finding in `PROJECT.json`.
* `TasksStartAndEnd`, `PageFollows`: while no more connections are open than there
  are threads, every task gets one, ends after its connection has, and an open page
  gets to the end of the log again and again. Without the condition TLC finds tasks
  that wait for ever. After midnight a page gets on only because each failing turn
  writes a line to the new file.
* `InOrderWithOneGap`: a page gets the lines of a day in order, none twice, and at
  most once in its life loses some in the middle: when the first message that is
  longer than 200 lines is cut. The flag is cleared by the first cut, not by the
  first message, although the comment in line 121 says "the first time". The first
  line of a day is never sent (the offset starts at 1 and counts lines to skip).
* `ImplementsUpload`: no more files are sent at a time than there are threads, one
  that was deleted is never sent, not even if it was being compressed, and OK inserts
  exactly the stored files while none is queued or on its way.
* `WaitingFilesGoOn`: a queued file is sent, deleted or given up, however the author
  pauses and continues. Two exceptions are needed, and TLC finds each when it is
  dropped. A file chosen between the uploader's last tick and the event
  `uploadFinished`, or after a pause that found nothing left, waits until another is
  chosen: the page goes to a state in which its button does nothing. And a file
  that is deleted while it is compressed, and then cannot be compressed, ends in an
  exception that leaves `_promise` unsettled for ever.
* `SettledCacheIsCurrent`: after a save that was alone, undisturbed and committed, the
  copy in memory and the kept answer are those of the database. Each condition is
  needed: a request that looks while the table is rebuilt keeps an old, empty or half
  answer; of two overlapping saves the later publication may lack the other's row; a
  rollback leaves the memory with what was never stored.
* `SavedIsStored`: what the page says it has saved is stored, and was ticked for that
  user. The exceptions are named in `unsure`: a button pressed while calls are on
  their way, a tree that could not be loaded, a deletion in the middle of a save.
* `UnchangedSave`: opening a user and saving takes no menu away and grants none, but
  for menus that have got children since they were granted, or are not in the tree.
* `DanglingOnlyFrom`: links without a menu or user come from the deletion of a parent
  (the links of its children stay) or from a page filled before the deletion.
* `TilesGrid`: every command leaves the index the table: each position leads to the
  cell that covers it, and each cell of the rows covers its whole area alone. The
  exceptions are those of the code. A command that throws leaves the index of before.
  And `insertCol` at a column where a cell of several rows begins takes that cell's
  number for a number in the lower rows, where it counts other cells (line 18724):
  the new cell may land before a cell that it should follow, and in a table of four
  columns two cells then claim one position. And `deleteRow` drops the lower part of a
  cell whose next row has no cell of its own (line 18638): the cells behind it slip to
  the left, where a wide one may find too little room. Last, a misplaced column may
  leave a selection that ends before the column it begins at, and a `mergecells` of it
  makes a cell of one column over whatever was there. The run is too small for this one:
  the rows `<<2x1, 2x2, 1x1, 3x1>>`, `<<1x1>>`, `<<1x1, 1x1, 1x2>>` (rows by columns of
  each cell) make a table of 3 by 5 positions. Select columns 2 to 4 of its first two
  rows: `insertcol` puts three columns in and the index is right, but the selected cell
  of the second row is now in column 4, before column 5 where the selection that
  `update()` rebuilds begins.
* `ContentsKeepPlace`: in a table whose index is right, rows put in or taken out, and
  columns taken out, move the contents behind them by one and leave the others. So do
  new columns, but where `insertCol` may miss as above. A row taken out does not if a
  cell begins in it whose next row has no cell of its own: `deleteRow` drops the lower
  part of that cell (line 18638), and what follows may slip to the left.
* `MergeAndSplit`: a merge of a selection that is neither as wide nor as high as the
  table makes one cell of its area with all its contents; a split makes unit cells.
  After a misplaced column the rebuilt selection may end before it begins; such a
  selection, and a table whose index is wrong, are not claimed.
* `WordsKept`: no command loses what was typed but those that are asked to, be it that
  they stop half way.
* `CutOnlyAtLastEdge`: a selection cuts a cell only at its last row or column, the
  ones that `checkRange` does not look at, although the comment in line 18320 says
  that it goes on until no cell is cut.
* `HalfDoneOnlyOnBareRows`: a command on a table whose index is right stops half done
  only if there is a row without cells or a first row of one cell, or when its
  selection cuts a cell. Where the index is wrong it may lead nowhere, and nothing is
  claimed; in the run no such table stays in use.
* `QuietLosesOneKey`, `KeysSavedAtLast`: with no timer or interval left at most one
  key press is missing from the undo list, namely one at the limit of keys, whose
  save clears the timer it has just set; and keys that are missing are saved at last,
  however the author types or composes.
* `UndoThenRedo`: in a saved document redo takes back undo and undo redo. An undo with
  unsaved typing loses that typing.
* `ImplementsCounter`, `SomebodyCounts`: no increment is lost, no value is logged
  twice between two starts of a VM, and mismatches never keep all VMs going round.

### Fairness

`FairCartSpec`: a handler that can run does, and a Redis command returns or times
out (StackExchange.Redis has a default timeout). Nobody has to call, and nobody
has to stop waiting. `Checkout!FairSpec`: the order's own steps, and some answer
from each service. This is an assumption on the services, not on the code:
`PlaceOrder` sets no deadline, and without a caller that gives up it waits as long
as they do. Lost answers and crashes are not fair. `RateLimiter!FairSpec`: the
executor runs a submitted task while fewer than its 20 core threads are taken
(the socket tasks can take them all: `TasksStartAndEnd`), and a sleeping task
wakes. `SocketFairness`: threads run, sleeping ones wake, and a free thread takes a
task; nobody has to open or close a page or to write to the log. `UploadFairness`:
the browser makes its callbacks, the server answers or the timeout of the
transport comes, and the author clicks where the button says start or continue,
without which a file that waits may wait for ever. `UndoFairness`: timers and
intervals fire, and a composition ends. `SharedData!FairSpec`: worker threads run; a single request may go
round for ever when the others keep winning, so only progress of the whole is
stated.

## 4. Proofs

Proved for every value of the constants, from the assumptions named in the modules.
`OrderTotalAssumption` says that prices and quotes are valid and not negative, which
is assumed of the currency and shipping services. `CatalogAssumption` says that a
version of the file is a list of ids of which some number decodes, `UserPageAssumption`
that there are finitely many menus, each with a parent or at the root (a cycle of
parents is not excluded), `LocalCartAssumption` that a call is not both an AddItem
and an EmptyCart. `SocketAssumption`, `NanosModAssumption`, `CartStoreAssumption`, `CheckoutAssumption`,
`RateLimiterAssumption`, `SharedDataAssumption`, `UndoAssumption` and
`UploadAssumption` give the bounds their types and keep the null values apart.
`AuthorityCache` and `UETable` need none.

Each proof follows one pattern: an invariant that is inductive, one lemma per
action, or per group of actions that touch the same variables, and a last step
that applies temporal logic. What the invariants say:

* **Money** (`OrderTotal_proofs`): `SumPreservesValue`, `SumInvalidOnlyBelowOneUnit`,
  `ValidRepresentationUnique`, by cases on carry, borrow and sign (`SumCases`).
* **OrderTotal**: `TotalTypeCorrect`; `EveryLineExact`, from MultiplySlow's loop
  invariant `Product` (out is `quantity - n + 1` times the price); `TotalExact`, from
  `Sums`: between two lines the total is worth the shipping, if that is added first,
  and the lines so far. `InvalidAlwaysBelowOneUnit`, from `Amounts`;
  `WholeUnitsNeverPanic`, because free and whole-unit amounts of one currency are
  closed under `Sum` (`WholeSum`). That the sum over the lines obeys its recursive
  equation is proved without induction: of the lengths for which no function obeys
  it, were there any, one would be the least.
* **CartStore** (`Checkout_proofs`): `CartTypeCorrect`; `CartsStayApart` (`OwnItems`): a handler has no
  copy before it has read a cart (`OwnInv`). `CartImplemented` and `AckedItemsStay`,
  from `AloneInv`: while a user's requests have not overlapped, a handler of that user
  is the only one, also after its caller gave up, and an AddItem that is about to
  write holds what is stored (`SerialInv`). A late write is then never a stale one.
* **LocalCartStore** (`RetryLoops_proofs`): `LocalCartImplemented`. A cart object
  belongs to one user for ever, in the dictionary or in an AddOrUpdate of that user
  (`OwnedInv`). For a user with one AddItem at a time the object that AddOrUpdate
  looked up is the one in the dictionary, or an EmptyCart has put an empty one there
  (`AloneOnCart`). The changed object is not empty, so that TryUpdate, which compares
  by value, can take the one for the other only if they are the same. The change in
  place is the abstract AddItem while the object is in the dictionary, and otherwise
  nothing, and the next round makes up for it.
* **Checkout**: `TypeCorrect`; `EffectsAlwaysInOrder`: that a payment is executed
  is only stable if an order that has not reached an RPC has no request of it
  anywhere (`PcInv`); `BilledAgainOnlyByStaleWrite`, with `RevInv`: an order's items
  are its user's own, the cart that is emptied is the one that was read, and once
  it is emptied no cart holds one of its items that was not written back. It rests
  on `OwnInv` (another user's cart cannot hold them) and on `PcInv` (the items of
  an order do not change once its cart is emptied). `PaidOnce` and `NoItemLost`, from
  `PayInv`, about a shopper whose requests never overlapped: an order, from its
  GetCart to the end of its EmptyCart, is alone (`OrderSerial`); until it empties the
  cart its items are what is stored (`Snapshot`); and of two such orders one has read
  the cart after the other emptied it, or that other ended badly (`OnceEach`). With
  `RevInv` their items are then apart.
* **Catalog**: `CatalogSettles`, from `SettledInv`: at each step of the decoder the
  array is the version up to that product and nil behind, as its loader, the holder of
  the mutex, knows (`LoadInv`). `EditsSeenAtOnce`, from `FreshInv`: once a request
  looks at a slice, all who load do so from a file at least as new as the one it
  began with, because it has waited for the mutex itself. `ExactAnswers` and
  `PanicsNeedALoad`, from `ExactInv`: until a request reads the file the catalog is
  what `init` parsed, every slice is that catalog, and a request has found exactly
  the wanted among the products it has passed (`Progress`).
* **RateLimiter** (`BaseAdmin_proofs`): `CountInBounds` and `BurstBounded`, from `IInv`:
  whoever is inside `execute` holds the lock and has seen a count above zero, which the
  unlocked writers never lower to zero; and what was granted since the last refill
  is missing from the count and from any count read inside the lock.
* **LogSocket** (`BaseAdmin_proofs`): `LinesInOrder`, from `SocketInv`: what a page was
  shown and what its task is about to send are in order, with one gap, and none while
  `first` is set; the offset is the last of these lines if that is of today. A task is
  in the queue once (`QueueInv`), so that no two threads read for one page.
* **SharedData** (`RetryLoops_proofs`): `CounterImplemented`, the refinement of
  `SharedCounter`: every step is an increment, a start, or a stutter, because a loop that
  holds the current compare-and-swap number holds the current value
  (`SharedDataTypeCorrect`).
* **AuthorityCache** (`BaseAdmin_proofs`): `CacheIsCurrent`. The invariant follows a
  clean save through its steps: it is the only one, what it sees is the database but
  for its own row, the pairs still to be put and the memory together are its table,
  and no request that began before the answers were cleared is still looking.
* **UserPage** (`BaseAdmin_proofs`): `ClaimsAreStored`, from `SureInv`: on a page that
  is not unsure one thing happens at a time, the tree is or will be that of the form,
  and the one save of menus has read the links there are. `DanglingLinks` follows
  from the types, action by action. `LoadAndSave` needs no invariant: the tree, the
  ticks and what is saved are functions of the tables, and it holds of any tables.
  That the ancestors of a menu, a recursive function, are menus, which the types
  need, goes by the least counterexample (`AncestorsAreMenus`).
* **UndoManager** (`UEditor_proofs`): `OneKeyAtMost`, `RedoIsInverse`, `UndoTypes`, from
  `UndoInv`: the list keeps to its limit, the index points into it and the two flags
  say what lies on either side (`Fits`), a composition begins only with a place for
  its interval (`Waits`). That undo and redo meet is arithmetic on the least and the
  greatest change before and behind the index (`MinIsLeast`, `MaxIsGreatest`, from the
  well-foundedness of the naturals).
* **UETable** (`UETable_proofs`, `UETableCommands_proofs`): a table with a right index is
  described by a *layout*, which says for every position of the grid which cell covers
  it and where that cell begins (`Laid`); rows lay a layout if the cells of each row are
  those that begin in it, from left to right (`Lays`). `UpdateLays` says that `update()`
  of such rows measures the table as it is and builds exactly the index of the layout:
  cell by cell, the first free position of the row is the column where the layout
  has the cell begin (`PlaceStep`), and `getMaxCols`, which counts cells from above in its
  own way, never counts too many (`ReachedIs`). Each operation is then an operation on
  layouts; what has to be proved is that the new layout is one and that the rows the
  code makes lay it. `TableContentsKeepPlace` follows for rows and columns put in and
  taken out. For `deleteRow` that needs what `getPreviewMergedCellsNum` counts, from cell
  to cell (`PreviewIs`), and the row below after each cell that goes on in it (`KeptTo`).
  The theorem has no invariant: it holds of any table whose index is right.
  `TableStaysOk` is the inductive invariant `TableOk`: between two commands the selection
  is a range inside the table, if the index is regular, whether it was dragged or
  rebuilt from the marked cells. It is what `TableCutAtLastEdge` (a range that no longer
  grows fits on the sides that are looked at, `CheckedRange`) and `TableMergeAndSplit` need.
  `TableHalfDone` goes command by command: where the index is right and each row has a
  cell, no access of a row or column put in or taken out, or of a split, leads nowhere
  (`KeepReady`); a merge fails only on a selection that cuts a cell, if one is made.
  That a command on a range finds one needs a second invariant, `MarkOk`
  (`TableStaysMarked`): nothing is marked while no range is selected.
  `TableWordsKept` compares the rows of a table cell by cell (`Retains`): `update()` and a
  sort keep the cells, a merge takes away only cells whose contents it has put into the
  merged one (`RangeMoves`), wide merges included, a split keeps the cell in its first
  part, and rows or columns put in keep theirs even where the call stops half way. That
  the command which makes a table finds no cell is a third invariant (`TableStaysNone`),
  and that a table is made of rows of cells a fourth (`TableStaysTyped`): of the commands
  that take rows or columns out it needs what each call leaves, also where it stops half
  way (`RowsLeft`, `DelColTyped`). That an index is right is no invariant; where it is not,
  a table is not followed, and nothing is claimed of it.
  Recursive functions that run over a counter are evaluated by induction over it, on a set
  instead of a predicate (`NatInSet`).
* **UploadDialog** (`UEditor_proofs`): `UploadImplemented`, the refinement of
  `UploadBatch`. A file is fetched with a place in the pool and takes it much later;
  what keeps the promise is that meanwhile nobody else prepares a file, so that the
  pool only shrinks, and that the file's own button is all that can touch it
  (`PreparedHasPlace`, `ButtonsOfUnsent`); that a deleted file is never among the stored
  ones needs that stored files are complete (`StoredIsComplete`).

The type invariants `TypeOK` (of `OrderTotal` and of `Checkout`), `CartTypeOK`,
`SharedDataTypeOK` and `UndoTypeOK`, and `OwnItems`, are proved and not run; those of
the other modules are in their proof modules.

Only model-checked:

* liveness, which the installed provers do not reach (`CallsAnswered`, `OrderEnds`,
  `OnKeepsServing`, `SomebodyCounts`, `TasksStartAndEnd`, `PageFollows`,
  `WaitingFilesGoOn`, `KeysSavedAtLast`);
* `TilesGrid`, an action property of `UETable`: it speaks of every command on every
  table, and what is proved of the layouts of single operations does not cover merges as
  wide or as high as the table, nor of a column put in where it may be misplaced;
* that the three violated properties fail, which a single behaviour shows.

## 5. Not modelled

* *Rendering, cookies, logging, tracing, quotes and card validation*, generated
  protobuf code, the code generator, and the manifests and notes, whose behaviour
  is Istio's and Envoy's.
* *currencyservice*: a floating point conversion per request and no state.
* *Sessions and login*: the registry and its expiry are Spring Security's.
* *EnsureRedisConnected*: what follows from its flag depends on when the client
  library raises its events; in `CartStore` any access may fail. Quantities are sets
  of calls, so that the unchecked int32 addition in `RedisCartStore.cs:140` is out.
* *GetCart of the store in memory* hands out the live object, which gRPC serialises
  while others change it; what a reader then sees is up to the library.
* *The wasm examples but one*: postponed requests and the request budget are
  countdowns of a single thread.
* *The users page*: the tree of authorities, a second load of the same user, deletions
  statement by statement, validation.
* *Most of UEditor*: some 29,000 lines of `ueditor.all.js` are ranges, DOM helpers,
  filters, parsing and toolbars, and formatting of HTML; `jsencrypt.js` is arithmetic
  on big numbers; the other dialogs set values of one form. They make up most of the
  JavaScript of the repository, so that the share of lines that the map covers stays
  small: to map them would mean to write them down again. Of the tables, header
  cells, captions, widths and styles, copying whole tables and nested tables are
  left out; of the undo list, the plugins that reset its flags while they paste,
  indent lists or tabs (lines 14772, 15430, 20469, 22759) and source mode; of the
  upload dialogs, what section 2 says. The attachment and video dialogs are the same
  code without compression: their files are prepared at once, which the model
  allows. `ueditor.config.js:33` names a PHP server that base-admin does not have.

What the models taught about the code, beyond the findings and what the runs
show: `mergeRange` of a full-width selection below row 1 deletes rows counted
from the top and leaves blank ones; a command that throws inside `execCommand`
leaves `__hasEnterExecCommand` set, after which commands save no scenes; a menu
saved from a page opened before its deletion is there again; a user for whom nothing
is ticked cannot be saved (a TypeError in the callback); a new user saved twice is
refused, as its login name is taken; the log reader of a turn is never closed; the
upload dialog's button does nothing in the states confirm and finish, so that failed
files cannot be sent again, and a file deleted while it is compressed is counted as
a success.
