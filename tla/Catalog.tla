------------------------------- MODULE Catalog -------------------------------
(***************************************************************************)
(* productcatalogservice (server.go): the catalog parsed from              *)
(* products.json, requests that read it, and the switch that makes every   *)
(* parseCatalog() read the file again.                                     *)
(*                                                                         *)
(* readCatalogFile decodes into the shared message under a mutex, but the  *)
(* requests read that message without it.  The decoder (jsonpb 1.3.1, an   *)
(* external library) first stores a slice of nil pointers of the final     *)
(* length and then fills it element by element.  A slice header is several *)
(* words (here its array and its length) that are stored in either order,  *)
(* and a request may load it between the two.  Of a product only its id    *)
(* matters; while its fields are being decoded a reader may or may not see *)
(* the id.                                                                 *)
(***************************************************************************)
EXTENDS Integers, Sequences

CONSTANTS Handlers,  \* goroutines that serve requests
          Versions,  \* contents products.json has, in the order they are put there
          Kinds,     \* requests made: ListProducts, GetProduct, SearchProducts
          Wanted,    \* product ids (or names) that requests ask for
          Arrays,    \* bound: backing arrays in use at the same time
          NoArray,   \* the nil slice has no array
          Nobody     \* not a handler

(***************************************************************************)
(* A version has the product ids in `items', of which the first `good'     *)
(* decode without an error; its `form' says whether it is JSON at all, or  *)
(* whether the file exists.                                                *)
(***************************************************************************)
Forms == {"json", "syntax", "missing"}

ASSUME CatalogAssumption ==
    /\ Len(Versions) \in Nat \ {0} /\ DOMAIN Versions = 1 .. Len(Versions)
    /\ \A v \in DOMAIN Versions :
         /\ Versions[v].form \in Forms
         /\ Len(Versions[v].items) \in Nat
         /\ Versions[v].good \in 0 .. Len(Versions[v].items)
    /\ Kinds \subseteq {"list", "get", "search"}
    /\ Arrays # {} /\ NoArray \notin Arrays /\ Nobody \notin Handlers

VARIABLES file,           \* the version products.json has now
          image,          \* the version in the container image
          cat,            \* cat.Products: the shared slice header
          mem,            \* [Arrays -> elements]
          mutex,          \* holder of catalogMutex
          reloadCatalog,  \* the switch
          up,             \* the process runs
          req,            \* [Handlers -> what the goroutine is doing]
          loads           \* history: a request has read the file since start-up

vars == <<file, image, cat, mem, mutex, reloadCatalog, up, req, loads>>

Files == DOMAIN Versions

Elem(v, whole) == [of |-> v, whole |-> whole]
NoElem == Elem(0, FALSE)
Slice(a, n) == [array |-> a, len |-> n]
NilSlice == Slice(NoArray, 0)

Size(v) == Len(Versions[v].items)
Id(v, i) == Versions[v].items[i]

\* The elements of version v once decoding has ended, with or without an error.
Decoded(v) ==
    [i \in 1 .. Size(v) |->
        IF i <= Versions[v].good THEN Elem(v, TRUE)
        ELSE IF i = Versions[v].good + 1 THEN Elem(v, FALSE) ELSE NoElem]

(***************************************************************************)
(* A request: where it is (pc), which call of parseCatalog it is in (site),*)
(* the loop index, the slice the call returned, the version it is loading  *)
(* and up to which element, and the products found so far.  `since' is     *)
(* history: the version on file when it began, or 0 once a call has found  *)
(* reloading switched off.                                                 *)
(***************************************************************************)
Idle == [pc |-> "idle", kind |-> "none", site |-> "none", want |-> "none", i |-> 1,
         slice |-> NilSlice, ver |-> 0, new |-> NilSlice, k |-> 0, refs |-> {},
         since |-> 0]

ReadFile(v, a) ==
    IF Versions[v].form = "json"
      THEN /\ cat' = Slice(a, Size(v))
           /\ mem' = [x \in Arrays |-> IF x = a THEN Decoded(v) ELSE <<>>]
      ELSE /\ cat' = NilSlice
           /\ mem' = [x \in Arrays |-> <<>>]

\* The process starts: init() reads the file and goes on if it cannot parse it.
Start ==
    /\ up' = TRUE
    /\ file' = image
    /\ ReadFile(image, CHOOSE a \in Arrays : TRUE)
    /\ reloadCatalog' = FALSE
    /\ loads' = FALSE
    /\ UNCHANGED <<image, mutex, req>>

Init ==
    /\ image \in {v \in Files : Versions[v].form # "missing"}
    /\ file = image
    /\ cat = NilSlice
    /\ mem = [a \in Arrays |-> <<>>]
    /\ mutex = Nobody
    /\ reloadCatalog = FALSE
    /\ up = FALSE
    /\ req = [h \in Handlers |-> Idle]
    /\ loads = FALSE

-----------------------------------------------------------------------------
(***************************************************************************)
(* The operator edits the file, and switches reloading with SIGUSR1 and    *)
(* SIGUSR2.  A signal that finds the channel full is dropped, which is as  *)
(* if it had not been sent.                                                *)
(***************************************************************************)
EditFile ==
    /\ up
    /\ \E v \in Files : v > file /\ file' = v
    /\ UNCHANGED <<image, cat, mem, mutex, reloadCatalog, up, req, loads>>

ReceiveSignal ==
    /\ up
    /\ reloadCatalog' = ~reloadCatalog
    /\ UNCHANGED <<file, image, cat, mem, mutex, up, req, loads>>

\* A panic in a handler, or log.Fatalf: the process ends and every open
\* request gets a transport error.  A new container has the image's file.
Crash ==
    /\ up' = FALSE
    /\ cat' = NilSlice
    /\ mem' = [a \in Arrays |-> <<>>]
    /\ mutex' = Nobody
    /\ reloadCatalog' = FALSE
    /\ req' = [h \in Handlers |-> Idle]

Restart == ~up /\ Start

-----------------------------------------------------------------------------
At(h, p) == up /\ req[h].pc = p
Goto(h, r) == req' = [req EXCEPT ![h] = r]

\* Calls of parseCatalog: the loop test, the comparison and the assignment of
\* GetProduct, and the one call of the other two.
Calling(r, site) == [r EXCEPT !.pc = "check", !.site = site, !.slice = NilSlice]

Begin(h) ==
    /\ At(h, "idle")
    /\ \E kind \in Kinds, w \in Wanted :
         Goto(h, Calling([Idle EXCEPT !.kind = kind, !.want = w, !.since = file],
                         IF kind = "get" THEN "count" ELSE "all"))
    /\ UNCHANGED <<file, image, cat, mem, mutex, reloadCatalog, up, loads>>

\* Mutants: no reload once there is a catalog; a reload at every call.
MustLoadEmpty == cat.len = 0
MustLoadAlways == TRUE

MustLoad == reloadCatalog \/ cat.len = 0

Check(h) ==
    /\ At(h, "check")
    /\ Goto(h, [req[h] EXCEPT !.pc = IF MustLoad THEN "lock" ELSE "ptr",
                              !.since = IF reloadCatalog THEN @ ELSE 0])
    /\ UNCHANGED <<file, image, cat, mem, mutex, reloadCatalog, up, loads>>

\* Arrays somebody still refers to; the others are garbage.
Live == {cat.array} \cup {req[h].slice.array : h \in Handlers}
          \cup {req[h].new.array : h \in Handlers}

\* parseCatalog returns an empty slice when readCatalogFile reports an error.
FailedLoad(r) == [r EXCEPT !.pc = "use", !.slice = NilSlice, !.ver = 0,
                           !.new = NilSlice, !.k = 0]

\* Mutant: no mutex.
MutexFreeOrNot == TRUE

MutexFree == mutex = Nobody

\* Lock, read the file, and find out whether it is JSON; the decoder then
\* makes the new array (bound: one of Arrays is free).
LockAndRead(h) ==
    /\ At(h, "lock")
    /\ MutexFree
    /\ Versions[file].form # "missing"
    /\ loads' = TRUE
    /\ IF Versions[file].form = "syntax"
         THEN Goto(h, FailedLoad(req[h])) /\ UNCHANGED <<mem, mutex>>
         ELSE /\ Arrays \ Live # {}
              /\ \E a \in {CHOOSE x \in Arrays : x \notin Live} :
                   /\ mutex' = h
                   /\ mem' = [x \in Arrays |->
                                IF x = a THEN [i \in 1 .. Size(file) |-> NoElem]
                                ELSE IF x \in Live THEN mem[x] ELSE <<>>]
                   /\ Goto(h, [req[h] EXCEPT !.pc = "set", !.ver = file,
                                             !.new = Slice(a, Size(file))])
    /\ UNCHANGED <<file, image, cat, reloadCatalog, up>>

\* log.Fatalf when the file cannot be opened.
ReadMissing(h) ==
    /\ At(h, "lock")
    /\ MutexFree
    /\ Versions[file].form = "missing"
    /\ loads' = TRUE
    /\ Crash
    /\ UNCHANGED <<file, image>>

\* The two words of the slice header are stored in either order.
StoreFirst(h) ==
    /\ At(h, "set")
    /\ \/ cat' = [cat EXCEPT !.array = req[h].new.array]
          /\ Goto(h, [req[h] EXCEPT !.pc = "setLen"])
       \/ cat' = [cat EXCEPT !.len = req[h].new.len]
          /\ Goto(h, [req[h] EXCEPT !.pc = "setArray"])
    /\ UNCHANGED <<file, image, mem, mutex, reloadCatalog, up, loads>>

StoreSecond(h) ==
    /\ \/ At(h, "setLen") /\ cat' = [cat EXCEPT !.len = req[h].new.len]
       \/ At(h, "setArray") /\ cat' = [cat EXCEPT !.array = req[h].new.array]
    /\ Goto(h, [req[h] EXCEPT !.pc = "new", !.new = NilSlice, !.k = 1])
    /\ UNCHANGED <<file, image, mem, mutex, reloadCatalog, up, loads>>

SetElem(k, e) == mem' = [mem EXCEPT ![cat.array][k] = e]

\* Allocate element k of the slice; after the last one unlock and return.
NewElem(h) ==
    /\ At(h, "new")
    /\ IF req[h].k <= Size(req[h].ver)
         THEN /\ SetElem(req[h].k, Elem(req[h].ver, FALSE))
              /\ Goto(h, [req[h] EXCEPT !.pc = "fill"])
              /\ UNCHANGED mutex
         ELSE /\ mutex' = Nobody
              /\ Goto(h, [req[h] EXCEPT !.pc = "ptr", !.ver = 0, !.k = 0])
              /\ UNCHANGED mem
    /\ UNCHANGED <<file, image, cat, reloadCatalog, up, loads>>

\* Decode its fields; at an error unlock and return it.
FillElem(h) ==
    /\ At(h, "fill")
    /\ IF req[h].k <= Versions[req[h].ver].good
         THEN /\ SetElem(req[h].k, Elem(req[h].ver, TRUE))
              /\ Goto(h, [req[h] EXCEPT !.pc = "new", !.k = @ + 1])
              /\ UNCHANGED mutex
         ELSE /\ mutex' = Nobody
              /\ Goto(h, FailedLoad(req[h]))
              /\ UNCHANGED mem
    /\ UNCHANGED <<file, image, cat, reloadCatalog, up, loads>>

\* return cat.Products
ReturnProducts(h) ==
    /\ At(h, "ptr")
    /\ Goto(h, [req[h] EXCEPT !.pc = "use", !.slice = cat])
    /\ UNCHANGED <<file, image, cat, mem, mutex, reloadCatalog, up, loads>>

-----------------------------------------------------------------------------
(***************************************************************************)
(* What a request does with the slice that parseCatalog returned.  Indices *)
(* beyond its length panic, as does reading the id of a nil product; what  *)
(* a torn slice has behind its array is either a panic or no match.        *)
(***************************************************************************)
Using(h, site) == At(h, "use") /\ req[h].site = site
Reading(h) == Using(h, "id") \/ (Using(h, "all") /\ req[h].kind = "search")

InSlice(r) == r.i <= r.slice.len
ArrayLen(r) == IF r.slice.array = NoArray THEN 0 ELSE Len(mem[r.slice.array])
InArray(r) == r.i <= ArrayLen(r)
ElemOf(r) == IF InArray(r) THEN mem[r.slice.array][r.i] ELSE NoElem
Product(v, i) == [of |-> v, id |-> Id(v, i)]
Here(r) == IF ElemOf(r) = NoElem THEN {} ELSE {Product(ElemOf(r).of, r.i)}

\* A product being decoded may or may not have its id yet.
MayMatch(r) == ElemOf(r) # NoElem /\ Id(ElemOf(r).of, r.i) = r.want
MayDiffer(r) == ~InArray(r) \/ (ElemOf(r) # NoElem /\ ~(ElemOf(r).whole /\ MayMatch(r)))

Panic(h) ==
    /\ \/ (Using(h, "id") \/ Using(h, "take")) /\ ~InSlice(req[h])
       \/ Reading(h) /\ InSlice(req[h]) /\ ElemOf(req[h]) = NoElem
       \/ Using(h, "take") /\ InSlice(req[h]) /\ ~InArray(req[h])
       \/ /\ Using(h, "all") /\ req[h].kind = "list"
          /\ req[h].slice.len > ArrayLen(req[h])
    /\ Crash
    /\ UNCHANGED <<file, image, loads>>

Next1(r) == [r EXCEPT !.i = @ + 1]

HandlerStep(h, r) ==
    Goto(h, r) /\ UNCHANGED <<file, image, cat, mem, mutex, reloadCatalog, up, loads>>

Done(r) == [r EXCEPT !.pc = "reply", !.i = 1, !.slice = NilSlice]

\* Mutant: the loop stops one short of the end.
CountLoopShort(h) ==
    /\ Using(h, "count")
    /\ HandlerStep(h, IF req[h].i < req[h].slice.len THEN Calling(req[h], "id") ELSE Done(req[h]))

\* Mutant: the loop goes one past the end.
CountLoopPast(h) ==
    /\ Using(h, "count")
    /\ HandlerStep(h, IF req[h].i <= req[h].slice.len + 1
                        THEN Calling(req[h], "id") ELSE Done(req[h]))

\* GetProduct: for i := 0; i < len(parseCatalog()); i++
CountLoop(h) ==
    /\ Using(h, "count")
    /\ HandlerStep(h, IF InSlice(req[h]) THEN Calling(req[h], "id") ELSE Done(req[h]))

\* req.Id == parseCatalog()[i].Id
CompareId(h) ==
    /\ Using(h, "id")
    /\ InSlice(req[h])
    /\ \/ MayMatch(req[h]) /\ HandlerStep(h, Calling(req[h], "take"))
       \/ MayDiffer(req[h]) /\ HandlerStep(h, Calling(Next1(req[h]), "count"))

\* found = parseCatalog()[i], which may be another product than the one
\* compared, or nil.
TakeProduct(h) ==
    /\ Using(h, "take")
    /\ InSlice(req[h])
    /\ HandlerStep(h, Calling([Next1(req[h]) EXCEPT !.refs = Here(req[h])], "count"))

\* The whole slice; a nil product in it makes the answer an error.
WholeSlice(r) == UNION {Here([r EXCEPT !.i = k]) : k \in 1 .. r.slice.len}

ListProducts(h) ==
    /\ Using(h, "all")
    /\ req[h].kind = "list"
    /\ HandlerStep(h, Done([req[h] EXCEPT !.refs = WholeSlice(req[h])]))

\* SearchProducts goes through the slice of a single call.
SearchNext(h) ==
    /\ Using(h, "all")
    /\ req[h].kind = "search"
    /\ \/ ~InSlice(req[h]) /\ HandlerStep(h, Done(req[h]))
       \/ /\ InSlice(req[h]) /\ MayMatch(req[h])
          /\ HandlerStep(h, [Next1(req[h]) EXCEPT !.refs = @ \cup Here(req[h])])
       \/ InSlice(req[h]) /\ MayDiffer(req[h]) /\ HandlerStep(h, Next1(req[h]))

\* The answer is sent: the products found, NotFound when GetProduct found
\* none, or an error.
Reply(h) == At(h, "reply") /\ HandlerStep(h, Idle)

Load(h) == LockAndRead(h) \/ ReadMissing(h)

Step(h) ==
    \/ Check(h) \/ StoreFirst(h) \/ StoreSecond(h) \/ NewElem(h) \/ FillElem(h)
    \/ ReturnProducts(h) \/ Panic(h) \/ CountLoop(h) \/ CompareId(h)
    \/ TakeProduct(h) \/ ListProducts(h) \/ SearchNext(h) \/ Reply(h)

Next ==
    \/ EditFile \/ ReceiveSignal \/ Restart
    \/ \E h \in Handlers : Begin(h) \/ Load(h) \/ Step(h)

Spec == Init /\ [][Next]_vars

-----------------------------------------------------------------------------
(***************************************************************************)
(* Properties.                                                             *)
(***************************************************************************)
Loading == {h \in Handlers : req[h].pc \in {"set", "setLen", "setArray", "new", "fill"}}

\* While no request is decoding, the shared catalog is one version of the
\* file, as far as that version decodes: readCatalogFile never leaves a
\* mixture of two versions, or the length of one with the array of the other,
\* and neither it nor one of its error paths leaves catalogMutex locked.
SettledIsOneVersion ==
    up /\ Loading = {} =>
      /\ mutex = Nobody
      /\ \/ cat = NilSlice
         \/ \E v \in Files : cat.len = Size(v) /\ mem[cat.array] = Decoded(v)

Replying(h) == At(h, "reply")
Ids(v) == {Id(v, i) : i \in 1 .. Size(v)}
Found(r) == {x.id : x \in r.refs}

\* With reloading on, no answer has a product of a version of the file older
\* than the one in place when the request arrived: edits are picked up at
\* once, whatever other requests load at the same time.
EditsPickedUp ==
    \A h \in Handlers :
      Replying(h) => \A x \in req[h].refs : x.of >= req[h].since

\* As long as no request has read the file, answers are exact: all products of
\* the start-up version, or those of it that were asked for (parseCatalog
\* without a reload, under any number of concurrent requests).
ExactUntilReload ==
    \A h \in Handlers :
      Replying(h) /\ ~loads /\ Versions[image].form = "json"
                  /\ Versions[image].good = Size(image) =>
        Found(req[h]) = IF req[h].kind = "list" THEN Ids(image)
                        ELSE Ids(image) \cap {req[h].want}

\* The process goes down only after a request has read the file, or when the
\* version in the image does not decode to its end: a panic needs a nil
\* product, an index out of range or a missing file.
DownOnlyAfterLoad ==
    [][up /\ ~up' =>
         \/ loads'
         \/ Versions[image].form = "json" /\ Versions[image].good < Size(image)]_vars

\* README.md of the service: changes of products.json are picked up "without
\* having to restart the service".  Picking them up does not bring it down.
NoRestartNeeded == loads => up
=============================================================================
