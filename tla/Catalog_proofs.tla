---------------------------- MODULE Catalog_proofs ----------------------------
(***************************************************************************)
(* The safety properties of Catalog, for any handlers, versions of the     *)
(* file and requests.                                                      *)
(***************************************************************************)
EXTENDS Catalog, TLAPS

LoadPcs == {"set", "setLen", "setArray", "new", "fill"}
CallPcs == {"check", "lock", "ptr", "use"}

Slices  == [array : Arrays \cup {NoArray}, len : Nat]
Element == [of : Nat, whole : BOOLEAN]
Refs    == {Product(v, i) : v \in Nat, i \in Nat}

Request ==
    [pc : {"idle", "reply"} \cup CallPcs \cup LoadPcs, kind : Kinds \cup {"none"},
     site : {"none", "all", "count", "id", "take"}, want : Wanted \cup {"none"},
     i : Nat \ {0}, slice : Slices, ver : Nat, new : Slices, k : Nat, refs : SUBSET Refs,
     since : Nat]

TypeInv ==
    /\ file \in Files /\ image \in Files /\ Versions[image].form # "missing"
    /\ cat \in Slices
    /\ mem \in [Arrays -> Seq(Element)]
    /\ mutex \in Handlers \cup {Nobody}
    /\ reloadCatalog \in BOOLEAN /\ up \in BOOLEAN /\ loads \in BOOLEAN
    /\ req \in [Handlers -> Request]

-----------------------------------------------------------------------------
(***************************************************************************)
(* The mutex is held by the one request that loads, and the array that     *)
(* request fills has, element by element, what has been decoded so far.    *)
(***************************************************************************)
Down == ~up => mutex = Nobody /\ \A h \in Handlers : req[h] = Idle

MutexInv == \A h \in Handlers : req[h].pc \in LoadPcs <=> mutex = h

\* Before element k, and with element k allocated.
Upto(v, k) == [i \in 1 .. Size(v) |-> IF i < k THEN Elem(v, TRUE) ELSE NoElem]
Into(v, k) == [i \in 1 .. Size(v) |-> IF i < k THEN Elem(v, TRUE)
                                      ELSE IF i = k THEN Elem(v, FALSE) ELSE NoElem]

Settled ==
    \/ cat = NilSlice
    \/ cat.array \in Arrays /\ \E v \in Files : cat.len = Size(v) /\ mem[cat.array] = Decoded(v)

LoadInv(r) ==
    /\ r.pc \in LoadPcs => r.ver \in Files
    /\ r.pc \in {"set", "setLen"} => r.new.len = Size(r.ver)
    /\ r.pc \in {"set", "setArray"} =>
          r.new.array \in Arrays /\ mem[r.new.array] = Upto(r.ver, 1)
    /\ r.pc = "setLen" => cat.array \in Arrays /\ mem[cat.array] = Upto(r.ver, 1)
    /\ r.pc = "setArray" => cat.len = Size(r.ver)
    /\ r.pc \in {"new", "fill"} =>
          cat.len = Size(r.ver) /\ cat.array \in Arrays /\ r.k \in 1 .. Versions[r.ver].good + 1
    /\ r.pc = "new" => mem[cat.array] = Upto(r.ver, r.k)
    /\ r.pc = "fill" => r.k <= Size(r.ver) /\ mem[cat.array] = Into(r.ver, r.k)

DecodeInv ==
    /\ \A h \in Handlers : LoadInv(req[h])
    /\ mutex = Nobody => Settled

SettledInv == Down /\ MutexInv /\ DecodeInv

-----------------------------------------------------------------------------
(***************************************************************************)
(* Whatever a request sees through the slices it gets is of the version    *)
(* that was on file when it began or of a later one: it has waited for the *)
(* mutex itself (or `since' is 0), and later holders read a later file.    *)
(***************************************************************************)
Fresh(n, a) ==
    a \in Arrays => \A i \in DOMAIN mem[a] : mem[a][i] # NoElem => mem[a][i].of >= n

LoadersFrom(n) == \A g \in Handlers : req[g].pc \in LoadPcs => req[g].ver >= n

\* The request looks at what parseCatalog has returned, or is about to.
Sees(r) == r.pc = "ptr" \/ r.slice.array \in Arrays

FreshReq(r) ==
    /\ r.since <= file
    /\ \A x \in r.refs : x.of >= r.since
    /\ Fresh(r.since, r.slice.array)
    /\ r.pc = "ptr" => Fresh(r.since, cat.array)
    /\ r.pc \in LoadPcs => r.ver >= r.since
    /\ r.pc # "use" => r.slice = NilSlice
    /\ Sees(r) => LoadersFrom(r.since)

FreshInv == \A h \in Handlers : FreshReq(req[h])

-----------------------------------------------------------------------------
(***************************************************************************)
(* Until a request reads the file, the catalog is what init() has parsed,  *)
(* and a request knows of the products it has passed which were wanted.    *)
(***************************************************************************)
Whole == Versions[image].form = "json" /\ Versions[image].good = Size(image)

FoundBefore(r) == {Id(image, j) : j \in {n \in 1 .. Size(image) : n < r.i}} \cap {r.want}
Exact(r) == IF r.kind = "list" THEN Ids(image) ELSE Ids(image) \cap {r.want}

Progress(r) ==
    /\ r.pc = "reply" => Found(r) = Exact(r)
    /\ r.pc \in CallPcs =>
         /\ \/ r.kind = "get" /\ r.site \in {"count", "id", "take"}
            \/ r.kind \in {"list", "search"} /\ r.site = "all"
         /\ r.site \in {"id", "take"} => r.i <= Size(image)
         /\ r.site = "take" => Id(image, r.i) = r.want
         /\ r.kind # "list" /\ r.site # "take" => Found(r) = FoundBefore(r)

Parsed ==
    IF Versions[image].form = "json"
      THEN cat.len = Size(image) /\ cat.array \in Arrays /\ mem[cat.array] = Decoded(image)
      ELSE cat = NilSlice

ExactInv ==
    up /\ ~loads =>
        /\ Parsed
        /\ \A h \in Handlers :
             /\ req[h].pc \notin LoadPcs
             /\ req[h].pc \in {"ptr", "use"} => Versions[image].form = "json"
             /\ req[h].pc = "use" => req[h].slice = cat
             /\ Whole => Progress(req[h])

-----------------------------------------------------------------------------
LEMMA VersionFacts ==
    ASSUME NEW v \in Files
    PROVE  /\ v \in Nat /\ v > 0 /\ Size(v) \in Nat
           /\ Versions[v].form \in Forms
           /\ Versions[v].good \in Nat /\ Versions[v].good <= Size(v)
BY CatalogAssumption DEF Files, Size

\* A sequence given by its elements.
LEMMA SeqOf ==
    ASSUME NEW n \in Nat, NEW S, NEW f \in [1 .. n -> S]
    PROVE  f \in Seq(S) /\ Len(f) = n /\ DOMAIN f = 1 .. n
OBVIOUS

LEMMA SeqElement ==
    ASSUME NEW S, NEW s \in Seq(S), NEW n \in DOMAIN s
    PROVE  s[n] \in S
OBVIOUS

LEMMA ElementSeqs ==
    ASSUME NEW v \in Files, NEW k \in Nat
    PROVE  /\ Decoded(v) \in Seq(Element) /\ Upto(v, k) \in Seq(Element)
           /\ Into(v, k) \in Seq(Element) /\ <<>> \in Seq(Element)
           /\ Len(Decoded(v)) = Size(v) /\ Len(Upto(v, k)) = Size(v) /\ Len(Into(v, k)) = Size(v)
           /\ Upto(v, 1) = [i \in 1 .. Size(v) |-> NoElem]
<1>1. v \in Nat /\ Size(v) \in Nat
    BY VersionFacts
<1>2. /\ Decoded(v) \in [1 .. Size(v) -> Element] /\ Upto(v, k) \in [1 .. Size(v) -> Element]
      /\ Into(v, k) \in [1 .. Size(v) -> Element]
    BY <1>1 DEF Decoded, Upto, Into, Elem, NoElem, Element
<1>3. \A i \in 1 .. Size(v) : ~(i < 1)
    BY <1>1
<1>4. Upto(v, 1) = [i \in 1 .. Size(v) |-> NoElem]
    BY <1>3 DEF Upto
<1>5. /\ Decoded(v) \in Seq(Element) /\ Len(Decoded(v)) = Size(v)
      /\ Upto(v, k) \in Seq(Element) /\ Len(Upto(v, k)) = Size(v)
      /\ Into(v, k) \in Seq(Element) /\ Len(Into(v, k)) = Size(v)
    <2>1. \A f \in [1 .. Size(v) -> Element] : f \in Seq(Element) /\ Len(f) = Size(v)
        BY <1>1, SeqOf
    <2> QED BY <1>2, <2>1
<1> QED BY <1>4, <1>5

\* Allocating and filling an element.
LEMMA ElementSteps ==
    ASSUME NEW v \in Files, NEW k \in Nat \ {0}
    PROVE  /\ k <= Size(v) => [Upto(v, k) EXCEPT ![k] = Elem(v, FALSE)] = Into(v, k)
           /\ k <= Size(v) => [Into(v, k) EXCEPT ![k] = Elem(v, TRUE)] = Upto(v, k + 1)
           /\ k > Size(v) /\ k <= Versions[v].good + 1 => Upto(v, k) = Decoded(v)
           /\ k = Versions[v].good + 1 => Into(v, k) = Decoded(v)
<1>1. Size(v) \in Nat /\ Versions[v].good \in Nat /\ Versions[v].good <= Size(v)
    BY VersionFacts
<1>2. ASSUME NEW f, NEW e, NEW S, f = [i \in S |-> f[i]]
      PROVE  [f EXCEPT ![k] = e] = [i \in S |-> IF i = k THEN e ELSE f[i]]
    BY <1>2
<1>3. ASSUME k <= Size(v) PROVE [Upto(v, k) EXCEPT ![k] = Elem(v, FALSE)] = Into(v, k)
    <2>1. \A i \in 1 .. Size(v) : (IF i = k THEN Elem(v, FALSE) ELSE Upto(v, k)[i]) = Into(v, k)[i]
        BY <1>1 DEF Upto, Into, Elem, NoElem
    <2> QED BY <2>1 DEF Upto, Into
<1>4. ASSUME k <= Size(v) PROVE [Into(v, k) EXCEPT ![k] = Elem(v, TRUE)] = Upto(v, k + 1)
    <2>1. \A i \in 1 .. Size(v) : (IF i = k THEN Elem(v, TRUE) ELSE Into(v, k)[i]) = Upto(v, k + 1)[i]
        BY <1>1 DEF Upto, Into, Elem, NoElem
    <2> QED BY <2>1 DEF Upto, Into
<1>5. ASSUME k > Size(v), k <= Versions[v].good + 1 PROVE Upto(v, k) = Decoded(v)
    <2>1. \A i \in 1 .. Size(v) : i < k /\ i <= Versions[v].good
        BY <1>1, <1>5
    <2> QED BY <2>1 DEF Upto, Decoded
<1>6. ASSUME k = Versions[v].good + 1 PROVE Into(v, k) = Decoded(v)
    <2>1. \A i \in 1 .. Size(v) : (i < k <=> i <= Versions[v].good)
                                   /\ (i = k <=> i = Versions[v].good + 1)
        BY <1>1, <1>6
    <2> QED BY <2>1 DEF Into, Decoded
<1> QED BY <1>3, <1>4, <1>5, <1>6

\* The products an array of version v shows are of version v.
LEMMA FreshSeqs ==
    ASSUME NEW v \in Files, NEW k \in Nat, NEW since \in Nat, since <= v,
           NEW s \in {Upto(v, k), Into(v, k), Decoded(v)}, NEW i \in DOMAIN s, s[i] # NoElem
    PROVE  s[i].of >= since
BY VersionFacts DEF Upto, Into, Decoded, Elem, NoElem

LEMMA IdleType == Idle \in Request
BY DEF Idle, Request, NilSlice, Slice, Slices

\* A request is in one place at a time.
LEMMA GotoFacts ==
    ASSUME req \in [Handlers -> Request], NEW h \in Handlers, NEW r, Goto(h, r)
    PROVE  req'[h] = r /\ \A g \in Handlers : g # h => req'[g] = req[g]
BY DEF Goto

\* What a request sees of the element it is at.
LEMMA HereFacts ==
    ASSUME TypeInv, NEW r, r.slice \in Slices, r.i \in Nat \ {0}
    PROVE  /\ \A p \in Here(r) : p \in Refs
           /\ NoArray \notin Arrays
           /\ ElemOf(r) # NoElem => r.slice.array \in Arrays /\ r.i \in DOMAIN mem[r.slice.array]
                                   /\ ElemOf(r) = mem[r.slice.array][r.i]
<1>1. r.slice.array \in Arrays =>
        DOMAIN mem[r.slice.array] = 1 .. Len(mem[r.slice.array]) /\ Len(mem[r.slice.array]) \in Nat
    BY DEF TypeInv
<1>2. r.slice.array \in Arrays \cup {NoArray} /\ NoArray \notin Arrays
    BY CatalogAssumption DEF Slices
<1>3. ElemOf(r) # NoElem => r.slice.array \in Arrays /\ r.i \in DOMAIN mem[r.slice.array]
                             /\ ElemOf(r) = mem[r.slice.array][r.i]
    BY <1>1, <1>2 DEF ElemOf, InArray, ArrayLen
<1>4. ElemOf(r) # NoElem => ElemOf(r).of \in Nat
    <2>1. ASSUME NEW s \in Seq(Element), NEW n \in DOMAIN s PROVE s[n].of \in Nat
        <3>1. s[n] \in Element
            BY <2>1, SeqElement
        <3> QED BY <3>1 DEF Element
    <2> QED BY <1>3, <2>1 DEF TypeInv
<1>5. ElemOf(r) # NoElem => Product(ElemOf(r).of, r.i) \in Refs
    BY <1>4 DEF Refs
<1>6. \A p \in Here(r) : p \in Refs
    BY <1>5 DEF Here
<1> QED BY <1>2, <1>3, <1>6

-----------------------------------------------------------------------------
(***************************************************************************)
(* Type correctness.                                                       *)
(***************************************************************************)
LEMMA NoMemory ==
    /\ [a \in Arrays |-> <<>>] \in [Arrays -> Seq(Element)]
    /\ [h \in Handlers |-> Idle] \in [Handlers -> Request]
    /\ NilSlice \in Slices
<1>1. <<>> \in Seq(Element)
    OBVIOUS
<1> DEFINE nothing == <<>>
<1>2. nothing \in Seq(Element)
    BY <1>1
<1> HIDE DEF nothing
<1>3. [a \in Arrays |-> nothing] \in [Arrays -> Seq(Element)]
    BY <1>2
<1> QED BY <1>3, IdleType DEF nothing, NilSlice, Slice, Slices

LEMMA InitTypeInv == Init => TypeInv
BY NoMemory DEF Init, TypeInv

\* Start, Crash and what they do to the memory.
LEMMA StartType ==
    ASSUME TypeInv, Start
    PROVE  TypeInv'
<1>1. image \in Files /\ (CHOOSE a \in Arrays : TRUE) \in Arrays
    BY CatalogAssumption DEF TypeInv
<1> DEFINE a == CHOOSE x \in Arrays : TRUE
<1>2. ReadFile(image, a) /\ a \in Arrays
    BY <1>1 DEF Start
<1> HIDE DEF a
<1>3. cat' \in Slices
    BY <1>1, <1>2, VersionFacts DEF ReadFile, Slices, NilSlice, Slice
<1>4. mem' \in [Arrays -> Seq(Element)]
    <2>1. Decoded(image) \in Seq(Element) /\ <<>> \in Seq(Element)
        BY <1>1, ElementSeqs
    <2> QED BY <1>2, <2>1 DEF ReadFile
<1> QED BY <1>1, <1>3, <1>4 DEF Start, TypeInv

LEMMA CrashType ==
    ASSUME TypeInv, Crash, UNCHANGED <<file, image>>, loads' \in BOOLEAN
    PROVE  TypeInv'
BY NoMemory DEF Crash, TypeInv

\* A step that leaves memory and catalog alone and moves one request on.
LEMMA MoveType ==
    ASSUME TypeInv, NEW h \in Handlers, NEW r \in Request, HandlerStep(h, r)
    PROVE  TypeInv'
BY DEF TypeInv, HandlerStep, Goto

LEMMA CallingType ==
    ASSUME NEW r \in Request, NEW site \in {"all", "count", "id", "take"}
    PROVE  Calling(r, site) \in Request /\ Done(r) \in Request /\ Next1(r) \in Request
<1>1. NilSlice \in Slices
    BY NoMemory
<1>2. Calling(r, site) \in Request
    BY <1>1 DEF Calling, Request, CallPcs
<1>3. Done(r) \in Request
    <2>1. 1 \in Nat \ {0} /\ "reply" \in {"idle", "reply"} \cup CallPcs \cup LoadPcs
        OBVIOUS
    <2> QED BY <1>1, <2>1 DEF Done, Request
<1>4. Next1(r) \in Request
    <2>1. r.i + 1 \in Nat \ {0}
        BY DEF Request
    <2> QED BY <2>1 DEF Next1, Request
<1> QED BY <1>2, <1>3, <1>4

\* The steps of a request that are HandlerSteps.
Moves(h) ==
    \/ Begin(h) \/ Check(h) \/ ReturnProducts(h) \/ CountLoop(h) \/ CompareId(h)
    \/ TakeProduct(h) \/ ListProducts(h) \/ SearchNext(h) \/ Reply(h)

LEMMA WholeSliceType ==
    ASSUME TypeInv, NEW h \in Handlers
    PROVE  WholeSlice(req[h]) \in SUBSET Refs /\ Here(req[h]) \in SUBSET Refs
<1>1. req[h] \in Request /\ req[h].slice.len \in Nat
    BY DEF TypeInv, Request, Slices
<1>2. ASSUME NEW k \in 1 .. req[h].slice.len
      PROVE  \A p \in Here([req[h] EXCEPT !.i = k]) : p \in Refs
    <2> DEFINE r == [req[h] EXCEPT !.i = k]
    <2>1. r.slice \in Slices /\ r.i \in Nat \ {0}
        BY <1>1 DEF Request
    <2> HIDE DEF r
    <2>2. \A p \in Here(r) : p \in Refs
        BY <2>1, HereFacts
    <2> QED BY <2>2 DEF r
<1>3. \A p \in Here(req[h]) : p \in Refs
    BY <1>1, HereFacts DEF Request
<1>4. \A p \in WholeSlice(req[h]) : p \in Refs
    BY <1>2 DEF WholeSlice
<1> QED BY <1>3, <1>4

LEMMA MovesType ==
    ASSUME TypeInv, NEW h \in Handlers, Moves(h)
    PROVE  TypeInv'
<1>0. req[h] \in Request /\ file \in Nat /\ cat \in Slices
    BY VersionFacts DEF TypeInv
<1>1. CASE Begin(h)
    <2>1. PICK kind \in Kinds, w \in Wanted :
            Goto(h, Calling([Idle EXCEPT !.kind = kind, !.want = w, !.since = file],
                            IF kind = "get" THEN "count" ELSE "all"))
        BY <1>1 DEF Begin
    <2>2. [Idle EXCEPT !.kind = kind, !.want = w, !.since = file] \in Request
        BY <1>0, IdleType DEF Request
    <2> DEFINE r == [Idle EXCEPT !.kind = kind, !.want = w, !.since = file]
               site == IF kind = "get" THEN "count" ELSE "all"
    <2> HIDE DEF r
    <2>3. r \in Request /\ site \in {"all", "count", "id", "take"} /\ Goto(h, Calling(r, site))
        BY <2>1, <2>2 DEF r
    <2>4. Calling(r, site) \in Request
        BY <2>3, CallingType
    <2> QED BY <1>1, <2>3, <2>4, MoveType DEF Begin, HandlerStep
<1>2. CASE Check(h)
    <2>1. [req[h] EXCEPT !.pc = IF MustLoad THEN "lock" ELSE "ptr",
                         !.since = IF reloadCatalog THEN @ ELSE 0] \in Request
        BY <1>0 DEF Request, CallPcs
    <2> QED BY <1>2, <2>1, MoveType DEF Check, HandlerStep
<1>3. CASE ReturnProducts(h)
    <2>1. [req[h] EXCEPT !.pc = "use", !.slice = cat] \in Request
        BY <1>0 DEF Request, CallPcs
    <2> QED BY <1>3, <2>1, MoveType DEF ReturnProducts, HandlerStep
<1>4. CASE CountLoop(h)
    BY <1>0, <1>4, CallingType, MoveType DEF CountLoop
<1>5. CASE CompareId(h)
    <2>1. Calling(req[h], "take") \in Request /\ Calling(Next1(req[h]), "count") \in Request
        BY <1>0, CallingType
    <2> QED BY <1>5, <2>1, MoveType DEF CompareId
<1>6. CASE TakeProduct(h)
    <2>1. Next1(req[h]) \in Request
        BY <1>0, CallingType
    <2>2. [Next1(req[h]) EXCEPT !.refs = Here(req[h])] \in Request
        BY <2>1, WholeSliceType DEF Request
    <2> QED BY <1>6, <2>2, CallingType, MoveType DEF TakeProduct
<1>7. CASE ListProducts(h)
    <2>1. [req[h] EXCEPT !.refs = WholeSlice(req[h])] \in Request
        BY <1>0, WholeSliceType DEF Request
    <2> QED BY <1>7, <2>1, CallingType, MoveType DEF ListProducts
<1>8. CASE SearchNext(h)
    <2>1. Next1(req[h]) \in Request /\ Done(req[h]) \in Request
        BY <1>0, CallingType
    <2>2. [Next1(req[h]) EXCEPT !.refs = @ \cup Here(req[h])] \in Request
        BY <2>1, WholeSliceType DEF Request
    <2> QED BY <1>8, <2>1, <2>2, MoveType DEF SearchNext
<1>9. CASE Reply(h)
    BY <1>9, IdleType, MoveType DEF Reply
<1> QED BY <1>1, <1>2, <1>3, <1>4, <1>5, <1>6, <1>7, <1>8, <1>9 DEF Moves

\* The array that a load takes was not in use.
LEMMA FreeArray ==
    ASSUME Arrays \ Live # {}, NEW a \in {CHOOSE x \in Arrays : x \notin Live}
    PROVE  a \in Arrays /\ a \notin Live
<1>1. \E x \in Arrays : x \notin Live
    OBVIOUS
<1> QED BY <1>1

LEMMA LoadsType ==
    ASSUME TypeInv, NEW h \in Handlers,
           LockAndRead(h) \/ StoreFirst(h) \/ StoreSecond(h)
    PROVE  TypeInv'
<1>0. req[h] \in Request /\ file \in Files /\ file \in Nat /\ Size(file) \in Nat /\ cat \in Slices
    BY VersionFacts DEF TypeInv
<1>1. ASSUME NEW r \in Request, Goto(h, r) PROVE req' \in [Handlers -> Request]
    BY <1>1 DEF TypeInv, Goto
<1>2. CASE LockAndRead(h)
    <2>0. UNCHANGED <<file, image, cat, reloadCatalog, up>> /\ loads' = TRUE
        BY <1>2 DEF LockAndRead
    <2>1. CASE Versions[file].form = "syntax"
        <3>1. FailedLoad(req[h]) \in Request
            BY <1>0 DEF FailedLoad, Request, CallPcs, NilSlice, Slice, Slices
        <3>2. UNCHANGED <<mem, mutex>> /\ req' \in [Handlers -> Request]
            BY <1>1, <1>2, <2>1, <3>1 DEF LockAndRead
        <3> QED BY <2>0, <3>2 DEF TypeInv
    <2>2. CASE Versions[file].form # "syntax"
        <3>1. PICK a \in {CHOOSE x \in Arrays : x \notin Live} :
                /\ Arrays \ Live # {} /\ mutex' = h
                /\ mem' = [x \in Arrays |-> IF x = a THEN [i \in 1 .. Size(file) |-> NoElem]
                                            ELSE IF x \in Live THEN mem[x] ELSE <<>>]
                /\ Goto(h, [req[h] EXCEPT !.pc = "set", !.ver = file,
                                          !.new = Slice(a, Size(file))])
            BY <1>2, <2>2 DEF LockAndRead
        <3>2. a \in Arrays
            BY <3>1, FreeArray
        <3>3. [req[h] EXCEPT !.pc = "set", !.ver = file, !.new = Slice(a, Size(file))] \in Request
            BY <1>0, <3>2 DEF Request, LoadPcs, Slice, Slices
        <3>4. req' \in [Handlers -> Request]
            BY <1>1, <3>1, <3>3
        <3>5. mem' \in [Arrays -> Seq(Element)]
            <4>1. [i \in 1 .. Size(file) |-> NoElem] \in Seq(Element) /\ <<>> \in Seq(Element)
                <5>1. Upto(file, 1) \in Seq(Element) /\ <<>> \in Seq(Element)
                      /\ Upto(file, 1) = [i \in 1 .. Size(file) |-> NoElem]
                    BY <1>0, ElementSeqs
                <5> QED BY <5>1
            <4> DEFINE blank == [i \in 1 .. Size(file) |-> NoElem]
            <4> HIDE DEF blank
            <4>2. mem' = [x \in Arrays |-> IF x = a THEN blank ELSE IF x \in Live THEN mem[x] ELSE <<>>]
                  /\ blank \in Seq(Element)
                BY <3>1, <4>1 DEF blank
            <4> QED BY <4>1, <4>2 DEF TypeInv
        <3> QED BY <2>0, <3>1, <3>4, <3>5 DEF TypeInv
    <2> QED BY <2>1, <2>2
<1>3. CASE StoreFirst(h)
    <2>1. /\ [req[h] EXCEPT !.pc = "setLen"] \in Request
          /\ [req[h] EXCEPT !.pc = "setArray"] \in Request
          /\ [cat EXCEPT !.array = req[h].new.array] \in Slices
          /\ [cat EXCEPT !.len = req[h].new.len] \in Slices
        BY <1>0 DEF Request, LoadPcs, Slices
    <2>2. req' \in [Handlers -> Request] /\ cat' \in Slices
        BY <1>1, <1>3, <2>1 DEF StoreFirst
    <2> QED BY <1>3, <2>2 DEF StoreFirst, TypeInv
<1>4. CASE StoreSecond(h)
    <2>1. /\ [req[h] EXCEPT !.pc = "new", !.new = NilSlice, !.k = 1] \in Request
          /\ [cat EXCEPT !.array = req[h].new.array] \in Slices
          /\ [cat EXCEPT !.len = req[h].new.len] \in Slices
        BY <1>0 DEF Request, LoadPcs, Slices, NilSlice, Slice
    <2>2. req' \in [Handlers -> Request] /\ cat' \in Slices
        BY <1>1, <1>4, <2>1 DEF StoreSecond
    <2> QED BY <1>4, <2>2 DEF StoreSecond, TypeInv
<1> QED BY <1>2, <1>3, <1>4

\* A request that decodes, and the array it decodes into.
LEMMA Decoding ==
    ASSUME TypeInv, SettledInv, NEW h \in Handlers, NewElem(h) \/ FillElem(h)
    PROVE  LET v == req[h].ver  k == req[h].k  IN
           /\ up /\ mutex = h /\ v \in Files /\ k \in Nat \ {0}
           /\ cat.array \in Arrays /\ cat.len = Size(v)
           /\ \/ /\ k <= Size(v)
                 /\ mem' = [mem EXCEPT ![cat.array] = Into(v, k)]
                 /\ Goto(h, [req[h] EXCEPT !.pc = "fill"])
                 /\ req[h].pc = "new" /\ mutex' = mutex
              \/ /\ k <= Versions[v].good
                 /\ mem' = [mem EXCEPT ![cat.array] = Upto(v, k + 1)]
                 /\ Goto(h, [req[h] EXCEPT !.pc = "new", !.k = @ + 1])
                 /\ req[h].pc = "fill" /\ mutex' = mutex
              \/ /\ mem[cat.array] = Decoded(v)
                 /\ mem' = mem /\ mutex' = Nobody
                 /\ \/ Goto(h, [req[h] EXCEPT !.pc = "ptr", !.ver = 0, !.k = 0])
                    \/ Goto(h, FailedLoad(req[h]))
           /\ UNCHANGED <<file, image, cat, reloadCatalog, up, loads>>
<1> DEFINE v == req[h].ver
           k == req[h].k
<1>1. /\ LoadInv(req[h]) /\ req[h].pc \in {"new", "fill"} /\ up
      /\ UNCHANGED <<file, image, cat, reloadCatalog, up, loads>>
      /\ req[h].pc \in LoadPcs
    BY DEF SettledInv, DecodeInv, NewElem, FillElem, At, LoadPcs
<1>2. /\ mutex = h /\ v \in Files
      /\ cat.array \in Arrays /\ cat.len = Size(v) /\ k \in 1 .. Versions[v].good + 1
    BY <1>1 DEF SettledInv, MutexInv, LoadInv
<1>3. /\ k \in Nat \ {0} /\ k <= Versions[v].good + 1
      /\ Versions[v].good \in Nat /\ Size(v) \in Nat /\ Versions[v].good <= Size(v)
    BY <1>2, VersionFacts
<1>4. ASSUME NEW e PROVE SetElem(k, e) => mem' = [mem EXCEPT ![cat.array] = [mem[cat.array] EXCEPT ![k] = e]]
    BY DEF SetElem
<1> HIDE DEF v, k
<1>5. CASE NewElem(h)
    <2>1. mem[cat.array] = Upto(v, k) /\ req[h].pc = "new"
        BY <1>1, <1>5 DEF LoadInv, NewElem, At, v, k
    <2>2. CASE k <= Size(v)
        <3>1. /\ SetElem(k, Elem(v, FALSE)) /\ mutex' = mutex
              /\ Goto(h, [req[h] EXCEPT !.pc = "fill"])
            BY <1>5, <2>2 DEF NewElem, v, k
        <3>2. [mem[cat.array] EXCEPT ![k] = Elem(v, FALSE)] = Into(v, k)
            BY <1>2, <1>3, <2>1, <2>2, ElementSteps
        <3>3. mem' = [mem EXCEPT ![cat.array] = [mem[cat.array] EXCEPT ![k] = Elem(v, FALSE)]]
            BY <1>4, <3>1
        <3>4. mem' = [mem EXCEPT ![cat.array] = Into(v, k)]
            BY <3>2, <3>3
        <3> QED BY <1>1, <1>2, <1>3, <2>1, <2>2, <3>1, <3>4 DEF v, k
    <2>3. CASE ~(k <= Size(v))
        <3>1. /\ mutex' = Nobody /\ mem' = mem
              /\ Goto(h, [req[h] EXCEPT !.pc = "ptr", !.ver = 0, !.k = 0])
            BY <1>5, <2>3 DEF NewElem, v, k
        <3>2. k > Size(v)
            BY <1>3, <2>3
        <3>3. mem[cat.array] = Decoded(v)
            BY <1>2, <1>3, <2>1, <3>2, ElementSteps
        <3> QED BY <1>1, <1>2, <1>3, <3>1, <3>3 DEF v, k
    <2> QED BY <2>2, <2>3
<1>6. CASE FillElem(h)
    <2>1. mem[cat.array] = Into(v, k) /\ k <= Size(v) /\ req[h].pc = "fill"
        BY <1>1, <1>6 DEF LoadInv, FillElem, At, v, k
    <2>2. CASE k <= Versions[v].good
        <3>1. /\ SetElem(k, Elem(v, TRUE)) /\ mutex' = mutex
              /\ Goto(h, [req[h] EXCEPT !.pc = "new", !.k = @ + 1])
            BY <1>6, <2>2 DEF FillElem, v, k
        <3>2. [mem[cat.array] EXCEPT ![k] = Elem(v, TRUE)] = Upto(v, k + 1)
            BY <1>2, <1>3, <2>1, ElementSteps
        <3>3. mem' = [mem EXCEPT ![cat.array] = [mem[cat.array] EXCEPT ![k] = Elem(v, TRUE)]]
            BY <1>4, <3>1
        <3>4. mem' = [mem EXCEPT ![cat.array] = Upto(v, k + 1)]
            BY <3>2, <3>3
        <3> QED BY <1>1, <1>2, <1>3, <2>1, <2>2, <3>1, <3>4 DEF v, k
    <2>3. CASE ~(k <= Versions[v].good)
        <3>1. mutex' = Nobody /\ mem' = mem /\ Goto(h, FailedLoad(req[h]))
            BY <1>6, <2>3 DEF FillElem, v, k
        <3>2. k = Versions[v].good + 1
            BY <1>3, <2>3
        <3>3. mem[cat.array] = Decoded(v)
            BY <1>2, <1>3, <2>1, <3>2, ElementSteps
        <3> QED BY <1>1, <1>2, <1>3, <3>1, <3>3 DEF v, k
    <2> QED BY <2>2, <2>3
<1> QED BY <1>5, <1>6

LEMMA DecodingType ==
    ASSUME TypeInv, SettledInv, NEW h \in Handlers, NewElem(h) \/ FillElem(h)
    PROVE  TypeInv'
<1> DEFINE v == req[h].ver
           k == req[h].k
<1>0. req[h] \in Request
    BY DEF TypeInv
<1>1. /\ [req[h] EXCEPT !.pc = "fill"] \in Request
      /\ [req[h] EXCEPT !.pc = "new", !.k = @ + 1] \in Request
      /\ [req[h] EXCEPT !.pc = "ptr", !.ver = 0, !.k = 0] \in Request
      /\ FailedLoad(req[h]) \in Request
    <2>1. [req[h] EXCEPT !.pc = "fill"] \in Request
        BY <1>0 DEF Request, LoadPcs
    <2>2. [req[h] EXCEPT !.pc = "new", !.k = @ + 1] \in Request
        <3>1. req[h].k + 1 \in Nat /\ "new" \in LoadPcs
            BY <1>0 DEF Request, LoadPcs
        <3> QED BY <1>0, <3>1 DEF Request
    <2>3. [req[h] EXCEPT !.pc = "ptr", !.ver = 0, !.k = 0] \in Request
        <3>1. 0 \in Nat /\ "ptr" \in CallPcs
            BY DEF CallPcs
        <3> QED BY <1>0, <3>1 DEF Request
    <2>4. FailedLoad(req[h]) \in Request
        BY <1>0, NoMemory DEF Request, CallPcs, FailedLoad
    <2> QED BY <2>1, <2>2, <2>3, <2>4
<1>2. /\ UNCHANGED <<file, image, cat, reloadCatalog, up, loads>>
      /\ mutex' \in Handlers \cup {Nobody}
    BY Decoding DEF TypeInv
<1>3. req' \in [Handlers -> Request]
    <2>1. \E r \in Request : Goto(h, r)
        BY <1>1, Decoding
    <2> QED BY <2>1 DEF Goto, TypeInv
<1>4. mem' \in [Arrays -> Seq(Element)]
    <2>1. v \in Files /\ k \in Nat \ {0}
        BY Decoding
    <2>2. k \in Nat /\ k + 1 \in Nat
        BY <2>1
    <2>3. Into(v, k) \in Seq(Element) /\ Upto(v, k + 1) \in Seq(Element)
        BY <2>1, <2>2, ElementSeqs
    <2>4. \/ mem' = [mem EXCEPT ![cat.array] = Into(v, k)]
          \/ mem' = [mem EXCEPT ![cat.array] = Upto(v, k + 1)]
          \/ mem' = mem
        BY Decoding
    <2> HIDE DEF v, k
    <2> QED BY <2>3, <2>4 DEF TypeInv
<1> QED BY <1>2, <1>3, <1>4 DEF TypeInv

\* Requests that do not load, before and after they move.
LEMMA MovesPc ==
    ASSUME TypeInv, NEW h \in Handlers, Moves(h)
    PROVE  \E r : /\ HandlerStep(h, r) /\ up
                  /\ req[h].pc \notin LoadPcs /\ r.pc \notin LoadPcs
<1>0. req[h] \in Request
    BY DEF TypeInv
<1>1. ASSUME NEW r \in Request, NEW site
      PROVE  /\ Calling(r, site).pc \notin LoadPcs /\ Done(r).pc \notin LoadPcs
             /\ Next1(r).pc = r.pc
    BY DEF Calling, Done, Next1, Request, LoadPcs
<1>2. CASE Begin(h)
    <2>1. PICK kind \in Kinds, w \in Wanted :
            Goto(h, Calling([Idle EXCEPT !.kind = kind, !.want = w, !.since = file],
                            IF kind = "get" THEN "count" ELSE "all"))
        BY <1>2 DEF Begin
    <2>2. [Idle EXCEPT !.kind = kind, !.want = w, !.since = file] \in Request
        BY IdleType, VersionFacts DEF Request, TypeInv
    <2> QED BY <1>1, <1>2, <2>1, <2>2 DEF Begin, HandlerStep, At, LoadPcs
<1>3. CASE Check(h)
    <2> DEFINE r == [req[h] EXCEPT !.pc = IF MustLoad THEN "lock" ELSE "ptr",
                                   !.since = IF reloadCatalog THEN @ ELSE 0]
    <2>1. r.pc \in {"lock", "ptr"}
        BY <1>0 DEF Request
    <2>2. HandlerStep(h, r) /\ up /\ req[h].pc = "check"
        BY <1>3 DEF Check, HandlerStep, At
    <2> HIDE DEF r
    <2> QED BY <2>1, <2>2 DEF LoadPcs
<1>4. CASE ReturnProducts(h)
    <2> DEFINE r == [req[h] EXCEPT !.pc = "use", !.slice = cat]
    <2>1. r.pc = "use"
        BY <1>0 DEF Request
    <2>2. HandlerStep(h, r) /\ up /\ req[h].pc = "ptr"
        BY <1>4 DEF ReturnProducts, HandlerStep, At
    <2> HIDE DEF r
    <2> QED BY <2>1, <2>2 DEF LoadPcs
<1>5. CASE CountLoop(h)
    BY <1>0, <1>1, <1>5 DEF CountLoop, Using, At, LoadPcs
<1>6. CASE CompareId(h)
    <2>1. Next1(req[h]) \in Request
        BY <1>0, CallingType
    <2> QED BY <1>0, <1>1, <1>6, <2>1 DEF CompareId, Using, At, LoadPcs
<1>7. CASE TakeProduct(h)
    <2>1. Next1(req[h]) \in Request
        BY <1>0, CallingType
    <2>2. [Next1(req[h]) EXCEPT !.refs = Here(req[h])] \in Request
        BY <2>1, WholeSliceType DEF Request
    <2> QED BY <1>1, <1>7, <2>2 DEF TakeProduct, Using, At, LoadPcs
<1>8. CASE ListProducts(h)
    <2>1. [req[h] EXCEPT !.refs = WholeSlice(req[h])] \in Request
        BY <1>0, WholeSliceType DEF Request
    <2> QED BY <1>1, <1>8, <2>1 DEF ListProducts, Using, At, LoadPcs
<1>9. CASE SearchNext(h)
    <2>1. [Next1(req[h]) EXCEPT !.refs = @ \cup Here(req[h])].pc = Next1(req[h]).pc
        BY DEF Next1
    <2> QED BY <1>0, <1>1, <1>9, <2>1 DEF SearchNext, Using, At, LoadPcs
<1>10. CASE Reply(h)
    BY <1>10 DEF Reply, At, LoadPcs, Idle
<1> QED BY <1>2, <1>3, <1>4, <1>5, <1>6, <1>7, <1>8, <1>9, <1>10 DEF Moves


-----------------------------------------------------------------------------
(***************************************************************************)
(* SettledInv is inductive.                                                *)
(***************************************************************************)
LEMMA InitSettled == Init => SettledInv
BY CatalogAssumption
   DEF Init, SettledInv, Down, MutexInv, DecodeInv, LoadInv, LoadPcs, Settled, Idle

\* A step of a loading request leaves the others where they are: none of them loads.
LEMMA OnlyLoader ==
    ASSUME TypeInv, SettledInv, NEW h \in Handlers,
           mutex = h \/ mutex = Nobody,
           NEW g \in Handlers, g # h
    PROVE  req[g].pc \notin LoadPcs
BY CatalogAssumption DEF SettledInv, MutexInv

LEMMA RestartSettled ==
    ASSUME TypeInv, SettledInv, Restart
    PROVE  SettledInv'
<1>1. /\ mutex = Nobody /\ \A h \in Handlers : req[h] = Idle
      /\ mutex' = mutex /\ req' = req /\ up' = TRUE
    BY DEF Restart, Start, SettledInv, Down
<1>2. image \in Files /\ (CHOOSE a \in Arrays : TRUE) \in Arrays
    BY CatalogAssumption DEF TypeInv
<1> DEFINE a == CHOOSE x \in Arrays : TRUE
<1>3. ReadFile(image, a) /\ a \in Arrays
    BY <1>2 DEF Restart, Start
<1> HIDE DEF a
<1>4. Settled'
    <2>1. CASE Versions[image].form = "json"
        <3>1. cat' = Slice(a, Size(image)) /\ mem'[a] = Decoded(image)
            BY <1>3, <2>1 DEF ReadFile
        <3>2. cat'.array = a /\ cat'.len = Size(image)
            BY <3>1 DEF Slice
        <3> QED BY <1>2, <1>3, <3>1, <3>2 DEF Settled
    <2>2. CASE Versions[image].form # "json"
        BY <1>3, <2>2 DEF ReadFile, Settled
    <2> QED BY <2>1, <2>2
<1>5. \A h \in Handlers : LoadInv(req[h])' /\ req[h].pc \notin LoadPcs
    BY <1>1 DEF LoadInv, LoadPcs, Idle
<1> QED BY <1>1, <1>4, <1>5, CatalogAssumption DEF SettledInv, Down, MutexInv, DecodeInv

LEMMA CrashSettled ==
    ASSUME Crash
    PROVE  SettledInv'
<1>1. \A h \in Handlers : req'[h] = Idle
    BY DEF Crash
<1>2. \A h \in Handlers : LoadInv(req[h])' /\ req'[h].pc \notin LoadPcs
    BY <1>1 DEF LoadInv, LoadPcs, Idle
<1>3. mutex' = Nobody /\ Settled'
    BY DEF Crash, Settled
<1> QED BY <1>1, <1>2, <1>3, CatalogAssumption DEF SettledInv, Down, MutexInv, DecodeInv

LEMMA MovesSettled ==
    ASSUME TypeInv, SettledInv, NEW h \in Handlers, Moves(h)
    PROVE  SettledInv'
<1>1. PICK r : HandlerStep(h, r) /\ up /\ req[h].pc \notin LoadPcs /\ r.pc \notin LoadPcs
    BY MovesPc
<1>2. req'[h] = r /\ \A g \in Handlers : g # h => req'[g] = req[g]
    BY <1>1, GotoFacts DEF TypeInv, HandlerStep
<1>3. UNCHANGED <<cat, mem, mutex, up>>
    BY <1>1 DEF HandlerStep
<1>4. MutexInv'
    BY <1>1, <1>2, <1>3 DEF SettledInv, MutexInv
<1>5. ASSUME NEW g \in Handlers PROVE LoadInv(req[g])'
    <2>1. CASE g = h
        BY <1>1, <1>2, <2>1 DEF LoadInv, LoadPcs
    <2>2. CASE g # h
        BY <1>2, <1>3, <2>2 DEF LoadInv, SettledInv, DecodeInv
    <2> QED BY <2>1, <2>2
<1>6. mutex' = Nobody => Settled'
    BY <1>3 DEF Settled, SettledInv, DecodeInv
<1> QED BY <1>1, <1>3, <1>4, <1>5, <1>6 DEF SettledInv, Down, DecodeInv

\* What taking the mutex leaves behind.
LEMMA Locking ==
    ASSUME TypeInv, NEW h \in Handlers, LockAndRead(h)
    PROVE  /\ up /\ mutex = Nobody /\ req[h].pc = "lock" /\ file \in Files
           /\ loads' = TRUE /\ UNCHANGED <<file, image, cat, reloadCatalog, up>>
           /\ \/ Goto(h, FailedLoad(req[h])) /\ UNCHANGED <<mem, mutex>>
              \/ \E a \in Arrays \ Live :
                   /\ mutex' = h
                   /\ mem'[a] = Upto(file, 1)
                   /\ \A x \in Live : x \in Arrays => mem'[x] = mem[x]
                   /\ Goto(h, [req[h] EXCEPT !.pc = "set", !.ver = file,
                                             !.new = Slice(a, Size(file))])
<1>1. /\ up /\ mutex = Nobody /\ req[h].pc = "lock" /\ file \in Files
      /\ loads' = TRUE /\ UNCHANGED <<file, image, cat, reloadCatalog, up>>
    BY DEF LockAndRead, At, MutexFree, TypeInv
<1>2. CASE Versions[file].form = "syntax"
    BY <1>1, <1>2 DEF LockAndRead
<1>3. CASE Versions[file].form # "syntax"
    <2>1. PICK a \in {CHOOSE x \in Arrays : x \notin Live} :
            /\ Arrays \ Live # {} /\ mutex' = h
            /\ mem' = [x \in Arrays |-> IF x = a THEN [i \in 1 .. Size(file) |-> NoElem]
                                        ELSE IF x \in Live THEN mem[x] ELSE <<>>]
            /\ Goto(h, [req[h] EXCEPT !.pc = "set", !.ver = file,
                                      !.new = Slice(a, Size(file))])
        BY <1>3 DEF LockAndRead
    <2>2. a \in Arrays \ Live
        BY <2>1, FreeArray
    <2>3. 1 \in Nat
        OBVIOUS
    <2>4. Upto(file, 1) = [i \in 1 .. Size(file) |-> NoElem]
        BY <1>1, <2>3, ElementSeqs
    <2>5. mem'[a] = Upto(file, 1) /\ \A x \in Live : x \in Arrays => mem'[x] = mem[x]
        BY <2>1, <2>2, <2>4
    <2> QED BY <1>1, <2>1, <2>2, <2>5
<1> QED BY <1>2, <1>3

LEMMA LockSettled ==
    ASSUME TypeInv, SettledInv, NEW h \in Handlers, LockAndRead(h)
    PROVE  SettledInv'
<1>1. /\ up /\ up' /\ mutex = Nobody /\ file \in Files /\ cat' = cat /\ req[h] \in Request
      /\ Nobody # h
    BY Locking, CatalogAssumption DEF TypeInv
<1>2. \A g \in Handlers : g # h => req[g].pc \notin LoadPcs
    BY <1>1, OnlyLoader
<1>3. CASE Goto(h, FailedLoad(req[h])) /\ UNCHANGED <<mem, mutex>>
    <2>1. FailedLoad(req[h]).pc = "use"
        BY <1>1 DEF FailedLoad, Request
    <2>2. req'[h].pc \notin LoadPcs /\ \A g \in Handlers : g # h => req'[g] = req[g]
        BY <1>3, <2>1, GotoFacts DEF TypeInv, LoadPcs
    <2>3. \A g \in Handlers : req'[g].pc \notin LoadPcs
        BY <1>2, <2>2
    <2>4. \A g \in Handlers : LoadInv(req[g])'
        BY <2>3 DEF LoadInv, LoadPcs
    <2>5. Settled'
        BY <1>1, <1>3 DEF Settled, SettledInv, DecodeInv
    <2> QED BY <1>1, <1>3, <2>3, <2>4, <2>5, CatalogAssumption
            DEF SettledInv, Down, MutexInv, DecodeInv
<1>4. CASE \E a \in Arrays \ Live :
             /\ mutex' = h
             /\ mem'[a] = Upto(file, 1)
             /\ \A x \in Live : x \in Arrays => mem'[x] = mem[x]
             /\ Goto(h, [req[h] EXCEPT !.pc = "set", !.ver = file,
                                       !.new = Slice(a, Size(file))])
    <2>1. PICK a \in Arrays \ Live :
             /\ mutex' = h
             /\ mem'[a] = Upto(file, 1)
             /\ Goto(h, [req[h] EXCEPT !.pc = "set", !.ver = file,
                                       !.new = Slice(a, Size(file))])
        BY <1>4
    <2> DEFINE r == [req[h] EXCEPT !.pc = "set", !.ver = file, !.new = Slice(a, Size(file))]
    <2>2. /\ r.pc = "set" /\ r.ver = file /\ r.new.array = a /\ r.new.len = Size(file)
        BY <1>1 DEF Request, Slice
    <2>3. Goto(h, r)
        BY <2>1
    <2> HIDE DEF r
    <2>4. req'[h] = r /\ \A g \in Handlers : g # h => req'[g] = req[g]
        BY <2>3, GotoFacts DEF TypeInv
    <2>5. LoadInv(req[h])'
        BY <1>1, <2>1, <2>2, <2>4 DEF LoadInv
    <2>6. \A g \in Handlers : g # h => LoadInv(req[g])' /\ req'[g].pc \notin LoadPcs
        BY <1>2, <2>4 DEF LoadInv, LoadPcs
    <2>7. req'[h].pc \in LoadPcs
        BY <2>2, <2>4 DEF LoadPcs
    <2> QED BY <1>1, <2>1, <2>5, <2>6, <2>7 DEF SettledInv, Down, MutexInv, DecodeInv
<1> QED BY <1>3, <1>4, Locking

\* The loader moves on and keeps the mutex: only its own LoadInv is left to show.
LEMMA KeepLoading ==
    ASSUME TypeInv, SettledInv, NEW h \in Handlers, NEW r, Goto(h, r),
           mutex = h, mutex' = h, up', r.pc \in LoadPcs, LoadInv(req[h])'
    PROVE  SettledInv'
<1>1. \A g \in Handlers : g # h => req[g].pc \notin LoadPcs
    BY OnlyLoader
<1>2. req'[h] = r /\ \A g \in Handlers : g # h => req'[g] = req[g]
    BY GotoFacts DEF TypeInv
<1>3. \A g \in Handlers : LoadInv(req[g])'
    BY <1>1, <1>2 DEF LoadInv, LoadPcs
<1> QED BY <1>1, <1>2, <1>3, CatalogAssumption DEF SettledInv, Down, MutexInv, DecodeInv

LEMMA StoreSettled ==
    ASSUME TypeInv, SettledInv, NEW h \in Handlers, StoreFirst(h) \/ StoreSecond(h)
    PROVE  SettledInv'
<1>1. /\ req[h].pc \in {"set", "setLen", "setArray"} /\ up /\ LoadInv(req[h])
      /\ req[h] \in Request /\ cat \in Slices
      /\ UNCHANGED <<mem, mutex, up>>
    BY DEF StoreFirst, StoreSecond, At, TypeInv, SettledInv, DecodeInv
<1>2. mutex = h /\ req[h].ver \in Files
    BY <1>1 DEF SettledInv, MutexInv, LoadPcs, LoadInv
<1> DEFINE v == req[h].ver
<1>3. v \in Files /\ Versions[v].good \in Nat
    BY <1>2, VersionFacts
<1>4. CASE StoreFirst(h)
    <2>1. /\ req[h].new.len = Size(v) /\ req[h].new.array \in Arrays
          /\ mem[req[h].new.array] = Upto(v, 1)
        BY <1>1, <1>4 DEF LoadInv, StoreFirst, At
    <2>2. CASE /\ cat' = [cat EXCEPT !.array = req[h].new.array]
               /\ Goto(h, [req[h] EXCEPT !.pc = "setLen"])
        <3> DEFINE r == [req[h] EXCEPT !.pc = "setLen"]
        <3>1. r.pc = "setLen" /\ r.ver = v /\ r.new = req[h].new /\ Goto(h, r)
            BY <1>1, <2>2 DEF Request
        <3>2. cat'.array = req[h].new.array
            BY <1>1, <2>2 DEF Slices
        <3> HIDE DEF r, v
        <3>3. req'[h] = r
            BY <3>1, GotoFacts DEF TypeInv
        <3>4. LoadInv(req[h])'
            BY <1>1, <1>3, <2>1, <3>1, <3>2, <3>3 DEF LoadInv
        <3> QED BY <1>1, <1>2, <3>1, <3>4, KeepLoading DEF LoadPcs
    <2>3. CASE /\ cat' = [cat EXCEPT !.len = req[h].new.len]
               /\ Goto(h, [req[h] EXCEPT !.pc = "setArray"])
        <3> DEFINE r == [req[h] EXCEPT !.pc = "setArray"]
        <3>1. r.pc = "setArray" /\ r.ver = v /\ r.new = req[h].new /\ Goto(h, r)
            BY <1>1, <2>3 DEF Request
        <3>2. cat'.len = req[h].new.len
            BY <1>1, <2>3 DEF Slices
        <3> HIDE DEF r, v
        <3>3. req'[h] = r
            BY <3>1, GotoFacts DEF TypeInv
        <3>4. LoadInv(req[h])'
            BY <1>1, <1>3, <2>1, <3>1, <3>2, <3>3 DEF LoadInv
        <3> QED BY <1>1, <1>2, <3>1, <3>4, KeepLoading DEF LoadPcs
    <2> QED BY <1>4, <2>2, <2>3 DEF StoreFirst
<1>5. CASE StoreSecond(h)
    <2> DEFINE r == [req[h] EXCEPT !.pc = "new", !.new = NilSlice, !.k = 1]
    <2>1. r.pc = "new" /\ r.ver = v /\ r.k = 1 /\ Goto(h, r)
        BY <1>1, <1>5 DEF Request, StoreSecond
    <2>2. cat'.len = Size(v) /\ cat'.array \in Arrays /\ mem[cat'.array] = Upto(v, 1)
        <3>1. CASE At(h, "setLen") /\ cat' = [cat EXCEPT !.len = req[h].new.len]
            BY <1>1, <3>1 DEF LoadInv, At, Slices
        <3>2. CASE At(h, "setArray") /\ cat' = [cat EXCEPT !.array = req[h].new.array]
            BY <1>1, <3>2 DEF LoadInv, At, Slices
        <3> QED BY <1>5, <3>1, <3>2 DEF StoreSecond
    <2> HIDE DEF r, v
    <2>3. req'[h] = r
        BY <2>1, GotoFacts DEF TypeInv
    <2>4. LoadInv(req[h])'
        BY <1>1, <1>3, <2>1, <2>2, <2>3 DEF LoadInv
    <2> QED BY <1>1, <1>2, <2>1, <2>4, KeepLoading DEF LoadPcs
<1> QED BY <1>4, <1>5

LEMMA DecodeSettled ==
    ASSUME TypeInv, SettledInv, NEW h \in Handlers, NewElem(h) \/ FillElem(h)
    PROVE  SettledInv'
<1> DEFINE v == req[h].ver
           k == req[h].k
<1>1. /\ up /\ up' /\ mutex = h /\ v \in Files /\ k \in Nat \ {0}
      /\ cat.array \in Arrays /\ cat.len = Size(v) /\ cat' = cat
      /\ req[h] \in Request /\ mem \in [Arrays -> Seq(Element)]
    BY Decoding DEF TypeInv
<1>2. Size(v) \in Nat /\ Versions[v].good \in Nat /\ Versions[v].good <= Size(v)
    BY <1>1, VersionFacts
<1>3. LoadInv(req[h]) /\ h # Nobody
    BY CatalogAssumption DEF SettledInv, DecodeInv
<1>4. CASE /\ k <= Size(v)
           /\ mem' = [mem EXCEPT ![cat.array] = Into(v, k)]
           /\ Goto(h, [req[h] EXCEPT !.pc = "fill"])
           /\ req[h].pc = "new" /\ mutex' = mutex
    <2> DEFINE r == [req[h] EXCEPT !.pc = "fill"]
    <2>1. r.pc = "fill" /\ r.ver = v /\ r.k = k /\ Goto(h, r)
        BY <1>1, <1>4 DEF Request
    <2>2. k <= Versions[v].good + 1
        BY <1>3, <1>4 DEF LoadInv
    <2>3. mem'[cat.array] = Into(v, k)
        BY <1>1, <1>4
    <2> HIDE DEF r, v, k
    <2>4. req'[h] = r
        BY <2>1, GotoFacts DEF TypeInv
    <2>5. LoadInv(req[h])'
        BY <1>1, <1>2, <1>4, <2>1, <2>2, <2>3, <2>4 DEF LoadInv
    <2> QED BY <1>1, <1>4, <2>1, <2>5, KeepLoading DEF LoadPcs
<1>5. CASE /\ k <= Versions[v].good
           /\ mem' = [mem EXCEPT ![cat.array] = Upto(v, k + 1)]
           /\ Goto(h, [req[h] EXCEPT !.pc = "new", !.k = @ + 1])
           /\ req[h].pc = "fill" /\ mutex' = mutex
    <2> DEFINE r == [req[h] EXCEPT !.pc = "new", !.k = @ + 1]
    <2>1. r.pc = "new" /\ r.ver = v /\ r.k = k + 1 /\ Goto(h, r)
        BY <1>1, <1>5 DEF Request
    <2>2. mem'[cat.array] = Upto(v, k + 1)
        BY <1>1, <1>5
    <2> HIDE DEF r, v, k
    <2>3. req'[h] = r
        BY <2>1, GotoFacts DEF TypeInv
    <2>4. k + 1 \in 1 .. Versions[v].good + 1
        BY <1>1, <1>2, <1>5
    <2>5. LoadInv(req[h])'
        BY <1>1, <2>1, <2>2, <2>3, <2>4 DEF LoadInv
    <2> QED BY <1>1, <1>5, <2>1, <2>5, KeepLoading DEF LoadPcs
<1>6. CASE /\ mem[cat.array] = Decoded(v)
           /\ mem' = mem /\ mutex' = Nobody
           /\ \/ Goto(h, [req[h] EXCEPT !.pc = "ptr", !.ver = 0, !.k = 0])
              \/ Goto(h, FailedLoad(req[h]))
    <2>1. \E r : Goto(h, r) /\ r.pc \in {"ptr", "use"}
        <3> DEFINE ptr == [req[h] EXCEPT !.pc = "ptr", !.ver = 0, !.k = 0]
        <3>1. ptr.pc = "ptr" /\ FailedLoad(req[h]).pc = "use"
            BY <1>1 DEF Request, FailedLoad
        <3>2. Goto(h, ptr) \/ Goto(h, FailedLoad(req[h]))
            BY <1>6
        <3> HIDE DEF ptr
        <3> QED BY <3>1, <3>2
    <2>2. PICK r : Goto(h, r) /\ r.pc \in {"ptr", "use"}
        BY <2>1
    <2>3. req'[h] = r /\ \A g \in Handlers : g # h => req'[g] = req[g]
        BY <2>2, GotoFacts DEF TypeInv
    <2>4. \A g \in Handlers : g # h => req[g].pc \notin LoadPcs
        BY <1>1, OnlyLoader
    <2>5. \A g \in Handlers : req'[g].pc \notin LoadPcs
        BY <2>2, <2>3, <2>4 DEF LoadPcs
    <2>6. \A g \in Handlers : LoadInv(req[g])'
        BY <2>5 DEF LoadInv, LoadPcs
    <2>7. Settled'
        BY <1>1, <1>6 DEF Settled
    <2> QED BY <1>1, <1>6, <2>5, <2>6, <2>7, CatalogAssumption
            DEF SettledInv, Down, MutexInv, DecodeInv
<1> QED BY <1>4, <1>5, <1>6, Decoding

\* The steps of a handler, in the groups the proofs treat alike.
LEMMA StepCases ==
    ASSUME NEW h \in Handlers, Begin(h) \/ Load(h) \/ Step(h)
    PROVE  \/ Moves(h) \/ LockAndRead(h) \/ StoreFirst(h) \/ StoreSecond(h)
           \/ NewElem(h) \/ FillElem(h)
           \/ Crash /\ UNCHANGED <<file, image>> /\ loads' \in {loads, TRUE}
BY DEF Load, Step, Moves, ReadMissing, Panic

LEMMA NextSettled == TypeInv /\ SettledInv /\ [Next]_vars => TypeInv' /\ SettledInv'
<1> SUFFICES ASSUME TypeInv, SettledInv, [Next]_vars PROVE TypeInv' /\ SettledInv'
    OBVIOUS
<1>1. CASE EditFile \/ ReceiveSignal \/ UNCHANGED vars
    <2>1. UNCHANGED <<image, cat, mem, mutex, up, req, loads>>
          /\ file' \in Files /\ reloadCatalog' \in BOOLEAN
        BY <1>1 DEF EditFile, ReceiveSignal, vars, TypeInv
    <2>2. DecodeInv'
        BY <2>1 DEF SettledInv, DecodeInv, LoadInv, Settled
    <2> QED BY <2>1, <2>2 DEF TypeInv, SettledInv, Down, MutexInv
<1>2. CASE Restart
    BY <1>2, StartType, RestartSettled DEF Restart
<1>3. CASE \E h \in Handlers : Begin(h) \/ Load(h) \/ Step(h)
    <2>1. PICK h \in Handlers : Begin(h) \/ Load(h) \/ Step(h)
        BY <1>3
    <2>2. CASE Crash /\ UNCHANGED <<file, image>> /\ loads' \in {loads, TRUE}
        BY <2>2, CrashType, CrashSettled DEF TypeInv
    <2> QED BY <2>1, <2>2, StepCases, MovesType, MovesSettled, LoadsType, LockSettled,
               StoreSettled, DecodingType, DecodeSettled
<1> QED BY <1>1, <1>2, <1>3 DEF Next

LEMMA SettledAlways == Spec => [](TypeInv /\ SettledInv)
<1>1. Init => TypeInv /\ SettledInv
    BY InitTypeInv, InitSettled
<1> QED BY <1>1, NextSettled, PTL DEF Spec

\* While nobody decodes, the shared catalog is exactly one version of the
\* file, and the mutex is free: readCatalogFile's decoder, its error paths and
\* the mutex, for any number of handlers and versions.
THEOREM CatalogSettles == Spec => []SettledIsOneVersion
<1>1. TypeInv /\ SettledInv => SettledIsOneVersion
    <2> SUFFICES ASSUME TypeInv, SettledInv, Loading = {}
                 PROVE  mutex = Nobody /\ Settled
        BY DEF SettledIsOneVersion, Settled
    <2>1. \A h \in Handlers : mutex # h
        BY DEF SettledInv, MutexInv, Loading, LoadPcs
    <2> QED BY <2>1 DEF TypeInv, SettledInv, DecodeInv
<1> QED BY <1>1, SettledAlways, PTL

-----------------------------------------------------------------------------
(***************************************************************************)
(* FreshInv is inductive.                                                  *)
(***************************************************************************)
LEMMA IdleFresh == FreshReq(Idle) <=> 0 <= file
BY CatalogAssumption DEF FreshReq, Idle, NilSlice, Slice, Fresh, Sees, LoadPcs

\* The elements of an array in memory.
LEMMA MemoryOf ==
    ASSUME TypeInv, NEW a
    PROVE  Fresh(0, a)
<1>1. ASSUME NEW s \in Seq(Element), NEW i \in DOMAIN s PROVE s[i].of >= 0
    <2>1. s[i] \in Element
        BY SeqElement
    <2> QED BY <2>1 DEF Element
<1> QED BY <1>1 DEF Fresh, TypeInv

LEMMA MoveFresh ==
    ASSUME TypeInv, FreshInv, NEW h \in Handlers, NEW r, HandlerStep(h, r),
           req[h].pc \notin LoadPcs, r.pc \notin LoadPcs, FreshReq(r)
    PROVE  FreshInv'
<1>1. req'[h] = r /\ \A g \in Handlers : g # h => req'[g] = req[g]
    BY GotoFacts DEF TypeInv, HandlerStep
<1>2. UNCHANGED <<file, cat, mem>>
    BY DEF HandlerStep
<1>3. ASSUME NEW n PROVE LoadersFrom(n) => LoadersFrom(n)'
    BY <1>1 DEF LoadersFrom
<1>4. ASSUME NEW g \in Handlers PROVE FreshReq(req[g])'
    <2>1. FreshReq(req'[g])
        BY <1>1 DEF FreshInv
    <2> QED BY <1>2, <1>3, <2>1 DEF FreshReq, Fresh, Sees
<1> QED BY <1>4 DEF FreshInv

\* What a request finds in its slice is as new as the slice.
LEMMA FoundFresh ==
    ASSUME TypeInv, NEW h \in Handlers, FreshReq(req[h])
    PROVE  \A x \in Here(req[h]) \cup WholeSlice(req[h]) : x.of >= req[h].since
<1>1. req[h] \in Request /\ req[h].slice.len \in Nat
    BY DEF TypeInv, Request, Slices
<1>2. ASSUME NEW r, r.slice = req[h].slice, r.i \in Nat \ {0}
      PROVE  \A x \in Here(r) : x.of >= req[h].since
    <2>1. r.slice \in Slices
        BY <1>1, <1>2 DEF Request
    <2>2. ElemOf(r) # NoElem =>
            r.slice.array \in Arrays /\ r.i \in DOMAIN mem[r.slice.array]
            /\ ElemOf(r) = mem[r.slice.array][r.i]
        BY <1>2, <2>1, HereFacts
    <2>3. ElemOf(r) # NoElem => ElemOf(r).of >= req[h].since
        BY <1>2, <2>2 DEF FreshReq, Fresh
    <2> QED BY <2>3 DEF Here, Product
<1>3. ASSUME NEW k \in 1 .. req[h].slice.len
      PROVE  \A x \in Here([req[h] EXCEPT !.i = k]) : x.of >= req[h].since
    <2>1. [req[h] EXCEPT !.i = k].slice = req[h].slice /\ [req[h] EXCEPT !.i = k].i \in Nat \ {0}
        BY <1>1 DEF Request
    <2> QED BY <1>2, <2>1
<1>4. req[h].i \in Nat \ {0}
    BY <1>1 DEF Request
<1> QED BY <1>2, <1>3, <1>4 DEF WholeSlice

\* A request that ends its call of parseCatalog, or asks for the next one.
LEMMA CallingFresh ==
    ASSUME TypeInv, NEW r \in Request, NEW site,
           r.since <= file, \A x \in r.refs : x.of >= r.since
    PROVE  FreshReq(Calling(r, site)) /\ FreshReq(Done(r))
<1>1. /\ Calling(r, site).pc = "check" /\ Calling(r, site).since = r.since
      /\ Calling(r, site).refs = r.refs /\ Calling(r, site).slice = NilSlice
    BY DEF Calling, Request
<1>2. /\ Done(r).pc = "reply" /\ Done(r).since = r.since
      /\ Done(r).refs = r.refs /\ Done(r).slice = NilSlice
    BY DEF Done, Request
<1>3. NilSlice.array \notin Arrays
    BY CatalogAssumption DEF NilSlice, Slice
<1>4. ASSUME NEW q, q.pc \in {"check", "reply"}, q.since = r.since, q.refs = r.refs,
             q.slice = NilSlice
      PROVE  FreshReq(q)
    BY <1>3, <1>4 DEF FreshReq, Fresh, Sees, LoadPcs
<1> QED BY <1>1, <1>2, <1>4

LEMMA MovesFresh ==
    ASSUME TypeInv, FreshInv, NEW h \in Handlers, Moves(h)
    PROVE  FreshInv'
<1>0. /\ req[h] \in Request /\ FreshReq(req[h]) /\ file \in Nat /\ req[h].since \in Nat
      /\ NilSlice.array \notin Arrays
    BY VersionFacts, CatalogAssumption DEF TypeInv, FreshInv, Request, NilSlice, Slice
<1>a. \A x \in req[h].refs : x.of >= 0
    BY <1>0 DEF Request, Refs, Product
<1> SUFFICES ASSUME NEW r, HandlerStep(h, r), req[h].pc \notin LoadPcs, r.pc \notin LoadPcs
             PROVE  FreshReq(r)
    BY MovesPc, MoveFresh
<1>b. r = req'[h] /\ UNCHANGED <<file, cat, mem, mutex, reloadCatalog, up, loads>>
    BY GotoFacts DEF HandlerStep, TypeInv
<1>1. CASE Begin(h)
    <2>1. PICK kind \in Kinds, w \in Wanted :
            Goto(h, Calling([Idle EXCEPT !.kind = kind, !.want = w, !.since = file],
                            IF kind = "get" THEN "count" ELSE "all"))
        BY <1>1 DEF Begin
    <2> DEFINE q == [Idle EXCEPT !.kind = kind, !.want = w, !.since = file]
               site == IF kind = "get" THEN "count" ELSE "all"
    <2>2. q \in Request /\ q.since = file /\ q.refs = {}
        BY <1>0, IdleType DEF Request, Idle
    <2>3. Goto(h, Calling(q, site))
        BY <2>1
    <2> HIDE DEF q, site
    <2>4. r = Calling(q, site)
        BY <1>b, <2>3, GotoFacts DEF TypeInv
    <2> QED BY <1>0, <2>2, <2>4, CallingFresh
<1>2. CASE Check(h)
    <2> DEFINE q == [req[h] EXCEPT !.pc = IF MustLoad THEN "lock" ELSE "ptr",
                                   !.since = IF reloadCatalog THEN @ ELSE 0]
    <2>1. /\ q.pc = (IF MustLoad THEN "lock" ELSE "ptr") /\ q.refs = req[h].refs
          /\ q.since = (IF reloadCatalog THEN req[h].since ELSE 0)
          /\ q.slice = req[h].slice /\ Goto(h, q) /\ req[h].pc = "check"
        BY <1>0, <1>2 DEF Request, Check, At
    <2> HIDE DEF q
    <2>2. r = q
        BY <1>b, <2>1, GotoFacts DEF TypeInv
    <2>3. q.slice = NilSlice
        BY <1>0, <2>1 DEF FreshReq
    <2>4. CASE MustLoad
        <3>1. q.pc = "lock" /\ q.since <= file /\ \A x \in q.refs : x.of >= q.since
            BY <1>0, <1>a, <2>1, <2>4 DEF FreshReq
        <3> QED BY <1>0, <2>2, <2>3, <3>1 DEF FreshReq, Fresh, Sees, LoadPcs
    <2>5. CASE ~MustLoad
        <3>1. q.pc = "ptr" /\ q.since = 0
            BY <2>1, <2>5 DEF MustLoad
        <3>2. LoadersFrom(0)
            BY DEF LoadersFrom, TypeInv, Request
        <3> QED BY <1>0, <1>a, <2>1, <2>2, <2>3, <3>1, <3>2, MemoryOf DEF FreshReq, LoadPcs
    <2> QED BY <2>4, <2>5
<1>3. CASE ReturnProducts(h)
    <2> DEFINE q == [req[h] EXCEPT !.pc = "use", !.slice = cat]
    <2>1. /\ q.pc = "use" /\ q.refs = req[h].refs /\ q.since = req[h].since
          /\ q.slice = cat /\ Goto(h, q) /\ req[h].pc = "ptr"
        BY <1>0, <1>3 DEF Request, ReturnProducts, At
    <2> HIDE DEF q
    <2>2. r = q
        BY <1>b, <2>1, GotoFacts DEF TypeInv
    <2> QED BY <1>0, <2>1, <2>2 DEF FreshReq, Sees, LoadPcs
<1>4. CASE CountLoop(h)
    <2>1. r = Calling(req[h], "id") \/ r = Done(req[h])
        BY <1>4, <1>b, GotoFacts DEF CountLoop, HandlerStep, TypeInv
    <2> QED BY <1>0, <2>1, CallingFresh DEF FreshReq
<1>5. ASSUME NEW q \in Request, q = Next1(req[h]) PROVE
          q.since = req[h].since /\ q.refs = req[h].refs /\ q.slice = req[h].slice /\ q.pc = req[h].pc
    BY <1>0, <1>5 DEF Next1, Request
<1>6. Next1(req[h]) \in Request
    BY <1>0, CallingType
<1>7. CASE CompareId(h)
    <2>1. r = Calling(req[h], "take") \/ r = Calling(Next1(req[h]), "count")
        BY <1>7, <1>b, GotoFacts DEF CompareId, HandlerStep, TypeInv
    <2> QED BY <1>0, <1>5, <1>6, <2>1, CallingFresh DEF FreshReq
<1>8. CASE TakeProduct(h)
    <2> DEFINE q == [Next1(req[h]) EXCEPT !.refs = Here(req[h])]
    <2>1. q \in Request /\ q.since = req[h].since /\ q.refs = Here(req[h])
        BY <1>5, <1>6, WholeSliceType DEF Request
    <2>2. HandlerStep(h, Calling(q, "count"))
        BY <1>8 DEF TakeProduct
    <2> HIDE DEF q
    <2>3. r = Calling(q, "count")
        BY <1>b, <2>2, GotoFacts DEF HandlerStep, TypeInv
    <2> QED BY <1>0, <2>1, <2>3, CallingFresh, FoundFresh DEF FreshReq
<1>9. CASE ListProducts(h)
    <2> DEFINE q == [req[h] EXCEPT !.refs = WholeSlice(req[h])]
    <2>1. q \in Request /\ q.since = req[h].since /\ q.refs = WholeSlice(req[h])
        BY <1>0, WholeSliceType DEF Request
    <2>2. HandlerStep(h, Done(q))
        BY <1>9 DEF ListProducts
    <2> HIDE DEF q
    <2>3. r = Done(q)
        BY <1>b, <2>2, GotoFacts DEF HandlerStep, TypeInv
    <2> QED BY <1>0, <2>1, <2>3, CallingFresh, FoundFresh DEF FreshReq
<1>10. CASE SearchNext(h)
    <2> DEFINE q == [Next1(req[h]) EXCEPT !.refs = @ \cup Here(req[h])]
    <2>1. /\ q.since = req[h].since /\ q.refs = req[h].refs \cup Here(req[h])
          /\ q.slice = req[h].slice /\ q.pc = req[h].pc
        BY <1>5, <1>6 DEF Request
    <2>2. HandlerStep(h, q) \/ HandlerStep(h, Done(req[h])) \/ HandlerStep(h, Next1(req[h]))
        BY <1>10 DEF SearchNext
    <2> HIDE DEF q
    <2>3. r = q \/ r = Done(req[h]) \/ r = Next1(req[h])
        BY <1>b, <2>2, GotoFacts DEF HandlerStep, TypeInv
    <2>4. FreshReq(Next1(req[h]))
        BY <1>0, <1>5, <1>6 DEF FreshReq, Sees
    <2>5. FreshReq(q)
        BY <1>0, <2>1, FoundFresh DEF FreshReq, Sees
    <2>6. FreshReq(Done(req[h]))
        BY <1>0, CallingFresh DEF FreshReq
    <2> QED BY <2>3, <2>4, <2>5, <2>6
<1>11. CASE Reply(h)
    <2>1. r = Idle
        BY <1>11, <1>b, GotoFacts DEF Reply, HandlerStep, TypeInv
    <2> QED BY <1>0, <2>1, IdleFresh
<1> QED BY <1>1, <1>2, <1>3, <1>4, <1>7, <1>8, <1>9, <1>10, <1>11 DEF Moves

\* An array filled from version v shows nothing older than n <= v.
LEMMA FilledFresh ==
    ASSUME NEW v \in Files, NEW k \in Nat, NEW n \in Nat, n <= v, NEW m, NEW a \in Arrays,
           m[a] \in {Upto(v, k), Into(v, k), Decoded(v)}
    PROVE  \A i \in DOMAIN m[a] : m[a][i] # NoElem => m[a][i].of >= n
<1>1. ASSUME NEW s \in {Upto(v, k), Into(v, k), Decoded(v)}, NEW i \in DOMAIN s, s[i] # NoElem
      PROVE  s[i].of >= n
    BY <1>1, FreshSeqs
<1> QED BY <1>1

LEMMA LockFresh ==
    ASSUME TypeInv, SettledInv, FreshInv, NEW h \in Handlers, LockAndRead(h)
    PROVE  FreshInv'
<1>0. /\ req[h] \in Request /\ file \in Nat /\ req[h].pc = "lock" /\ req[h].slice = NilSlice
      /\ NilSlice.array \notin Arrays /\ mutex = Nobody /\ UNCHANGED <<file, cat>>
      /\ FreshReq(req[h])
    BY Locking, VersionFacts, CatalogAssumption DEF TypeInv, FreshInv, FreshReq, NilSlice, Slice
<1>1. \A g \in Handlers : req[g].since \in Nat /\ req[g].since <= file
    BY DEF TypeInv, Request, FreshInv, FreshReq
<1>2. \A g \in Handlers : req[g].slice.array \in Live /\ cat.array \in Live
    BY DEF Live
<1>3. \E r : /\ Goto(h, r) /\ r.since = req[h].since /\ r.refs = req[h].refs
             /\ r.slice = NilSlice /\ r.pc # "ptr" /\ (r.pc \in LoadPcs => r.ver = file)
             /\ \A x \in Live : x \in Arrays => mem'[x] = mem[x]
    <2>1. CASE Goto(h, FailedLoad(req[h])) /\ UNCHANGED <<mem, mutex>>
        <3> DEFINE r == FailedLoad(req[h])
        <3>1. /\ r.since = req[h].since /\ r.refs = req[h].refs /\ r.slice = NilSlice /\ r.pc = "use"
            BY <1>0 DEF FailedLoad, Request
        <3> HIDE DEF r
        <3> QED BY <2>1, <3>1 DEF LoadPcs, r
    <2>2. CASE \E a \in Arrays \ Live :
                   /\ mutex' = h
                   /\ mem'[a] = Upto(file, 1)
                   /\ \A x \in Live : x \in Arrays => mem'[x] = mem[x]
                   /\ Goto(h, [req[h] EXCEPT !.pc = "set", !.ver = file,
                                             !.new = Slice(a, Size(file))])
        <3>1. PICK a : /\ \A x \in Live : x \in Arrays => mem'[x] = mem[x]
                       /\ Goto(h, [req[h] EXCEPT !.pc = "set", !.ver = file,
                                                 !.new = Slice(a, Size(file))])
            BY <2>2
        <3> DEFINE r == [req[h] EXCEPT !.pc = "set", !.ver = file, !.new = Slice(a, Size(file))]
        <3>2. /\ r.since = req[h].since /\ r.refs = req[h].refs /\ r.slice = req[h].slice
              /\ r.pc = "set" /\ r.ver = file /\ Goto(h, r)
            BY <1>0, <3>1 DEF Request
        <3> HIDE DEF r
        <3> QED BY <1>0, <3>1, <3>2
    <2> QED BY <2>1, <2>2, Locking
<1>4. PICK r : /\ Goto(h, r) /\ r.since = req[h].since /\ r.refs = req[h].refs
               /\ r.slice = NilSlice /\ r.pc # "ptr" /\ (r.pc \in LoadPcs => r.ver = file)
               /\ \A x \in Live : x \in Arrays => mem'[x] = mem[x]
    BY <1>3
<1>5. req'[h] = r /\ \A g \in Handlers : g # h => req'[g] = req[g]
    BY <1>4, GotoFacts DEF TypeInv
<1>6. ASSUME NEW n \in Nat, n <= file, LoadersFrom(n) PROVE LoadersFrom(n)'
    BY <1>0, <1>4, <1>5, <1>6 DEF LoadersFrom
<1>7. ASSUME NEW g \in Handlers, g # h PROVE FreshReq(req[g])'
    <2>1. FreshReq(req[g]) /\ req'[g] = req[g]
        BY <1>5, <1>7 DEF FreshInv
    <2>2. Sees(req[g]) => LoadersFrom(req[g].since)'
        BY <1>1, <1>6, <2>1 DEF FreshReq
    <2>3. Fresh(req[g].since, req[g].slice.array) => Fresh(req[g].since, req[g].slice.array)'
        BY <1>2, <1>4, <2>1 DEF Fresh
    <2>4. Fresh(req[g].since, cat.array) => Fresh(req[g].since, cat.array)'
        BY <1>0, <1>2, <1>4, <2>1 DEF Fresh
    <2> QED BY <1>0, <2>1, <2>2, <2>3, <2>4 DEF FreshReq, Sees
<1>8. FreshReq(req[h])'
    BY <1>0, <1>1, <1>4, <1>5 DEF FreshReq, Fresh, Sees
<1> QED BY <1>7, <1>8 DEF FreshInv

LEMMA StoreFresh ==
    ASSUME TypeInv, SettledInv, FreshInv, NEW h \in Handlers, StoreFirst(h) \/ StoreSecond(h)
    PROVE  FreshInv'
<1>0. /\ req[h] \in Request /\ req[h].pc \in {"set", "setLen", "setArray"} /\ LoadInv(req[h])
      /\ UNCHANGED <<file, mem>> /\ FreshReq(req[h]) /\ cat \in Slices
      /\ NilSlice.array \notin Arrays /\ req[h].ver \in Files
    BY CatalogAssumption
       DEF StoreFirst, StoreSecond, At, TypeInv, FreshInv, SettledInv, DecodeInv, LoadInv,
           LoadPcs, NilSlice, Slice
<1>1. \E r : /\ Goto(h, r) /\ r.since = req[h].since /\ r.refs = req[h].refs
             /\ r.slice = NilSlice /\ r.pc \in LoadPcs /\ r.ver = req[h].ver
    <2>1. req[h].slice = NilSlice
        BY <1>0 DEF FreshReq
    <2>2. ASSUME NEW p \in LoadPcs
          PROVE  LET r == [req[h] EXCEPT !.pc = p]  IN
                 /\ r.since = req[h].since /\ r.refs = req[h].refs
                 /\ r.slice = NilSlice /\ r.pc \in LoadPcs /\ r.ver = req[h].ver
        BY <1>0, <2>1 DEF Request
    <2>3. LET r == [req[h] EXCEPT !.pc = "new", !.new = NilSlice, !.k = 1]  IN
          /\ r.since = req[h].since /\ r.refs = req[h].refs
          /\ r.slice = NilSlice /\ r.pc \in LoadPcs /\ r.ver = req[h].ver
        BY <1>0, <2>1 DEF Request, LoadPcs
    <2>4. \/ Goto(h, [req[h] EXCEPT !.pc = "setLen"])
          \/ Goto(h, [req[h] EXCEPT !.pc = "setArray"])
          \/ Goto(h, [req[h] EXCEPT !.pc = "new", !.new = NilSlice, !.k = 1])
        BY DEF StoreFirst, StoreSecond
    <2>5. "setLen" \in LoadPcs /\ "setArray" \in LoadPcs
        BY DEF LoadPcs
    <2> QED BY <2>2, <2>3, <2>4, <2>5
<1>2. PICK r : /\ Goto(h, r) /\ r.since = req[h].since /\ r.refs = req[h].refs
               /\ r.slice = NilSlice /\ r.pc \in LoadPcs /\ r.ver = req[h].ver
    BY <1>1
<1>3. req'[h] = r /\ \A g \in Handlers : g # h => req'[g] = req[g]
    BY <1>2, GotoFacts DEF TypeInv
<1>4. \A n : LoadersFrom(n) => LoadersFrom(n)'
    BY <1>0, <1>2, <1>3 DEF LoadersFrom, LoadPcs
<1>5. \/ cat'.array = cat.array
      \/ cat'.array \in Arrays /\ mem[cat'.array] = Upto(req[h].ver, 1)
    <2>1. CASE cat' = [cat EXCEPT !.len = req[h].new.len]
        BY <1>0, <2>1 DEF Slices
    <2>2. CASE cat' = [cat EXCEPT !.array = req[h].new.array] /\ req[h].pc \in {"set", "setArray"}
        BY <1>0, <2>2 DEF Slices, LoadInv
    <2> QED BY <2>1, <2>2 DEF StoreFirst, StoreSecond, At
<1>6. ASSUME NEW g \in Handlers, g # h PROVE FreshReq(req[g])'
    <2>1. FreshReq(req[g]) /\ req'[g] = req[g] /\ req[g].since \in Nat
        BY <1>3, <1>6 DEF FreshInv, TypeInv, Request
    <2>2. req[g].pc = "ptr" => Fresh(req[g].since, cat.array)'
        <3>1. CASE cat'.array = cat.array
            BY <1>0, <2>1, <3>1 DEF FreshReq, Fresh
        <3>2. CASE cat'.array \in Arrays /\ mem[cat'.array] = Upto(req[h].ver, 1)
            <4> SUFFICES ASSUME req[g].pc = "ptr" PROVE Fresh(req[g].since, cat.array)'
                OBVIOUS
            <4>1. req[g].since <= req[h].ver
                BY <1>0, <2>1, VersionFacts DEF FreshReq, Sees, LoadersFrom, LoadPcs
            <4>2. 1 \in Nat
                OBVIOUS
            <4> QED BY <1>0, <2>1, <3>2, <4>1, <4>2, FilledFresh DEF Fresh
        <3> QED BY <1>5, <3>1, <3>2
    <2> QED BY <1>0, <1>4, <2>1, <2>2 DEF FreshReq, Sees, Fresh
<1>7. FreshReq(req[h])'
    BY <1>0, <1>2, <1>3 DEF FreshReq, Fresh, Sees, LoadPcs
<1> QED BY <1>6, <1>7 DEF FreshInv

LEMMA DecodeFresh ==
    ASSUME TypeInv, SettledInv, FreshInv, NEW h \in Handlers, NewElem(h) \/ FillElem(h)
    PROVE  FreshInv'
<1> DEFINE v == req[h].ver
           k == req[h].k
<1>0. /\ req[h] \in Request /\ mutex = h /\ v \in Files /\ k \in Nat \ {0} /\ k + 1 \in Nat
      /\ cat.array \in Arrays /\ UNCHANGED <<file, cat>> /\ FreshReq(req[h])
      /\ NilSlice.array \notin Arrays /\ req[h].pc \in LoadPcs /\ mem \in [Arrays -> Seq(Element)]
    <2>1. /\ mutex = h /\ v \in Files /\ k \in Nat \ {0}
          /\ cat.array \in Arrays /\ UNCHANGED <<file, cat>>
        BY Decoding
    <2>2. req[h] \in Request /\ FreshReq(req[h]) /\ mem \in [Arrays -> Seq(Element)]
        BY DEF TypeInv, FreshInv
    <2>3. NilSlice.array \notin Arrays
        BY CatalogAssumption DEF NilSlice, Slice
    <2>4. req[h].pc \in LoadPcs
        BY DEF NewElem, FillElem, At, LoadPcs
    <2> QED BY <2>1, <2>2, <2>3, <2>4
<1>1. /\ req[h].slice = NilSlice /\ req[h].since <= v /\ req[h].since \in Nat
      /\ req[h].since <= file /\ \A x \in req[h].refs : x.of >= req[h].since
    BY <1>0, VersionFacts DEF FreshReq, LoadPcs, Request
<1>2. \A g \in Handlers : g # h => req[g].pc \notin LoadPcs
    BY <1>0, OnlyLoader
\* The array that changes, and the others.
<1>3. /\ \A x \in Arrays : x # cat.array => mem'[x] = mem[x]
      /\ mem'[cat.array] = mem[cat.array] \/ mem'[cat.array] \in {Into(v, k), Upto(v, k + 1)}
    <2>1. \/ mem' = [mem EXCEPT ![cat.array] = Into(v, k)]
          \/ mem' = [mem EXCEPT ![cat.array] = Upto(v, k + 1)]
          \/ mem' = mem
        BY Decoding
    <2> HIDE DEF v, k
    <2> QED BY <1>0, <2>1
<1>4. \E r : /\ Goto(h, r) /\ r.since = req[h].since /\ r.refs = req[h].refs /\ r.slice = NilSlice
             /\ \/ r.pc \in LoadPcs /\ r.ver = v
                \/ r.pc = "ptr" /\ mem[cat.array] = Decoded(v) /\ mem' = mem
                \/ r.pc = "use"
    <2>1. CASE Goto(h, [req[h] EXCEPT !.pc = "fill"])
        <3> DEFINE r == [req[h] EXCEPT !.pc = "fill"]
        <3>1. /\ r.since = req[h].since /\ r.refs = req[h].refs /\ r.slice = NilSlice
              /\ r.pc \in LoadPcs /\ r.ver = v /\ Goto(h, r)
            BY <1>0, <1>1, <2>1 DEF Request, LoadPcs
        <3> HIDE DEF r
        <3> QED BY <3>1
    <2>2. CASE Goto(h, [req[h] EXCEPT !.pc = "new", !.k = @ + 1])
        <3> DEFINE r == [req[h] EXCEPT !.pc = "new", !.k = @ + 1]
        <3>1. /\ r.since = req[h].since /\ r.refs = req[h].refs /\ r.slice = NilSlice
              /\ r.pc \in LoadPcs /\ r.ver = v /\ Goto(h, r)
            BY <1>0, <1>1, <2>2 DEF Request, LoadPcs
        <3> HIDE DEF r
        <3> QED BY <3>1
    <2>3. CASE /\ mem[cat.array] = Decoded(v) /\ mem' = mem
               /\ Goto(h, [req[h] EXCEPT !.pc = "ptr", !.ver = 0, !.k = 0])
        <3> DEFINE r == [req[h] EXCEPT !.pc = "ptr", !.ver = 0, !.k = 0]
        <3>1. /\ r.since = req[h].since /\ r.refs = req[h].refs /\ r.slice = NilSlice
              /\ r.pc = "ptr" /\ Goto(h, r)
            BY <1>0, <1>1, <2>3 DEF Request
        <3> HIDE DEF r
        <3> QED BY <2>3, <3>1
    <2>4. CASE Goto(h, FailedLoad(req[h]))
        <3> DEFINE r == FailedLoad(req[h])
        <3>1. /\ r.since = req[h].since /\ r.refs = req[h].refs /\ r.slice = NilSlice
              /\ r.pc = "use" /\ Goto(h, r)
            BY <1>0, <2>4 DEF Request, FailedLoad
        <3> HIDE DEF r
        <3> QED BY <3>1
    <2> QED BY <2>1, <2>2, <2>3, <2>4, Decoding
<1>5. PICK r : /\ Goto(h, r) /\ r.since = req[h].since /\ r.refs = req[h].refs /\ r.slice = NilSlice
               /\ \/ r.pc \in LoadPcs /\ r.ver = v
                  \/ r.pc = "ptr" /\ mem[cat.array] = Decoded(v) /\ mem' = mem
                  \/ r.pc = "use"
    BY <1>4
<1>6. req'[h] = r /\ \A g \in Handlers : g # h => req'[g] = req[g]
    BY <1>5, GotoFacts DEF TypeInv
<1> HIDE DEF k
<1>7. \A n : LoadersFrom(n) => LoadersFrom(n)'
    BY <1>0, <1>5, <1>6 DEF LoadersFrom, LoadPcs
<1> HIDE DEF v
<1>8. ASSUME NEW g \in Handlers, g # h PROVE FreshReq(req[g])'
    <2>1. FreshReq(req[g]) /\ req'[g] = req[g] /\ req[g].since \in Nat
        BY <1>6, <1>8 DEF FreshInv, TypeInv, Request
    <2>2. ASSUME Sees(req[g]), NEW a, Fresh(req[g].since, a) PROVE Fresh(req[g].since, a)'
        <3>1. req[g].since <= v
            BY <1>0, <2>1, <2>2, VersionFacts DEF FreshReq, LoadersFrom, v
        <3>2. CASE a \in Arrays /\ mem'[a] \in {Into(v, k), Upto(v, k + 1)}
            <4>1. k \in Nat
                BY <1>0
            <4> QED BY <1>0, <2>1, <3>1, <3>2, <4>1, FilledFresh DEF Fresh
        <3>3. CASE ~(a \in Arrays /\ mem'[a] \in {Into(v, k), Upto(v, k + 1)})
            BY <1>3, <2>2, <2>1, <3>3 DEF Fresh
        <3> QED BY <3>2, <3>3
    <2>3. req[g].slice.array \in Arrays => Fresh(req[g].since, req[g].slice.array)'
        BY <2>1, <2>2 DEF FreshReq, Sees
    <2>4. req[g].pc = "ptr" => Fresh(req[g].since, cat.array)'
        BY <1>0, <2>1, <2>2 DEF FreshReq, Sees
    <2>5. Fresh(req[g].since, req[g].slice.array)'
        BY <2>1, <2>3 DEF Fresh
    <2> QED BY <1>0, <1>7, <2>1, <2>4, <2>5 DEF FreshReq, Sees, Fresh
<1>9. FreshReq(req[h])'
    <2>1. r.pc = "ptr" => Fresh(r.since, cat.array)'
        <3> SUFFICES ASSUME r.pc = "ptr" PROVE Fresh(r.since, cat.array)'
            OBVIOUS
        <3>1. mem' = mem /\ mem[cat.array] = Decoded(v) /\ r.since = req[h].since
            BY <1>5 DEF LoadPcs
        <3>2. k \in Nat
            BY <1>0
        <3> QED BY <1>0, <1>1, <3>1, <3>2, FilledFresh DEF Fresh
    <2>2. r.pc = "ptr" => LoadersFrom(r.since)'
        BY <1>2, <1>6 DEF LoadersFrom, LoadPcs
    <2>3. r.pc \in LoadPcs => r.ver >= r.since
        BY <1>1, <1>5, <1>0, VersionFacts DEF LoadPcs
    <2> QED BY <1>0, <1>1, <1>5, <1>6, <2>1, <2>2, <2>3 DEF FreshReq, Fresh, Sees
<1> QED BY <1>8, <1>9 DEF FreshInv

LEMMA NextFresh == TypeInv /\ SettledInv /\ FreshInv /\ [Next]_vars => FreshInv'
<1> SUFFICES ASSUME TypeInv, SettledInv, FreshInv, [Next]_vars PROVE FreshInv'
    OBVIOUS
<1>0. TypeInv' /\ file \in Nat /\ file' \in Nat /\ NilSlice.array \notin Arrays
    <2>1. TypeInv' /\ NilSlice.array \notin Arrays
        BY NextSettled, CatalogAssumption DEF NilSlice, Slice
    <2>2. \A v \in Files : v \in Nat
        BY VersionFacts
    <2> QED BY <2>1, <2>2 DEF TypeInv
<1>1. ASSUME \A h \in Handlers : req'[h] = Idle PROVE FreshInv'
    BY <1>0, <1>1 DEF FreshInv, FreshReq, Idle, Fresh, Sees, LoadPcs
<1>2. CASE EditFile \/ ReceiveSignal \/ UNCHANGED vars
    <2>1. UNCHANGED <<cat, mem, req>> /\ file' >= file
        BY <1>0, <1>2 DEF EditFile, ReceiveSignal, vars
    <2>2. ASSUME NEW h \in Handlers PROVE req[h].since <= file'
        BY <1>0, <2>1 DEF FreshInv, FreshReq, TypeInv, Request
    <2> QED BY <2>1, <2>2 DEF FreshInv, FreshReq, Fresh, Sees, LoadersFrom
<1>3. CASE Restart
    BY <1>1, <1>3 DEF Restart, Start, SettledInv, Down
<1>4. CASE \E h \in Handlers : Begin(h) \/ Load(h) \/ Step(h)
    <2>1. PICK h \in Handlers : Begin(h) \/ Load(h) \/ Step(h)
        BY <1>4
    <2>2. CASE Crash
        BY <1>1, <2>2 DEF Crash
    <2> QED BY <2>1, <2>2, StepCases, MovesFresh, LockFresh, StoreFresh, DecodeFresh
<1> QED BY <1>2, <1>3, <1>4 DEF Next

\* With reloading on, no answer has a product older than the version on file
\* when the request arrived, whoever else loads at the same time: parseCatalog
\* reads again at every call, and a later holder of the mutex a later file.
THEOREM EditsSeenAtOnce == Spec => []EditsPickedUp
<1>1. Init => FreshInv
    <2> SUFFICES ASSUME Init, NEW h \in Handlers PROVE FreshReq(req[h])
        BY DEF FreshInv
    <2>1. file \in Files /\ req[h] = Idle
        BY DEF Init
    <2> QED BY <2>1, VersionFacts, IdleFresh
<1>2. FreshInv => EditsPickedUp
    BY DEF FreshInv, FreshReq, EditsPickedUp
<1> QED BY <1>1, <1>2, NextFresh, SettledAlways, PTL DEF Spec

-----------------------------------------------------------------------------
(***************************************************************************)
(* ExactInv is inductive.                                                  *)
(***************************************************************************)

\* What a request sees of a catalog that has been parsed to its end.
LEMMA WholeView ==
    ASSUME TypeInv, Parsed, Whole, NEW r, r.slice = cat, r.i \in Nat \ {0}
    PROVE  /\ InSlice(r) <=> r.i <= Size(image)
           /\ ArrayLen(r) = Size(image) /\ Size(image) \in Nat /\ r.slice.len = Size(image)
           /\ r.i <= Size(image) =>
                /\ InArray(r) /\ ElemOf(r) # NoElem
                /\ Here(r) = {Product(image, r.i)}
                /\ MayMatch(r) <=> Id(image, r.i) = r.want
                /\ MayDiffer(r) <=> Id(image, r.i) # r.want
<1>1. /\ image \in Files /\ Size(image) \in Nat /\ image \in Nat \ {0}
      /\ cat.len = Size(image) /\ cat.array \in Arrays /\ mem[cat.array] = Decoded(image)
      /\ cat.array # NoArray
    BY VersionFacts, CatalogAssumption DEF TypeInv, Parsed, Whole
<1>2. Len(Decoded(image)) = Size(image)
    <2>1. 0 \in Nat
        OBVIOUS
    <2> QED BY <1>1, <2>1, ElementSeqs
<1>3. ArrayLen(r) = Size(image) /\ (InSlice(r) <=> r.i <= Size(image))
    BY <1>1, <1>2 DEF ArrayLen, InSlice
<1>4. ASSUME r.i <= Size(image)
      PROVE  InArray(r) /\ ElemOf(r) = Elem(image, TRUE)
    <2>1. r.i \in 1 .. Size(image) /\ r.i <= Versions[image].good
        BY <1>1, <1>4 DEF Whole
    <2>2. Decoded(image)[r.i] = Elem(image, TRUE)
        BY <2>1 DEF Decoded
    <2> QED BY <1>1, <1>3, <1>4, <2>2 DEF InArray, ElemOf
<1>5. Elem(image, TRUE) # NoElem /\ Elem(image, TRUE).of = image /\ Elem(image, TRUE).whole
    BY <1>1 DEF Elem, NoElem
<1> QED BY <1>1, <1>3, <1>4, <1>5 DEF Here, MayMatch, MayDiffer

LEMMA FoundBeforeFacts ==
    ASSUME TypeInv, NEW r, r.i \in Nat \ {0}
    PROVE  /\ r.i = 1 => FoundBefore(r) = {}
           /\ r.i > Size(image) => FoundBefore(r) = Ids(image) \cap {r.want}
           /\ \A q : q.i = r.i + 1 /\ q.want = r.want /\ r.i <= Size(image) =>
                 FoundBefore(q) = FoundBefore(r) \cup ({Id(image, r.i)} \cap {r.want})
<1>1. Size(image) \in Nat
    BY VersionFacts DEF TypeInv
<1>2. ASSUME r.i = 1 PROVE FoundBefore(r) = {}
    BY <1>1, <1>2 DEF FoundBefore
<1>3. ASSUME r.i > Size(image) PROVE FoundBefore(r) = Ids(image) \cap {r.want}
    <2>1. {n \in 1 .. Size(image) : n < r.i} = 1 .. Size(image)
        BY <1>1, <1>3
    <2> QED BY <2>1 DEF FoundBefore, Ids
<1>4. ASSUME NEW q, q.i = r.i + 1, q.want = r.want, r.i <= Size(image)
      PROVE  FoundBefore(q) = FoundBefore(r) \cup ({Id(image, r.i)} \cap {r.want})
    <2>1. {n \in 1 .. Size(image) : n < q.i} = {n \in 1 .. Size(image) : n < r.i} \cup {r.i}
        BY <1>1, <1>4
    <2> DEFINE before == {n \in 1 .. Size(image) : n < r.i}
    <2>2. {n \in 1 .. Size(image) : n < q.i} = before \cup {r.i}
        BY <2>1
    <2> HIDE DEF before
    <2>3. {Id(image, j) : j \in before \cup {r.i}} = {Id(image, j) : j \in before} \cup {Id(image, r.i)}
        OBVIOUS
    <2> QED BY <1>4, <2>2, <2>3 DEF FoundBefore, before
<1> QED BY <1>2, <1>3, <1>4

LEMMA UseExact ==
    ASSUME TypeInv, Parsed, Whole, NEW h \in Handlers, NEW r, HandlerStep(h, r),
           req[h].pc = "use", req[h].slice = cat, Progress(req[h]),
           CountLoop(h) \/ CompareId(h) \/ TakeProduct(h) \/ ListProducts(h) \/ SearchNext(h)
    PROVE  /\ r.pc \notin LoadPcs /\ Progress(r)
           /\ r.pc = "use" => r.slice = cat
<1> DEFINE p == req[h]
<1>0. /\ p \in Request /\ p.i \in Nat \ {0} /\ p.pc = "use" /\ p.slice = cat
      /\ Size(image) \in Nat /\ "use" \in CallPcs
    BY VersionFacts DEF TypeInv, Request, CallPcs
<1>1. r = req'[h]
    BY GotoFacts DEF HandlerStep, TypeInv
<1>2. /\ Next1(p) \in Request /\ Next1(p).i = p.i + 1 /\ Next1(p).pc = "use"
      /\ Next1(p).kind = p.kind /\ Next1(p).site = p.site /\ Next1(p).want = p.want
      /\ Next1(p).refs = p.refs /\ Next1(p).slice = p.slice
    <2>1. Next1(p) \in Request
        BY <1>0, CallingType
    <2> QED BY <1>0, <2>1 DEF Next1, Request
<1>3. ASSUME NEW q \in Request, NEW site
      PROVE  LET c == Calling(q, site)  d == Done(q) IN
             /\ c.pc = "check" /\ c.site = site /\ c.kind = q.kind /\ c.want = q.want
             /\ c.i = q.i /\ c.refs = q.refs
             /\ d.pc = "reply" /\ d.kind = q.kind /\ d.want = q.want /\ d.refs = q.refs
    BY DEF Calling, Done, Request
<1>4. /\ InSlice(p) <=> p.i <= Size(image)
      /\ p.slice.len = Size(image)
      /\ p.i <= Size(image) =>
           /\ InArray(p) /\ Here(p) = {Product(image, p.i)}
           /\ MayMatch(p) <=> Id(image, p.i) = p.want
           /\ MayDiffer(p) <=> Id(image, p.i) # p.want
    BY <1>0, WholeView
<1>5. /\ \/ p.kind = "get" /\ p.site \in {"count", "id", "take"}
         \/ p.kind \in {"list", "search"} /\ p.site = "all"
      /\ p.site \in {"id", "take"} => p.i <= Size(image)
      /\ p.site = "take" => Id(image, p.i) = p.want
      /\ p.kind # "list" /\ p.site # "take" => Found(p) = FoundBefore(p)
    BY <1>0 DEF Progress
<1>6. /\ p.i > Size(image) => FoundBefore(p) = Ids(image) \cap {p.want}
      /\ \A q : q.i = p.i + 1 /\ q.want = p.want /\ p.i <= Size(image) =>
            FoundBefore(q) = FoundBefore(p) \cup ({Id(image, p.i)} \cap {p.want})
    BY <1>0, FoundBeforeFacts
<1>7. FoundBefore(p) \subseteq {p.want}
    BY DEF FoundBefore
<1>8. p.i <= Size(image) => {x.id : x \in Here(p)} = {Id(image, p.i)}
    <2>1. Product(image, p.i).id = Id(image, p.i)
        BY DEF Product
    <2>2. \A P : {x.id : x \in {P}} = {P.id}
        OBVIOUS
    <2> QED BY <1>4, <2>1, <2>2
<1> HIDE DEF p
\* The end of the loop, and the next call of parseCatalog in it.
<1>9. ASSUME r = Done(p), p.kind # "list", p.site # "take", p.i > Size(image)
      PROVE  Progress(r) /\ r.pc = "reply"
    <2>1. /\ r.pc = "reply" /\ r.kind = p.kind /\ r.want = p.want /\ r.refs = p.refs
        BY <1>0, <1>3, <1>9
    <2>2. Found(r) = Exact(r)
        BY <1>5, <1>6, <1>9, <2>1 DEF Found, Exact
    <2> QED BY <2>1, <2>2 DEF Progress, CallPcs
<1>10. CASE CountLoop(h)
    <2>1. p.site = "count"
        BY <1>10 DEF CountLoop, Using, p
    <2>2. r = IF InSlice(p) THEN Calling(p, "id") ELSE Done(p)
        BY <1>1, <1>10, GotoFacts DEF CountLoop, HandlerStep, TypeInv, p
    <2>3. CASE InSlice(p)
        <3>1. /\ r.pc = "check" /\ r.site = "id" /\ r.kind = p.kind /\ r.want = p.want
              /\ r.i = p.i /\ r.refs = p.refs
            BY <1>0, <1>3, <2>2, <2>3
        <3> QED BY <1>4, <1>5, <2>1, <2>3, <3>1 DEF Progress, Found, FoundBefore, LoadPcs
    <2>4. CASE ~InSlice(p)
        BY <1>0, <1>4, <1>5, <1>9, <2>1, <2>2, <2>4 DEF LoadPcs
    <2> QED BY <2>3, <2>4
<1>11. CASE CompareId(h)
    <2>1. p.site = "id" /\ p.i <= Size(image) /\ p.kind = "get"
        BY <1>5, <1>11 DEF CompareId, Using, p
    <2>2. \/ MayMatch(p) /\ r = Calling(p, "take")
          \/ MayDiffer(p) /\ r = Calling(Next1(p), "count")
        BY <1>1, <1>11, GotoFacts DEF CompareId, HandlerStep, TypeInv, p
    <2>3. CASE MayMatch(p) /\ r = Calling(p, "take")
        <3>1. /\ r.pc = "check" /\ r.site = "take" /\ r.kind = p.kind /\ r.want = p.want
              /\ r.i = p.i /\ r.refs = p.refs
            BY <1>0, <1>3, <2>3
        <3> QED BY <1>4, <2>1, <2>3, <3>1 DEF Progress, LoadPcs
    <2>4. CASE MayDiffer(p) /\ r = Calling(Next1(p), "count")
        <3>1. /\ r.pc = "check" /\ r.site = "count" /\ r.kind = p.kind /\ r.want = p.want
              /\ r.i = p.i + 1 /\ r.refs = p.refs
            BY <1>2, <1>3, <2>4
        <3>2. FoundBefore(r) = FoundBefore(p)
            BY <1>4, <1>6, <2>1, <2>4, <3>1
        <3> QED BY <1>5, <2>1, <3>1, <3>2 DEF Progress, Found, LoadPcs
    <2> QED BY <2>2, <2>3, <2>4
<1>12. CASE TakeProduct(h)
    <2>1. p.site = "take" /\ p.i <= Size(image) /\ p.kind = "get" /\ Id(image, p.i) = p.want
        BY <1>5, <1>12 DEF TakeProduct, Using, p
    <2> DEFINE q == [Next1(p) EXCEPT !.refs = Here(p)]
    <2>2. /\ q \in Request /\ q.kind = p.kind /\ q.want = p.want /\ q.i = p.i + 1 /\ q.refs = Here(p)
        BY <1>2, WholeSliceType DEF Request, p
    <2>3. HandlerStep(h, Calling(q, "count"))
        BY <1>12 DEF TakeProduct, p
    <2> HIDE DEF q
    <2>4. r = Calling(q, "count")
        BY <1>1, <2>3, GotoFacts DEF HandlerStep, TypeInv
    <2>5. /\ r.pc = "check" /\ r.site = "count" /\ r.kind = p.kind /\ r.want = p.want
          /\ r.i = p.i + 1 /\ r.refs = Here(p)
        BY <1>3, <2>2, <2>4
    <2>6. Found(r) = {p.want}
        BY <1>8, <2>1, <2>5 DEF Found
    <2>7. FoundBefore(r) = {p.want}
        BY <1>6, <1>7, <2>1, <2>5
    <2> QED BY <2>1, <2>5, <2>6, <2>7 DEF Progress, LoadPcs
<1>13. CASE ListProducts(h)
    <2> DEFINE q == [p EXCEPT !.refs = WholeSlice(p)]
    <2>1. q \in Request /\ q.kind = "list" /\ q.refs = WholeSlice(p)
        BY <1>0, <1>13, WholeSliceType DEF Request, ListProducts, p
    <2>2. HandlerStep(h, Done(q))
        BY <1>13 DEF ListProducts, p
    <2> HIDE DEF q
    <2>3. r = Done(q)
        BY <1>1, <2>2, GotoFacts DEF HandlerStep, TypeInv
    <2>4. r.pc = "reply" /\ r.kind = "list" /\ r.refs = WholeSlice(p)
        BY <1>3, <2>1, <2>3
    <2>5. ASSUME NEW k \in 1 .. Size(image)
          PROVE  Here([p EXCEPT !.i = k]) = {Product(image, k)}
        <3> DEFINE q1 == [p EXCEPT !.i = k]
        <3>1. q1.i = k /\ q1.slice = cat
            BY <1>0 DEF Request
        <3> HIDE DEF q1
        <3>2. Here(q1) = {Product(image, q1.i)}
            BY <1>0, <3>1, WholeView
        <3> QED BY <3>1, <3>2 DEF q1
    <2> DEFINE at(k) == Here([p EXCEPT !.i = k])
    <2>a. \A k \in 1 .. Size(image) : at(k) = {Product(image, k)}
        BY <2>5
    <2>b. WholeSlice(p) = UNION {at(k) : k \in 1 .. Size(image)}
        BY <1>4 DEF WholeSlice
    <2> HIDE DEF at
    <2>6. \A x : x \in WholeSlice(p) <=> \E k \in 1 .. Size(image) : x = Product(image, k)
        BY <2>a, <2>b
    <2>7. Found(r) = Ids(image)
        <3>1. \A k : Product(image, k).id = Id(image, k)
            BY DEF Product
        <3>2. \A y : y \in Found(r) <=> \E x \in WholeSlice(p) : y = x.id
            BY <2>4 DEF Found
        <3>3. \A y : y \in Ids(image) <=> \E k \in 1 .. Size(image) : y = Id(image, k)
            BY DEF Ids
        <3>4. \A y : y \in Found(r) <=> \E k \in 1 .. Size(image) : y = Product(image, k).id
            BY <2>6, <3>2
        <3>5. \A y : y \in Found(r) <=> y \in Ids(image)
            BY <3>1, <3>3, <3>4
        <3> QED BY <3>5
    <2> QED BY <2>4, <2>7 DEF Progress, Exact, CallPcs, LoadPcs
<1>14. CASE SearchNext(h)
    <2>1. p.site = "all" /\ p.kind = "search"
        BY <1>14 DEF SearchNext, Using, p
    <2> DEFINE q == [Next1(p) EXCEPT !.refs = @ \cup Here(p)]
    <2>2. /\ q.pc = "use" /\ q.kind = p.kind /\ q.site = p.site /\ q.want = p.want
          /\ q.i = p.i + 1 /\ q.refs = p.refs \cup Here(p) /\ q.slice = cat
        BY <1>0, <1>2 DEF Request
    <2>3. \/ ~InSlice(p) /\ r = Done(p)
          \/ InSlice(p) /\ MayMatch(p) /\ r = q
          \/ InSlice(p) /\ MayDiffer(p) /\ r = Next1(p)
        BY <1>1, <1>14, GotoFacts DEF SearchNext, HandlerStep, TypeInv, p
    <2> HIDE DEF q
    <2>4. CASE ~InSlice(p) /\ r = Done(p)
        BY <1>0, <1>4, <1>9, <2>1, <2>4 DEF LoadPcs
    <2>5. CASE InSlice(p) /\ MayMatch(p) /\ r = q
        <3>1. Found(q) = Found(p) \cup {x.id : x \in Here(p)}
            BY <2>2 DEF Found
        <3>2. FoundBefore(q) = FoundBefore(p) \cup {p.want} /\ Id(image, p.i) = p.want
            BY <1>4, <1>6, <2>2, <2>5
        <3>3. Found(q) = FoundBefore(q)
            BY <1>4, <1>5, <1>8, <2>1, <2>5, <3>1, <3>2
        <3> QED BY <2>1, <2>2, <2>5, <3>3 DEF Progress, LoadPcs
    <2>6. CASE InSlice(p) /\ MayDiffer(p) /\ r = Next1(p)
        <3>1. FoundBefore(r) = FoundBefore(p)
            BY <1>2, <1>4, <1>6, <2>6
        <3> QED BY <1>0, <1>2, <1>5, <2>1, <2>6, <3>1 DEF Progress, Found, LoadPcs
    <2> QED BY <2>3, <2>4, <2>5, <2>6
<1> QED BY <1>10, <1>11, <1>12, <1>13, <1>14

\* The conjuncts of ExactInv about one request.
ExactReq(r) ==
    /\ r.pc \notin LoadPcs
    /\ r.pc \in {"ptr", "use"} => Versions[image].form = "json"
    /\ r.pc = "use" => r.slice = cat
    /\ Whole => Progress(r)

LEMMA MovesExact ==
    ASSUME TypeInv, SettledInv, ExactInv, NEW h \in Handlers, Moves(h)
    PROVE  ExactInv'
<1> SUFFICES ASSUME up, ~loads PROVE ExactInv'
    BY MovesPc DEF HandlerStep, ExactInv
<1>0. req[h] \in Request /\ ExactReq(req[h]) /\ Parsed /\ image \in Files /\ Size(image) \in Nat
    BY VersionFacts DEF TypeInv, ExactInv, ExactReq
<1>a. PICK r : HandlerStep(h, r) /\ r.pc \notin LoadPcs
    BY MovesPc
<1>b. /\ r = req'[h] /\ \A g \in Handlers : g # h => req'[g] = req[g]
      /\ UNCHANGED <<file, image, cat, mem, mutex, reloadCatalog, up, loads>>
    BY <1>a, GotoFacts DEF HandlerStep, TypeInv
<1> SUFFICES ExactReq(r)
    BY <1>b DEF ExactInv, ExactReq, Parsed, Whole, Progress, Exact, FoundBefore
<1>1. CASE Begin(h)
    <2>1. PICK kind \in Kinds, w \in Wanted :
            Goto(h, Calling([Idle EXCEPT !.kind = kind, !.want = w, !.since = file],
                            IF kind = "get" THEN "count" ELSE "all"))
        BY <1>1 DEF Begin
    <2> DEFINE site == IF kind = "get" THEN "count" ELSE "all"
               q == Calling([Idle EXCEPT !.kind = kind, !.want = w, !.since = file], site)
    <2>2. /\ q.pc = "check" /\ q.kind = kind /\ q.site = site /\ q.i = 1 /\ q.refs = {}
        BY DEF Calling, Idle
    <2>3. r = q
        BY <1>b, <2>1, GotoFacts DEF TypeInv
    <2>4. /\ \/ kind = "get" /\ site \in {"count", "id", "take"}
             \/ kind \in {"list", "search"} /\ site = "all"
          /\ site \notin {"id", "take"}
        BY CatalogAssumption
    <2> HIDE DEF q, site
    <2>5. FoundBefore(q) = {} /\ Found(q) = {}
        BY <2>2, FoundBeforeFacts DEF Found
    <2> QED BY <2>2, <2>3, <2>4, <2>5 DEF ExactReq, Progress, LoadPcs
<1>2. ASSUME NEW q, q.pc \in {"lock", "ptr", "use"}, req[h].pc \in CallPcs,
             q.kind = req[h].kind, q.site = req[h].site, q.want = req[h].want,
             q.i = req[h].i, q.refs = req[h].refs, Whole
      PROVE  Progress(q)
    BY <1>0, <1>2 DEF ExactReq, Progress, CallPcs, Found, FoundBefore
<1>3. CASE Check(h)
    <2> DEFINE q == [req[h] EXCEPT !.pc = IF MustLoad THEN "lock" ELSE "ptr",
                                   !.since = IF reloadCatalog THEN @ ELSE 0]
    <2>1. /\ q.pc = (IF MustLoad THEN "lock" ELSE "ptr") /\ q.refs = req[h].refs
          /\ q.kind = req[h].kind /\ q.site = req[h].site /\ q.want = req[h].want
          /\ q.i = req[h].i /\ Goto(h, q) /\ req[h].pc = "check"
        BY <1>0, <1>3 DEF Request, Check, At
    <2> HIDE DEF q
    <2>2. r = q
        BY <1>b, <2>1, GotoFacts DEF TypeInv
    <2>3. Whole => Progress(q)
        BY <1>2, <2>1 DEF CallPcs
    <2>4. q.pc = "ptr" => Versions[image].form = "json"
        BY <1>0, <2>1 DEF MustLoad, Parsed, NilSlice, Slice
    <2> QED BY <2>1, <2>2, <2>3, <2>4 DEF ExactReq, LoadPcs
<1>4. CASE ReturnProducts(h)
    <2> DEFINE q == [req[h] EXCEPT !.pc = "use", !.slice = cat]
    <2>1. /\ q.pc = "use" /\ q.refs = req[h].refs /\ q.slice = cat
          /\ q.kind = req[h].kind /\ q.site = req[h].site /\ q.want = req[h].want
          /\ q.i = req[h].i /\ Goto(h, q) /\ req[h].pc = "ptr"
        BY <1>0, <1>4 DEF Request, ReturnProducts, At
    <2> HIDE DEF q
    <2>2. r = q
        BY <1>b, <2>1, GotoFacts DEF TypeInv
    <2>3. Whole => Progress(q)
        BY <1>2, <2>1 DEF CallPcs
    <2> QED BY <1>0, <2>1, <2>2, <2>3 DEF ExactReq, LoadPcs
<1>5. CASE req[h].pc = "use"
    <2>0. /\ Versions[image].form = "json" /\ req[h].slice = cat /\ (Whole => Progress(req[h]))
          /\ req[h].i \in Nat \ {0}
        BY <1>0, <1>5 DEF ExactReq, Request
    <2>1. CASE ~Whole
        <3>1. r.pc = "use" => r.slice = cat
            <4>1. CASE CountLoop(h) \/ CompareId(h) \/ TakeProduct(h) \/ ListProducts(h)
                <5>1. \E q \in Request : \E site : r = Calling(q, site) \/ r = Done(q)
                    <6>1. /\ Next1(req[h]) \in Request
                          /\ [Next1(req[h]) EXCEPT !.refs = Here(req[h])] \in Request
                          /\ [req[h] EXCEPT !.refs = WholeSlice(req[h])] \in Request
                        <7>1. Next1(req[h]) \in Request
                            BY <1>0, CallingType
                        <7> QED BY <1>0, <7>1, WholeSliceType DEF Request
                    <6>2. \/ r = Calling(req[h], "id") \/ r = Done(req[h])
                          \/ r = Calling(req[h], "take") \/ r = Calling(Next1(req[h]), "count")
                          \/ r = Calling([Next1(req[h]) EXCEPT !.refs = Here(req[h])], "count")
                          \/ r = Done([req[h] EXCEPT !.refs = WholeSlice(req[h])])
                        BY <1>b, <4>1, GotoFacts
                           DEF CountLoop, CompareId, TakeProduct, ListProducts, HandlerStep, TypeInv
                    <6> QED BY <1>0, <6>1, <6>2
                <5> QED BY <5>1 DEF Calling, Done, Request
            <4>2. CASE SearchNext(h)
                <5>1. \/ r = Done(req[h]) \/ r = Next1(req[h])
                      \/ r = [Next1(req[h]) EXCEPT !.refs = @ \cup Here(req[h])]
                    BY <1>b, <4>2, GotoFacts DEF SearchNext, HandlerStep, TypeInv
                <5> QED BY <1>0, <2>0, <5>1 DEF Done, Next1, Request
            <4> QED BY <1>5, <4>1, <4>2
                    DEF Moves, Begin, Check, ReturnProducts, Reply, At
        <3> QED BY <1>a, <2>0, <2>1, <3>1 DEF ExactReq
    <2>2. CASE Whole
        BY <1>0, <1>5, <1>a, <1>b, <2>0, <2>2, UseExact
           DEF ExactReq, Moves, Begin, Check, ReturnProducts, Reply, At
    <2> QED BY <2>1, <2>2
<1>6. CASE Reply(h)
    <2>1. r = Idle
        BY <1>6, <1>b, GotoFacts DEF Reply, HandlerStep, TypeInv
    <2> QED BY <2>1 DEF ExactReq, Progress, Idle, CallPcs, LoadPcs
<1> QED BY <1>1, <1>3, <1>4, <1>5, <1>6
        DEF Moves, CountLoop, CompareId, TakeProduct, ListProducts, SearchNext, Using, At

LEMMA NextExact == TypeInv /\ SettledInv /\ ExactInv /\ [Next]_vars => ExactInv'
<1> SUFFICES ASSUME TypeInv, SettledInv, ExactInv, [Next]_vars, up', ~loads' PROVE ExactInv'
    BY DEF ExactInv
<1>1. CASE EditFile \/ ReceiveSignal \/ UNCHANGED vars
    <2>1. UNCHANGED <<image, cat, mem, up, req, loads>>
        BY <1>1 DEF EditFile, ReceiveSignal, vars
    <2> QED BY <2>1 DEF ExactInv, Parsed, Whole, Progress, Exact, FoundBefore
<1>2. CASE Restart
    <2>1. image' = image /\ \A h \in Handlers : req'[h] = Idle
        BY <1>2 DEF Restart, Start, SettledInv, Down
    <2>2. image \in Files /\ (CHOOSE a \in Arrays : TRUE) \in Arrays
        BY CatalogAssumption DEF TypeInv
    <2> DEFINE a == CHOOSE x \in Arrays : TRUE
    <2>3. ReadFile(image, a) /\ a \in Arrays
        BY <1>2, <2>2 DEF Restart, Start
    <2> HIDE DEF a
    <2>4. Parsed'
        <3>1. CASE Versions[image].form = "json"
            <4>1. cat' = Slice(a, Size(image)) /\ mem'[a] = Decoded(image)
                BY <2>3, <3>1 DEF ReadFile
            <4> QED BY <2>1, <2>3, <3>1, <4>1 DEF Parsed, Slice
        <3>2. CASE Versions[image].form # "json"
            BY <2>1, <2>3, <3>2 DEF ReadFile, Parsed
        <3> QED BY <3>1, <3>2
    <2> QED BY <2>1, <2>4 DEF ExactInv, Progress, Idle, LoadPcs, CallPcs
<1>3. CASE \E h \in Handlers : Begin(h) \/ Load(h) \/ Step(h)
    <2>1. PICK h \in Handlers : Begin(h) \/ Load(h) \/ Step(h)
        BY <1>3
    <2>2. CASE LockAndRead(h)
        BY <2>2, Locking
    <2>3. CASE StoreFirst(h) \/ StoreSecond(h) \/ NewElem(h) \/ FillElem(h)
        <3>1. up /\ req[h].pc \in LoadPcs /\ loads' = loads
            BY <2>3 DEF StoreFirst, StoreSecond, NewElem, FillElem, At, LoadPcs
        <3> QED BY <3>1 DEF ExactInv
    <2>4. CASE Crash
        BY <2>4 DEF Crash
    <2> QED BY <2>1, <2>2, <2>3, <2>4, StepCases, MovesExact
<1> QED BY <1>1, <1>2, <1>3 DEF Next

LEMMA ExactAlways == Spec => [](TypeInv /\ SettledInv /\ ExactInv)
<1>1. Init => ExactInv
    BY DEF Init, ExactInv
<1> QED BY <1>1, NextExact, SettledAlways, PTL DEF Spec

\* Until a request reads the file, every answer is exact: parseCatalog without a
\* reload, with any number of concurrent requests, restarts and edits.
THEOREM ExactAnswers == Spec => []ExactUntilReload
<1>1. TypeInv /\ ExactInv => ExactUntilReload
    <2> SUFFICES ASSUME TypeInv, ExactInv, NEW h \in Handlers, up, req[h].pc = "reply", ~loads, Whole
                 PROVE  Found(req[h]) = Exact(req[h])
        BY DEF ExactUntilReload, Replying, At, Whole, Exact
    <2> QED BY DEF ExactInv, Progress
<1> QED BY <1>1, ExactAlways, PTL

\* The process goes down only after a request has read the file, or when the
\* image's own version does not decode to its end: no index of GetProduct,
\* ListProducts or SearchProducts is out of range and no product is nil before.
THEOREM PanicsNeedALoad == Spec => DownOnlyAfterLoad
<1>1. TypeInv /\ ExactInv /\ [Next]_vars =>
        [up /\ ~up' => \/ loads'
                       \/ Versions[image].form = "json"
                          /\ Versions[image].good < Size(image)]_vars
    <2> SUFFICES ASSUME TypeInv, ExactInv, Next, up, ~up', ~loads'
                 PROVE  Versions[image].form = "json" /\ Versions[image].good < Size(image)
        BY DEF vars
    <2>1. PICK h \in Handlers : Panic(h)
        BY DEF Next, EditFile, ReceiveSignal, Restart, Begin, Load, LockAndRead, ReadMissing, Step,
               Check, StoreFirst, StoreSecond, NewElem, FillElem, ReturnProducts, CountLoop,
               CompareId, TakeProduct, ListProducts, SearchNext, Reply, HandlerStep
    <2>2. ~loads /\ req[h].pc = "use" /\ req[h] \in Request
        BY <2>1 DEF Panic, Using, Reading, At, TypeInv
    <2>3. /\ Parsed /\ Versions[image].form = "json" /\ req[h].slice = cat
          /\ Whole => Progress(req[h])
        BY <2>2 DEF ExactInv
    <2>4. ASSUME Whole PROVE FALSE
        <3>1. /\ InSlice(req[h]) <=> req[h].i <= Size(image)
              /\ req[h].slice.len = ArrayLen(req[h]) /\ Size(image) \in Nat
              /\ req[h].i <= Size(image) => InArray(req[h]) /\ ElemOf(req[h]) # NoElem
            BY <2>2, <2>3, <2>4, WholeView DEF Request
        <3>2. req[h].site \in {"id", "take"} => InSlice(req[h])
            BY <2>2, <2>3, <2>4, <3>1 DEF Progress, CallPcs
        <3>3. req[h].slice.len \in Nat
            BY <2>2 DEF Request, Slices
        <3> QED BY <2>1, <3>1, <3>2, <3>3 DEF Panic, Using, Reading
    <2> QED BY <2>3, <2>4, VersionFacts DEF Whole, TypeInv
<1> QED BY <1>1, ExactAlways, PTL DEF Spec, DownOnlyAfterLoad
=============================================================================
