---------------------------- MODULE BaseAdmin_proofs ----------------------------
(***************************************************************************)
(* base-admin.  Between clean saves the memory agrees with the database of *)
(* the authorities, for any number of authorities, patterns, saves and     *)
(* requests; what the page of the users claims to have saved is stored,    *)
(* for any menus, users, clicks and changes.  The tasks of its executor:   *)
(* the token bucket for any number of requests, saves and refill tasks and *)
(* any limit and speed, and the log sockets for any number of connections, *)
(* threads and lines.                                                      *)
(***************************************************************************)
EXTENDS UserPage, AuthorityCache, RateLimiter, LogSocket, WellFoundedInduction,
        FiniteSetTheorems, TLAPS

Rights == [Authorities -> SUBSET Patterns]

Saves ==
    [pc : {"begun", "listed", "clear", "put"}, authority : Authorities, clean : BOOLEAN,
     view : Rights, left : SUBSET (Authorities \X Patterns)]

Searches == [pc : {"seek"}, left : SUBSET Patterns, found : SUBSET Authorities]

Types ==
    /\ rights \in Rights
    /\ memory \in [requestMap : [Patterns -> SUBSET Authorities],
                   answer : {NoAnswer} \union [authorities : SUBSET Authorities], current : BOOLEAN]
    /\ saver \in [Savers -> {IdleSaver} \union Saves]
    /\ request \in [Requests -> {IdleRequest} \union Searches]

(* What a request that has looked at some patterns found in the table.     *)
FoundIn(table, left) == {a \in Authorities : \E p \in Patterns \ left : a \in table[p]}

(* The memory and every request that is looking have seen one table only.  *)
Agrees(table) ==
    /\ memory.requestMap = table
    /\ memory.answer # NoAnswer => memory.answer.authorities = FoundIn(table, {})
    /\ \A r \in Requests : Seeking(r) => request[r].found = FoundIn(table, request[r].left)

NobodyKnows == memory.answer = NoAnswer /\ \A r \in Requests : ~Seeking(r)

(* A save that is still clean is alone, sees the database with its own     *)
(* change, and has nobody look at the memory while it rebuilds it.         *)
CleanSave(s) ==
    /\ \A o \in Savers \ {s} : ~Active(o)
    /\ saver[s].view = [rights EXCEPT ![saver[s].authority] = saver[s].view[saver[s].authority]]
    /\ saver[s].pc = "clear" => NobodyKnows
    /\ saver[s].pc = "put" =>
          /\ saver[s].left # {} => NobodyKnows
          /\ saver[s].left = {} => Agrees(Table(saver[s].view))
          /\ \A a \in Authorities, p \in Patterns :
                /\ <<a, p>> \in saver[s].left => p \in saver[s].view[a]
                /\ a \in memory.requestMap[p] <=> p \in saver[s].view[a] /\ <<a, p>> \notin saver[s].left

CacheInv ==
    /\ Types
    /\ \A s \in Savers : Active(s) /\ saver[s].clean => CleanSave(s)
    /\ memory.current /\ (\A s \in Savers : ~Active(s)) => Agrees(Table(rights))

-----------------------------------------------------------------------------
\* A save is idle or one of Saves, and the two differ in their pc.
LEMMA SaverCases ==
  ASSUME Types, NEW s \in Savers
  PROVE  /\ Active(s) => saver[s] \in Saves
         /\ ~Active(s) => saver[s] = IdleSaver
  BY DEF Types, Active, IdleSaver, Saves

\* The same for a request.
LEMMA RequestCases ==
  ASSUME Types, NEW r \in Requests
  PROVE  /\ Seeking(r) => request[r] \in Searches
         /\ ~Seeking(r) => request[r] = IdleRequest
  BY DEF Types, Seeking, IdleRequest, Searches

\* Disturbing the saves changes nothing of them but that none is clean.
LEMMA DisturbedSaves ==
  ASSUME NEW savers \in [Savers -> {IdleSaver} \union Saves]
  PROVE  /\ Disturb(savers) \in [Savers -> {IdleSaver} \union Saves]
         /\ \A s \in Savers : /\ Disturb(savers)[s].pc = savers[s].pc
                              /\ savers[s].pc # "idle" => ~Disturb(savers)[s].clean
<1> SUFFICES ASSUME NEW s \in Savers
             PROVE  /\ Disturb(savers)[s] \in {IdleSaver} \union Saves
                    /\ Disturb(savers)[s].pc = savers[s].pc
                    /\ savers[s].pc # "idle" => ~Disturb(savers)[s].clean
  BY DEF Disturb
<1>1. CASE savers[s].pc = "idle"
  BY <1>1 DEF Disturb, IdleSaver, Saves
<1>2. CASE savers[s].pc # "idle"
  <2>1. savers[s] \in Saves
    BY <1>2 DEF IdleSaver
  <2> QED BY <1>2, <2>1 DEF Disturb, Saves
<1> QED BY <1>1, <1>2

\* At the start the memory is the table of the database.
LEMMA CacheInitInv == CacheInit => CacheInv
  BY DEF CacheInit, CacheInv, Types, Rights, Table, Active, Agrees, Seeking, IdleSaver, IdleRequest,
         NoAnswer

-----------------------------------------------------------------------------
\* A begun save is clean only if it is alone; it makes every other unclean.
LEMMA BeginInv ==
  ASSUME CacheInv, NEW s \in Savers, NEW a \in Authorities, NEW patterns \in SUBSET Patterns,
         begin(s, a, patterns)
  PROVE  CacheInv'
<1> USE DEF CacheInv
<1> DEFINE alone == \A o \in Savers : ~Active(o)
           new == [pc |-> "begun", authority |-> a, clean |-> alone,
                   view |-> [rights EXCEPT ![a] = patterns], left |-> {}]
           begun == [saver EXCEPT ![s] = new]
<1>1. new \in Saves
  BY DEF Saves, Types, Rights
<1>2. begun \in [Savers -> {IdleSaver} \union Saves] /\ begun[s] = new
      /\ \A o \in Savers \ {s} : begun[o] = saver[o]
  BY <1>1 DEF Types
<1>3. UNCHANGED <<rights, memory, request>> /\ saver' = IF alone THEN begun ELSE Disturb(begun)
  BY DEF begin
<1> HIDE DEF new, begun
<1>4. saver' \in [Savers -> {IdleSaver} \union Saves] /\ saver'[s].pc = "begun"
  BY <1>2, <1>3, DisturbedSaves DEF new
<1>5. ASSUME NEW o \in Savers, Active(o)', saver'[o].clean
      PROVE  CleanSave(o)'
  <2>1. alone
    <3> SUFFICES ASSUME ~alone PROVE FALSE
      OBVIOUS
    <3>1. saver' = Disturb(begun)
      BY <1>3
    <3>2. Disturb(begun)[o].pc = begun[o].pc /\ (begun[o].pc # "idle" => ~Disturb(begun)[o].clean)
      BY <1>2, DisturbedSaves
    <3> QED BY <3>1, <3>2, <1>5 DEF Active
  <2>2. saver' = begun
    BY <1>3, <2>1
  <2>3. o = s
    BY <1>2, <1>5, <2>1, <2>2 DEF Active
  <2>4. \A x \in Savers \ {s} : ~Active(x)'
    BY <1>2, <2>1, <2>2 DEF Active
  <2>5. begun[s].view = [rights EXCEPT ![begun[s].authority] = begun[s].view[begun[s].authority]]
    <3>1. new.view = [rights EXCEPT ![a] = patterns] /\ new.authority = a
      BY DEF new
    <3>2. [rights EXCEPT ![a] = patterns][a] = patterns
      BY DEF Types, Rights
    <3> QED BY <1>2, <3>1, <3>2
  <2>6. saver'[s] = begun[s] /\ rights' = rights
    BY <1>3, <2>2
  <2>7. begun[s].pc = "begun"
    BY <1>2 DEF new
  <2>8. CleanSave(s)'
    BY <2>4, <2>5, <2>6, <2>7 DEF CleanSave
  <2> QED BY <2>3, <2>8
<1> QED BY <1>3, <1>4, <1>5 DEF Types, Active

\* Only the save moves on.
LEMMA ListInv ==
  ASSUME CacheInv, NEW s \in Savers, list(s)
  PROVE  CacheInv'
<1> USE DEF CacheInv
<1>1. saver[s] \in Saves
  BY SaverCases DEF list, Active
<1>2. saver' \in [Savers -> {IdleSaver} \union Saves] /\ UNCHANGED <<rights, memory, request>>
      /\ saver'[s] = [saver[s] EXCEPT !.pc = "listed"] /\ \A o \in Savers \ {s} : saver'[o] = saver[o]
  BY <1>1 DEF list, Types, Saves
<1>3. Active(s) /\ Active(s)'
  BY <1>1, <1>2 DEF list, Active, Saves
<1>4. ASSUME NEW o \in Savers, Active(o)', saver'[o].clean
      PROVE  CleanSave(o)'
  <2>1. Active(o) /\ saver[o].clean
    BY <1>1, <1>2, <1>3, <1>4 DEF Active, Saves
  <2>2. CASE o = s
    BY <1>1, <1>2, <2>1, <2>2 DEF CleanSave, Active, Saves
  <2>3. CASE o # s
    BY <1>3, <2>1, <2>3 DEF CleanSave
  <2> QED BY <2>2, <2>3
<1> QED BY <1>2, <1>3, <1>4 DEF Types

\* A save that is still clean finds nobody looking when it clears the answers.
LEMMA ClearAnswersInv ==
  ASSUME CacheInv, NEW s \in Savers, ClearUrlAuthorityMap(s)
  PROVE  CacheInv'
<1> USE DEF CacheInv
<1> DEFINE next == [saver EXCEPT ![s].pc = "clear"]
           looking == \E r \in Requests : Seeking(r)
<1>1. saver[s] \in Saves /\ saver[s].pc = "listed"
  BY SaverCases DEF ClearUrlAuthorityMap, Active
<1>2. next \in [Savers -> {IdleSaver} \union Saves] /\ next[s] = [saver[s] EXCEPT !.pc = "clear"]
      /\ \A o \in Savers \ {s} : next[o] = saver[o]
  BY <1>1 DEF Types, Saves
<1>3. saver' = IF looking THEN Disturb(next) ELSE next
  BY DEF ClearUrlAuthorityMap
<1>4. UNCHANGED <<rights, request>> /\ memory' = [memory EXCEPT !.answer = NoAnswer]
  BY DEF ClearUrlAuthorityMap
<1> HIDE DEF next
<1>5. Types' /\ Active(s)'
  <2>1. saver' \in [Savers -> {IdleSaver} \union Saves] /\ saver'[s].pc = next[s].pc
    BY <1>2, <1>3, DisturbedSaves
  <2> QED BY <1>1, <1>2, <1>4, <2>1 DEF Types, Active, Saves
<1>6. ASSUME NEW o \in Savers, Active(o)', saver'[o].clean
      PROVE  CleanSave(o)'
  <2>1. ~looking /\ saver' = next
    <3>1. Disturb(next)[o].pc = next[o].pc /\ (next[o].pc # "idle" => ~Disturb(next)[o].clean)
      BY <1>2, DisturbedSaves
    <3> QED BY <3>1, <1>3, <1>6 DEF Active
  <2>2. Active(o) /\ saver[o].clean /\ Active(s)
    BY <1>1, <1>2, <1>6, <2>1 DEF Active, Saves
  <2>3. o = s
    BY <2>2 DEF CleanSave
  <2>4. NobodyKnows'
    BY <1>4, <2>1 DEF NobodyKnows, Seeking, Types
  <2> QED BY <1>1, <1>2, <1>4, <2>1, <2>2, <2>3, <2>4 DEF CleanSave, Active, Saves
<1> QED BY <1>5, <1>6

\* The cleared table holds nothing, and everything is left to put into it.
LEMMA ClearTableInv ==
  ASSUME CacheInv, NEW s \in Savers, ClearRequestMap(s)
  PROVE  CacheInv'
<1> USE DEF CacheInv
<1> DEFINE left == {pair \in Authorities \X Patterns : pair[2] \in saver[s].view[pair[1]]}
<1>1. saver[s] \in Saves /\ saver[s].pc = "clear"
  BY SaverCases DEF ClearRequestMap, Active
<1>2. saver' \in [Savers -> {IdleSaver} \union Saves]
      /\ saver'[s] = [saver[s] EXCEPT !.pc = "put", !.left = left]
      /\ \A o \in Savers \ {s} : saver'[o] = saver[o]
  BY <1>1 DEF ClearRequestMap, Types, Saves
<1>3. UNCHANGED <<rights, request>>
      /\ memory' = [memory EXCEPT !.requestMap = [p \in Patterns |-> {}]]
  BY DEF ClearRequestMap
<1>4. Types' /\ Active(s) /\ Active(s)'
  BY <1>1, <1>2, <1>3 DEF Types, Active, Saves
<1>5. ASSUME NEW o \in Savers, Active(o)', saver'[o].clean
      PROVE  CleanSave(o)'
  <2>1. Active(o) /\ saver[o].clean
    BY <1>1, <1>2, <1>4, <1>5 DEF Active, Saves
  <2>2. o = s
    BY <1>4, <2>1 DEF CleanSave
  <2>3. NobodyKnows /\ NobodyKnows'
    BY <1>1, <1>3, <2>1, <2>2 DEF CleanSave, NobodyKnows, Seeking, Types
  <2>4. \A p \in Patterns : memory'.requestMap[p] = {}
    BY <1>3 DEF Types
  <2>5. saver'[s].left = left /\ saver'[s].view = saver[s].view /\ saver'[s].pc = "put"
        /\ saver'[s].authority = saver[s].authority
    BY <1>1, <1>2 DEF Saves
  <2>6. left = {} => Agrees(Table(saver[s].view))'
    <3> SUFFICES ASSUME left = {} PROVE Agrees(Table(saver[s].view))'
      OBVIOUS
    <3>1. Table(saver[s].view) = [p \in Patterns |-> {}]
      <4>1. \A a \in Authorities, p \in Patterns : p \notin saver[s].view[a]
        <5> SUFFICES ASSUME NEW a \in Authorities, NEW p \in Patterns, p \in saver[s].view[a]
                     PROVE  <<a, p>> \in left
          OBVIOUS
        <5> QED OBVIOUS
      <4> QED BY <4>1 DEF Table
    <3>2. memory'.requestMap = Table(saver[s].view)
      BY <1>3, <3>1 DEF Types
    <3> QED BY <1>3, <2>3, <2>5, <3>2 DEF Agrees, NobodyKnows, Table
  <2>7. \A x \in Savers \ {s} : ~Active(x)'
    BY <1>2, <2>1, <2>2 DEF CleanSave, Active
  <2>8. saver'[s].view = [rights' EXCEPT ![saver'[s].authority] = saver'[s].view[saver'[s].authority]]
    BY <1>3, <2>1, <2>2, <2>5 DEF CleanSave
  <2>9. \A a \in Authorities, p \in Patterns :
           /\ <<a, p>> \in left => p \in saver[s].view[a]
           /\ a \in memory'.requestMap[p] <=> p \in saver[s].view[a] /\ <<a, p>> \notin left
    BY <2>4
  <2> HIDE DEF left
  <2> QED BY <2>2, <2>3, <2>5, <2>6, <2>7, <2>8, <2>9 DEF CleanSave
<1> QED BY <1>4, <1>5

\* What is in the table and what is left to put make the table of the save.
LEMMA PutPairInv ==
  ASSUME CacheInv, NEW s \in Savers, NEW pair \in Authorities \X Patterns, PutPair(s, pair)
  PROVE  CacheInv'
<1> USE DEF CacheInv
<1>1. saver[s] \in Saves /\ saver[s].pc = "put" /\ pair \in saver[s].left
  BY SaverCases DEF PutPair, Active
<1>2. saver' \in [Savers -> {IdleSaver} \union Saves]
      /\ saver'[s] = [saver[s] EXCEPT !.left = saver[s].left \ {pair}]
      /\ \A o \in Savers \ {s} : saver'[o] = saver[o]
  BY <1>1 DEF PutPair, Types, Saves
<1>3. UNCHANGED <<rights, request>>
      /\ memory' = [memory EXCEPT !.requestMap =
                      [memory.requestMap EXCEPT ![pair[2]] = memory.requestMap[pair[2]] \union {pair[1]}]]
  BY DEF PutPair, Types
<1>4. Types' /\ Active(s) /\ Active(s)'
  BY <1>1, <1>2, <1>3 DEF Types, Active, Saves
<1>5. ASSUME NEW o \in Savers, Active(o)', saver'[o].clean
      PROVE  CleanSave(o)'
  <2> DEFINE view == saver[s].view
             left == saver[s].left
  <2>1. Active(o) /\ saver[o].clean
    BY <1>1, <1>2, <1>4, <1>5 DEF Active, Saves
  <2>2. o = s /\ CleanSave(s)
    BY <1>4, <2>1 DEF CleanSave
  <2>3. NobodyKnows /\ NobodyKnows'
    BY <1>1, <1>3, <2>2 DEF CleanSave, NobodyKnows, Seeking, Types
  <2>4. saver'[s].left = left \ {pair} /\ saver'[s].view = view /\ saver'[s].pc = "put"
        /\ saver'[s].authority = saver[s].authority
    BY <1>1, <1>2 DEF Saves
  <2>5. \A a \in Authorities, p \in Patterns :
           /\ <<a, p>> \in left \ {pair} => p \in view[a]
           /\ a \in memory'.requestMap[p] <=> p \in view[a] /\ <<a, p>> \notin left \ {pair}
    <3> SUFFICES ASSUME NEW a \in Authorities, NEW p \in Patterns
                 PROVE  /\ <<a, p>> \in left \ {pair} => p \in view[a]
                        /\ a \in memory'.requestMap[p] <=> p \in view[a] /\ <<a, p>> \notin left \ {pair}
      OBVIOUS
    <3>1. /\ <<a, p>> \in left => p \in view[a]
          /\ a \in memory.requestMap[p] <=> p \in view[a] /\ <<a, p>> \notin left
      BY <1>1, <2>2 DEF CleanSave
    <3>2. memory'.requestMap[p] =
            IF p = pair[2] THEN memory.requestMap[p] \union {pair[1]} ELSE memory.requestMap[p]
      BY <1>3 DEF Types
    <3>3. <<a, p>> = pair <=> a = pair[1] /\ p = pair[2]
      OBVIOUS
    <3> QED BY <1>1, <3>1, <3>2, <3>3
  <2>6. left \ {pair} = {} => Agrees(Table(view))'
    <3> SUFFICES ASSUME left \ {pair} = {} PROVE Agrees(Table(view))'
      OBVIOUS
    <3>1. \A p \in Patterns : memory'.requestMap[p] = {a \in Authorities : p \in view[a]}
      BY <1>4, <2>5 DEF Types
    <3>2. memory'.requestMap = Table(view)'
      BY <1>4, <2>4, <3>1 DEF Types, Table
    <3> QED BY <2>3, <3>2 DEF Agrees, NobodyKnows
  <2>7. \A x \in Savers \ {s} : ~Active(x)'
    BY <1>2, <2>2 DEF CleanSave, Active
  <2>8. saver'[s].view = [rights' EXCEPT ![saver'[s].authority] = saver'[s].view[saver'[s].authority]]
    BY <1>3, <2>2, <2>4 DEF CleanSave
  <2>9. CleanSave(s)'
    BY <2>3, <2>4, <2>5, <2>6, <2>7, <2>8 DEF CleanSave, Agrees, Table
  <2> QED BY <2>2, <2>9
<1> QED BY <1>4, <1>5

\* After the commit the database is what the save saw and the memory holds.
LEMMA CommitInv ==
  ASSUME CacheInv, NEW s \in Savers, commit(s)
  PROVE  CacheInv'
<1> USE DEF CacheInv
<1> DEFINE view == saver[s].view
           a == saver[s].authority
<1>1. saver[s] \in Saves /\ saver[s].pc = "put" /\ saver[s].left = {}
  BY SaverCases DEF commit, Active
<1>2. saver' = [saver EXCEPT ![s] = IdleSaver] /\ UNCHANGED request
      /\ rights' = [rights EXCEPT ![a] = view[a]]
      /\ memory' = [memory EXCEPT !.current = saver[s].clean]
  BY DEF commit
<1>3. Types' /\ Active(s) /\ ~Active(s)'
  BY <1>1, <1>2 DEF Types, Active, Saves, IdleSaver, Rights
<1>4. ASSUME NEW o \in Savers, Active(o)', saver'[o].clean
      PROVE  CleanSave(o)'
  <2>1. o # s /\ Active(o) /\ saver[o].clean
    BY <1>2, <1>3, <1>4 DEF Active, Types
  <2> QED BY <1>3, <2>1 DEF CleanSave
<1>5. ASSUME memory'.current
      PROVE  Agrees(Table(rights))'
  <2>1. CleanSave(s)
    BY <1>2, <1>3, <1>5 DEF Types
  <2>2. rights' = view
    BY <1>2, <2>1 DEF CleanSave
  <2>3. Agrees(Table(view))
    BY <1>1, <2>1 DEF CleanSave
  <2>4. memory'.requestMap = memory.requestMap /\ memory'.answer = memory.answer
    BY <1>2 DEF Types
  <2>5. Table(rights)' = Table(view)
    BY <2>2 DEF Table
  <2>6. \A r \in Requests : request'[r] = request[r]
    BY <1>2
  <2> QED BY <2>3, <2>4, <2>5, <2>6 DEF Agrees, FoundIn, Seeking
<1> QED BY <1>3, <1>4, <1>5

\* A rollback leaves the memory to the next clean save.
LEMMA RollbackInv ==
  ASSUME CacheInv, NEW s \in Savers, rollback(s)
  PROVE  CacheInv'
<1> USE DEF CacheInv
<1>1. saver' = [saver EXCEPT ![s] = IdleSaver] /\ UNCHANGED <<rights, request>>
      /\ memory' = [memory EXCEPT !.current = FALSE] /\ Active(s)
  BY DEF rollback, Active
<1>2. Types' /\ ~Active(s)' /\ ~memory'.current
  BY <1>1 DEF Types, Active, IdleSaver
<1>3. ASSUME NEW o \in Savers, Active(o)', saver'[o].clean
      PROVE  CleanSave(o)'
  <2>1. o # s /\ Active(o) /\ saver[o].clean
    BY <1>1, <1>2, <1>3 DEF Active, Types
  <2> QED BY <1>1, <2>1 DEF CleanSave
<1> QED BY <1>2, <1>3

-----------------------------------------------------------------------------
\* A step of a request that keeps the agreement with every table keeps the
\* invariant, if it disturbs the saves or the request was looking before.
LEMMA RequestKeeps ==
  ASSUME CacheInv, Types', UNCHANGED rights, memory'.requestMap = memory.requestMap,
         memory'.current = memory.current,
         saver' = Disturb(saver) \/ saver' = saver,
         saver' = saver => \A s \in Savers : Publishing(s) /\ saver[s].clean => ~NobodyKnows,
         \A table : Agrees(table) => /\ memory'.answer # NoAnswer =>
                                            memory'.answer.authorities = FoundIn(table, {})
                                     /\ \A r \in Requests : Seeking(r)' =>
                                            request'[r].found = FoundIn(table, request'[r].left)
  PROVE  CacheInv'
<1> USE DEF CacheInv
<1>1. saver \in [Savers -> {IdleSaver} \union Saves]
  BY DEF Types
<1>2. \A o \in Savers : Active(o)' <=> Active(o)
  BY <1>1, DisturbedSaves DEF Active
<1>3. ASSUME NEW o \in Savers, Active(o)', saver'[o].clean
      PROVE  CleanSave(o)'
  <2>1. saver' = saver
    <3> SUFFICES ASSUME saver' = Disturb(saver) PROVE FALSE
      OBVIOUS
    <3> QED BY <1>1, <1>2, <1>3, DisturbedSaves DEF Active
  <2>2. CleanSave(o) /\ saver[o] \in Saves
    BY <1>2, <1>3, <2>1, SaverCases
  <2>3. ~Publishing(o)
    BY <1>3, <2>1, <2>2 DEF CleanSave, Publishing
  <2>4. saver[o].pc = "put" => Agrees(Table(saver[o].view)) /\ saver[o].left = {}
    BY <2>2, <2>3 DEF CleanSave, Publishing
  <2>5. saver[o].pc = "put" => Agrees(Table(saver[o].view))'
    <3> SUFFICES ASSUME saver[o].pc = "put" PROVE Agrees(Table(saver[o].view))'
      OBVIOUS
    <3> DEFINE table == Table(saver[o].view)
    <3>1. Agrees(table)
      BY <2>4
    <3>2. table' = table
      BY <2>1
    <3> HIDE DEF table
    <3>3. /\ memory'.answer # NoAnswer => memory'.answer.authorities = FoundIn(table, {})
          /\ \A r \in Requests : Seeking(r)' => request'[r].found = FoundIn(table, request'[r].left)
      BY <3>1
    <3>4. Agrees(table)'
      BY <3>1, <3>2, <3>3 DEF Agrees, FoundIn
    <3> QED BY <3>4 DEF table
  <2>6. \A x \in Savers \ {o} : ~Active(x)'
    BY <1>2, <2>2 DEF CleanSave
  <2> QED BY <2>1, <2>2, <2>3, <2>4, <2>5, <2>6 DEF CleanSave, Publishing
<1>4. ASSUME memory'.current, \A o \in Savers : ~Active(o)'
      PROVE  Agrees(Table(rights))'
  <2> DEFINE table == Table(rights)
  <2>1. Agrees(table)
    BY <1>2, <1>4
  <2>2. table' = table
    BY DEF Table
  <2> HIDE DEF table
  <2>3. /\ memory'.answer # NoAnswer => memory'.answer.authorities = FoundIn(table, {})
        /\ \A r \in Requests : Seeking(r)' => request'[r].found = FoundIn(table, request'[r].left)
    BY <2>1
  <2>4. Agrees(table)'
    BY <2>1, <2>2, <2>3 DEF Agrees, FoundIn
  <2> QED BY <2>4 DEF table
<1> QED BY <1>3, <1>4

\* A request that begins to look while a table is rebuilt disturbs the save.
LEMMA GetAttributesInv ==
  ASSUME CacheInv, NEW r \in Requests, getAttributes(r)
  PROVE  CacheInv'
<1> DEFINE search == [pc |-> "seek", left |-> Patterns, found |-> {}]
<1>1. UNCHANGED <<rights, memory>> /\ request' = [request EXCEPT ![r] = search]
      /\ saver' = (IF \E s \in Savers : Publishing(s) THEN Disturb(saver) ELSE saver)
      /\ memory.answer = NoAnswer
  BY DEF getAttributes
<1>2. saver \in [Savers -> {IdleSaver} \union Saves]
  BY DEF CacheInv, Types
<1>3. Types'
  <2>1. saver' \in [Savers -> {IdleSaver} \union Saves]
    BY <1>1, <1>2, DisturbedSaves
  <2>2. search \in Searches
    BY DEF Searches
  <2> QED BY <1>1, <2>1, <2>2 DEF CacheInv, Types
<1>4. ASSUME saver' = saver, NEW s \in Savers, Publishing(s), saver[s].clean
      PROVE  FALSE
  <2>1. saver' = Disturb(saver)
    BY <1>1, <1>4
  <2> QED BY <1>2, <1>4, <2>1, DisturbedSaves DEF Publishing
<1>5. ASSUME NEW table, Agrees(table)
      PROVE  \A q \in Requests : Seeking(q)' => request'[q].found = FoundIn(table, request'[q].left)
  BY <1>1, <1>5 DEF Agrees, Seeking, FoundIn, CacheInv, Types
<1> QED BY <1>1, <1>3, <1>4, <1>5, RequestKeeps

\* A request that looks at one more pattern.
LEMMA AddEntryInv ==
  ASSUME CacheInv, NEW r \in Requests, NEW p \in Patterns, AddEntry(r, p)
  PROVE  CacheInv'
<1> DEFINE next == [request[r] EXCEPT !.left = request[r].left \ {p},
                                      !.found = request[r].found \union memory.requestMap[p]]
<1>1. request[r] \in Searches /\ p \in request[r].left /\ Seeking(r)
  BY RequestCases DEF AddEntry, CacheInv
<1>2. UNCHANGED <<rights, memory, saver>> /\ request' = [request EXCEPT ![r] = next]
  BY <1>1 DEF AddEntry, Searches
<1>3. next \in Searches /\ next.left = request[r].left \ {p}
      /\ next.found = request[r].found \union memory.requestMap[p]
  BY <1>1 DEF CacheInv, Types, Searches
<1> HIDE DEF next
<1>4. Types'
  BY <1>2, <1>3 DEF CacheInv, Types
<1>5. ~NobodyKnows
  BY <1>1 DEF NobodyKnows
<1>6. ASSUME NEW table, Agrees(table)
      PROVE  \A q \in Requests : Seeking(q)' => request'[q].found = FoundIn(table, request'[q].left)
  <2> SUFFICES ASSUME NEW q \in Requests, Seeking(q)'
               PROVE  request'[q].found = FoundIn(table, request'[q].left)
    OBVIOUS
  <2>1. CASE q = r
    <3>1. request[r].found = FoundIn(table, request[r].left)
      BY <1>1, <1>6 DEF Agrees
    <3>2. request'[r] = next
      BY <1>2 DEF CacheInv, Types
    <3>3. memory.requestMap[p] = table[p] /\ memory.requestMap[p] \subseteq Authorities
      BY <1>6 DEF Agrees, CacheInv, Types
    <3> QED BY <1>1, <1>3, <2>1, <3>1, <3>2, <3>3 DEF FoundIn
  <2>2. CASE q # r
    BY <1>2, <1>6, <2>2 DEF Agrees, Seeking, CacheInv, Types
  <2> QED BY <2>1, <2>2
<1>7. ASSUME NEW table, Agrees(table)
      PROVE  memory'.answer # NoAnswer => memory'.answer.authorities = FoundIn(table, {})
  BY <1>2, <1>7 DEF Agrees
<1> QED BY <1>2, <1>4, <1>5, <1>6, <1>7, RequestKeeps

\* What a request found in all patterns is the answer of the table.
LEMMA KeepAnswerInv ==
  ASSUME CacheInv, NEW r \in Requests, KeepAnswer(r)
  PROVE  CacheInv'
<1>1. request[r] \in Searches /\ request[r].left = {} /\ Seeking(r)
  BY RequestCases DEF KeepAnswer, CacheInv
<1>2. UNCHANGED <<rights, saver>> /\ request' = [request EXCEPT ![r] = IdleRequest]
      /\ memory' = [memory EXCEPT !.answer = Answer(request[r].found)]
  BY DEF KeepAnswer
<1>3. memory'.answer = [authorities |-> request[r].found] /\ memory'.requestMap = memory.requestMap
      /\ memory'.current = memory.current
  BY <1>2 DEF CacheInv, Types, Answer
<1>4. Types'
  BY <1>1, <1>2 DEF CacheInv, Types, Answer, Searches
<1>5. ~NobodyKnows
  BY <1>1 DEF NobodyKnows
<1>6. ASSUME NEW table, Agrees(table)
      PROVE  memory'.answer # NoAnswer => memory'.answer.authorities = FoundIn(table, {})
  BY <1>1, <1>3, <1>6 DEF Agrees
<1>7. ASSUME NEW table, Agrees(table)
      PROVE  \A q \in Requests : Seeking(q)' => request'[q].found = FoundIn(table, request'[q].left)
  BY <1>2, <1>7 DEF Agrees, Seeking, IdleRequest, CacheInv, Types
<1> QED BY <1>2, <1>3, <1>4, <1>5, <1>6, <1>7, RequestKeeps

\* One step per action.
LEMMA CacheInductive == CacheInv /\ [CacheNext]_cacheVars => CacheInv'
<1> SUFFICES ASSUME CacheInv, [CacheNext]_cacheVars PROVE CacheInv'
  OBVIOUS
<1>1. CASE UNCHANGED cacheVars
  BY <1>1 DEF cacheVars, CacheInv, Types, CleanSave, Agrees, NobodyKnows, Active, Seeking, Table, FoundIn
<1>2. CASE CacheNext
  BY <1>2, BeginInv, ListInv, ClearAnswersInv, ClearTableInv, PutPairInv, CommitInv, RollbackInv,
     GetAttributesInv, AddEntryInv, KeepAnswerInv DEF CacheNext
<1> QED BY <1>1, <1>2

\* An authority with a pattern is one that some pattern asks for.
LEMMA InvSettled == CacheInv => SettledCacheIsCurrent
<1> SUFFICES ASSUME CacheInv, memory.current, \A s \in Savers : ~Active(s)
             PROVE  /\ memory.requestMap = Table(rights)
                    /\ memory.answer # NoAnswer =>
                          memory.answer.authorities = {a \in Authorities : rights[a] # {}}
  BY DEF SettledCacheIsCurrent
<1>1. Agrees(Table(rights))
  BY DEF CacheInv
<1>2. FoundIn(Table(rights), {}) = {a \in Authorities : rights[a] # {}}
  <2>1. \A a \in Authorities : rights[a] \subseteq Patterns
    BY DEF CacheInv, Types, Rights
  <2>2. \A a \in Authorities : (\E p \in Patterns \ {} : a \in Table(rights)[p]) <=> rights[a] # {}
    BY <2>1 DEF Table
  <2> QED BY <2>2 DEF FoundIn
<1> QED BY <1>1, <1>2 DEF Agrees

\* After a save that was alone with the database and the memory, requestMap
\* and the answer kept for a URL are those of the table in the database
\* (SysAuthorityServiceImpl.save, the listener and getAttributes), for any
\* number of authorities, patterns, saves and requests.
THEOREM CacheIsCurrent == CacheSpec => []SettledCacheIsCurrent
<1>1. CacheInit => CacheInv
  BY CacheInitInv
<1>2. CacheInv /\ [CacheNext]_cacheVars => CacheInv'
  BY CacheInductive
<1>3. CacheInv => SettledCacheIsCurrent
  BY InvSettled
<1> QED BY <1>1, <1>2, <1>3, PTL DEF CacheSpec

-----------------------------------------------------------------------------
(***************************************************************************)
(* The page of the users.                                                  *)
(***************************************************************************)
Forms  == Users \union {New}
Tree   == [owner : Forms \union {Root}, shown : SUBSET Menus, ticked : SUBSET Menus]
Loads  == [owner : Forms, step : {"sent", "own", "read"}, own : SUBSET Menus, shown : SUBSET Menus]
Posts  == [user : Users, menus : SUBSET Menus, step : {"sent", "read"}, old : SUBSET Menus]
Claims == [user : Users, menus : SUBSET Menus, form : Forms, owner : Forms \union {Root}]
PageSaves == [user : Forms, step : {"sent", "saved"}, form : Forms]

PageType ==
    /\ db \in [menus : SUBSET Menus, users : SUBSET Users, links : SUBSET (Users \X Menus),
               known : SUBSET (Users \union Menus), changes : Nat]
    /\ page \in [form : Forms, tree : Tree, loads : SUBSET Loads, save : {Nobody} \union PageSaves,
                 posts : SUBSET Posts, claim : {Nobody} \union Claims, unsure : BOOLEAN, clicks : Nat]
    /\ page.save # Nobody /\ page.save.step = "saved" => page.save.user \in Users

(* On a page that is not unsure one thing happens at a time: the tree is,  *)
(* or will be, that of the form; nothing else is on its way while the form *)
(* is saved; the one post has read the links there are and is the claim.   *)
SureInv ==
    ~page.unsure =>
        /\ page.loads = {} =>
              \/ page.tree.owner = page.form
              \/ page.tree.shown = {} /\ page.tree.ticked = {}
        /\ \A load \in page.loads : page.loads = {load} /\ load.owner = page.form
        /\ page.save # Nobody =>
              page.loads = {} /\ page.posts = {} /\ page.save.form = page.form
        /\ \A post \in page.posts :
              /\ page.posts = {post}
              /\ post.step = "read" => post.old = LinksOf(post.user)
              /\ page.claim # Nobody =>
                    page.claim.user = post.user /\ page.claim.menus = post.menus
        /\ page.claim # Nobody =>
              /\ page.claim.owner = page.claim.form
              /\ page.posts = {} => LinksOf(page.claim.user) = page.claim.menus

-----------------------------------------------------------------------------
\* A set of natural numbers that has a member has a least one.
LEMMA LeastOne ==
    ASSUME NEW S \in SUBSET Nat, S # {}
    PROVE  \E x \in S : \A y \in S : x <= y
<1>1. PICK x \in S : \A y \in S : ~(<<y, x>> \in OpToRel(<, Nat))
    BY NatLessThanWellFounded, WFMin, Zenon
<1>2. ASSUME NEW y \in S, y < x PROVE FALSE
    <2>1. <<y, x>> \in Nat \X Nat /\ <<y, x>>[1] < <<y, x>>[2]
        BY <1>2
    <2>2. <<y, x>> \in OpToRel(<, Nat)
        BY <2>1 DEF OpToRel
    <2> QED BY <1>1, <2>2
<1> QED BY <1>2

\* The steps of Ancestors: up has menus only, and the root.
Climb(above) == above \union {parent[a] : a \in above \ {Root}}
IsClimb(f, m, n) == f = [k \in 0..n |-> IF k = 0 THEN {m} ELSE Climb(f[k - 1])]

LEMMA ClimbExists ==
    ASSUME NEW m, NEW C \in Nat
    PROVE  \E f : IsClimb(f, m, C)
<1> DEFINE Fails == {n \in Nat : ~\E f : IsClimb(f, m, n)}
<1>1. ASSUME Fails # {} PROVE FALSE
    <2>1. PICK n \in Fails : \A y \in Fails : n <= y
        <3>1. Fails \in SUBSET Nat
            OBVIOUS
        <3> HIDE DEF Fails
        <3> QED BY <1>1, <3>1, LeastOne
    <2>2. CASE n = 0
        <3> DEFINE f == [k \in 0..0 |-> {m}]
        <3>1. f = [k \in 0..0 |-> IF k = 0 THEN {m} ELSE Climb(f[k - 1])]
            OBVIOUS
        <3>2. IsClimb(f, m, n)
            BY <2>2, <3>1 DEF IsClimb
        <3> QED BY <2>1, <3>2
    <2>3. CASE n # 0
        <3>1. n \in Nat /\ n - 1 \in Nat /\ n - 1 \notin Fails
            BY <2>1, <2>3
        <3>2. PICK g : IsClimb(g, m, n - 1)
            BY <3>1
        <3> DEFINE f == [k \in 0..n |-> IF k = n THEN Climb(g[n - 1]) ELSE g[k]]
                   e == [k \in 0..n |-> IF k = 0 THEN {m} ELSE Climb(f[k - 1])]
        <3>3. ASSUME NEW k \in 0..n PROVE f[k] = e[k]
            <4>1. \A j \in 0..(n - 1) : g[j] = IF j = 0 THEN {m} ELSE Climb(g[j - 1])
                BY <3>2 DEF IsClimb
            <4>2. CASE k = n
                <5>1. n - 1 \in 0..n /\ n - 1 # n /\ f[n - 1] = g[n - 1]
                    BY <3>1
                <5> QED BY <2>3, <3>1, <4>2, <5>1
            <4>3. CASE k # n /\ k # 0
                <5>1. k \in 0..(n - 1) /\ k - 1 \in 0..n /\ k - 1 # n
                    BY <3>1, <4>3
                <5>2. f[k - 1] = g[k - 1] /\ f[k] = g[k] /\ g[k] = Climb(g[k - 1])
                    BY <4>1, <4>3, <5>1
                <5> QED BY <4>3, <5>2
            <4>4. CASE k # n /\ k = 0
                BY <2>3, <3>1, <4>1, <4>4
            <4> QED BY <4>2, <4>3, <4>4
        <3>4. f = e
            BY <3>3
        <3>5. IsClimb(f, m, n)
            BY <3>4 DEF IsClimb
        <3> QED BY <2>1, <3>5
    <2> QED BY <2>2, <2>3
<1> QED BY <1>1

LEMMA AncestorsAreMenus ==
    ASSUME NEW m \in Menus
    PROVE  Ancestors(m) \subseteq Menus
<1> DEFINE C == Cardinality(Menus)
           chosen == CHOOSE f : IsClimb(f, m, C)
<1>1. C \in Nat
    BY UserPageAssumption, FS_CardinalityType
<1>2. Ancestors(m) = chosen[C] \ {m, Root}
    BY Zenon DEF Ancestors, IsClimb, Climb
<1>3. IsClimb(chosen, m, C)
    BY <1>1, ClimbExists
<1> HIDE DEF chosen, C
<1>7. PICK up : Ancestors(m) = up[C] \ {m, Root} /\ IsClimb(up, m, C)
    BY <1>2, <1>3
<1>4. /\ up[0] = {m}
      /\ \A k \in 1..C : up[k] = Climb(up[k - 1])
    <2>1. \A k \in 0..C : up[k] = IF k = 0 THEN {m} ELSE Climb(up[k - 1])
        BY <1>7 DEF IsClimb
    <2>2. 0 \in 0..C /\ \A k \in 1..C : k \in 0..C /\ k # 0
        BY <1>1
    <2> QED BY <2>1, <2>2
<1> DEFINE Beyond == {k \in 0..C : ~(up[k] \subseteq Menus \union {Root})}
<1>5. ASSUME Beyond # {} PROVE FALSE
    <2>1. PICK n \in Beyond : \A y \in Beyond : n <= y
        <3>1. Beyond \in SUBSET Nat
            OBVIOUS
        <3> HIDE DEF Beyond
        <3> QED BY <1>5, <3>1, LeastOne
    <2>2. n # 0
        BY <1>4, <2>1
    <2>3. n \in 1..C /\ n - 1 \in 0..C /\ n - 1 \notin Beyond
        BY <1>1, <2>1, <2>2
    <2>4. up[n - 1] \subseteq Menus \union {Root} /\ up[n] = Climb(up[n - 1])
        BY <1>4, <2>3
    <2>5. up[n] \subseteq Menus \union {Root}
        BY <2>4, UserPageAssumption DEF Climb
    <2> QED BY <2>1, <2>5
<1>6. up[C] \subseteq Menus \union {Root}
    BY <1>1, <1>5
<1> QED BY <1>7, <1>6

LEMMA CheckedAreMenus ==
    ASSUME NEW ticked, ticked \subseteq Menus
    PROVE  getChecked(ticked) \subseteq Menus
BY AncestorsAreMenus DEF getChecked

LEMMA OpenFormType ==
    ASSUME PageType, NEW id \in Forms, OpenForm(id)
    PROVE  PageType'
<1> DEFINE load == [owner |-> id, step |-> "sent", own |-> {}, shown |-> {}]
<1>1. load \in Loads
    BY DEF Loads
<1> HIDE DEF load
<1>2. /\ page' = [page EXCEPT !.clicks = @ + 1, !.form = id, !.claim = Nobody,
                        !.unsure = Outstanding \/ (page.posts # {} /\ page.unsure),
                        !.loads = @ \union {load}]
      /\ db' = db
    BY DEF OpenForm, load
<1>3. page.clicks + 1 \in Nat /\ page.loads \union {load} \in SUBSET Loads
    BY <1>1 DEF PageType
<1>4. (Outstanding \/ (page.posts # {} /\ page.unsure)) \in BOOLEAN
    OBVIOUS
<1> QED BY <1>2, <1>3, <1>4 DEF PageType

LEMMA SavedType ==
    ASSUME PageType, userSaved
    PROVE  PageType'
<1> DEFINE menus == getChecked(page.tree.ticked)
           user == page.save.user
           post == [user |-> user, menus |-> menus, step |-> "sent", old |-> {}]
           claim == [user |-> user, menus |-> menus,
                     form |-> page.save.form, owner |-> page.tree.owner]
<1>1. menus \subseteq Menus
    BY CheckedAreMenus DEF PageType, Tree
<1>2. user \in Users /\ page.save.form \in Forms /\ page.tree.owner \in Forms \union {Root}
    BY DEF PageType, Tree, PageSaves, userSaved
<1>3. post \in Posts /\ claim \in Claims
    BY <1>1, <1>2 DEF Posts, Claims
<1>4. /\ page' = IF menus = {}
                 THEN [page EXCEPT !.save = Nobody]
                 ELSE [page EXCEPT !.save = Nobody, !.posts = @ \union {post}, !.claim = claim]
      /\ db' = db
    BY DEF userSaved
<1> HIDE DEF menus, user, post, claim
<1>5. CASE menus = {}
    BY <1>4, <1>5 DEF PageType
<1>6. CASE menus # {}
    BY <1>3, <1>4, <1>6 DEF PageType
<1> QED BY <1>5, <1>6

LEMMA LoadsType ==
    ASSUME PageType, NEW load \in page.loads,
           findByUserId(load) \/ listByTier(load) \/ loadMenuTree(load)
    PROVE  PageType'
<1>1. load \in Loads
    BY DEF PageType
<1>2. CASE findByUserId(load)
    <2> DEFINE read == [load EXCEPT !.step = "own", !.own = getChildBySysMenuVo(LinksOf(load.owner))]
    <2>1. getChildBySysMenuVo(LinksOf(load.owner)) \in SUBSET Menus
        BY DEF getChildBySysMenuVo, LinksOf
    <2>2. read \in Loads
        BY <1>1, <2>1 DEF Loads
    <2>3. /\ \/ page' = [page EXCEPT !.loads = (@ \ {load}) \union {read}]
             \/ page' = [page EXCEPT !.loads = @ \ {load}, !.unsure = TRUE]
          /\ db' = db
        BY <1>2 DEF findByUserId
    <2> HIDE DEF read
    <2> QED BY <2>2, <2>3 DEF PageType
<1>3. CASE listByTier(load)
    <2> DEFINE read == [load EXCEPT !.step = "read", !.shown = getChildBySysMenuVo(db.menus)]
    <2>1. getChildBySysMenuVo(db.menus) \in SUBSET Menus
        BY DEF getChildBySysMenuVo, PageType
    <2>2. read \in Loads
        BY <1>1, <2>1 DEF Loads
    <2>3. page' = [page EXCEPT !.loads = (@ \ {load}) \union {read}] /\ db' = db
        BY <1>3 DEF listByTier
    <2> HIDE DEF read
    <2> QED BY <2>2, <2>3 DEF PageType
<1>4. CASE loadMenuTree(load)
    <2> DEFINE tree == [owner |-> load.owner, shown |-> load.shown,
                        ticked |-> checkedForLayuiTree(load.shown, load.own)]
    <2>1. tree \in Tree
        BY <1>1 DEF Tree, Loads, checkedForLayuiTree, Leaves
    <2>2. page' = [page EXCEPT !.loads = @ \ {load}, !.tree = tree] /\ db' = db
        BY <1>4 DEF loadMenuTree
    <2> HIDE DEF tree
    <2> QED BY <2>1, <2>2 DEF PageType
<1> QED BY <1>2, <1>3, <1>4

LEMMA PostsType ==
    ASSUME PageType, NEW post \in page.posts, listUserMenus(post) \/ saveAllByUserId(post)
    PROVE  PageType'
<1>1. post \in Posts
    BY DEF PageType
<1>2. CASE listUserMenus(post)
    <2> DEFINE read == [post EXCEPT !.step = "read", !.old = LinksOf(post.user)]
    <2>1. LinksOf(post.user) \in SUBSET Menus
        BY DEF LinksOf
    <2>2. read \in Posts
        BY <1>1, <2>1 DEF Posts
    <2>3. page' = [page EXCEPT !.posts = (@ \ {post}) \union {read}] /\ db' = db
        BY <1>2 DEF listUserMenus
    <2> HIDE DEF read
    <2> QED BY <2>2, <2>3 DEF PageType
<1>3. CASE saveAllByUserId(post)
    <2> DEFINE links == (db.links \ ({post.user} \X post.old)) \union ({post.user} \X post.menus)
    <2>1. links \in SUBSET (Users \X Menus)
        BY <1>1 DEF Posts, PageType
    <2>2. /\ page' = [page EXCEPT !.posts = @ \ {post}]
          /\ db' = [db EXCEPT !.links = links] \/ db' = db
        BY <1>3 DEF saveAllByUserId
    <2> HIDE DEF links
    <2> QED BY <2>1, <2>2 DEF PageType
<1> QED BY <1>2, <1>3

LEMMA FormSavesType ==
    ASSUME PageType, userFormSave \/ saveUser
    PROVE  PageType'
<1>1. CASE userFormSave
    <2> DEFINE save == [user |-> page.form, step |-> "sent", form |-> page.form]
    <2>1. save \in PageSaves /\ save.step # "saved"
        BY DEF PageSaves, PageType
    <2>2. /\ page' = [page EXCEPT !.clicks = @ + 1, !.save = save, !.claim = Nobody,
                            !.unsure = @ \/ page.loads # {} \/ page.posts # {}]
          /\ db' = db
        BY <1>1 DEF userFormSave
    <2>3. page.clicks + 1 \in Nat /\ (page.unsure \/ page.loads # {} \/ page.posts # {}) \in BOOLEAN
        BY DEF PageType
    <2> HIDE DEF save
    <2> QED BY <2>1, <2>2, <2>3 DEF PageType
<1>2. CASE saveUser
    <2>1. page.save \in PageSaves
        BY <1>2 DEF PageType, saveUser
    <2>2. ASSUME NEW user \in Users \ db.known,
                 db' = [db EXCEPT !.users = @ \union {user}, !.known = @ \union {user}],
                 page' = [page EXCEPT !.save.user = user, !.save.step = "saved"]
          PROVE  PageType'
        <3> DEFINE save == [page.save EXCEPT !.user = user, !.step = "saved"]
        <3>1. save \in PageSaves /\ save.user \in Users
            BY <2>1 DEF PageSaves, Forms
        <3>2. page' = [page EXCEPT !.save = save]
            BY <2>1, <2>2 DEF PageType, PageSaves
        <3> HIDE DEF save
        <3> QED BY <2>2, <3>1, <3>2 DEF PageType
    <2>3. ASSUME page.save.user \in db.users, page' = [page EXCEPT !.save.step = "saved"], db' = db
          PROVE  PageType'
        <3> DEFINE save == [page.save EXCEPT !.step = "saved"]
        <3>1. save \in PageSaves /\ save.user \in Users
            BY <2>1, <2>3 DEF PageSaves, PageType
        <3>2. page' = [page EXCEPT !.save = save]
            BY <2>1, <2>3 DEF PageType, PageSaves
        <3> HIDE DEF save
        <3> QED BY <2>3, <3>1, <3>2 DEF PageType
    <2>4. ASSUME page' = [page EXCEPT !.save = Nobody], db' = db
          PROVE  PageType'
        BY <2>4 DEF PageType
    <2> QED BY <1>2, <2>2, <2>3, <2>4 DEF saveUser
<1> QED BY <1>1, <1>2

LEMMA TickType ==
    ASSUME PageType, NEW m \in Menus, Tick(m)
    PROVE  PageType'
<1> DEFINE tree == [page.tree EXCEPT !.ticked = IF m \in @ THEN @ \ {m} ELSE @ \union {m}]
<1>1. tree \in Tree
    BY DEF PageType, Tree
<1>2. page' = [page EXCEPT !.claim = Nobody, !.tree = tree] /\ db' = db
    BY DEF Tick, PageType, Tree
<1> HIDE DEF tree
<1> QED BY <1>1, <1>2 DEF PageType

LEMMA ChangesType ==
    ASSUME PageType,
           \/ \E user \in Users : deleteUser(user)
           \/ \E m \in Menus : saveMenu(m) \/ deleteMenu(m)
    PROVE  PageType'
<1>1. db.changes + 1 \in Nat /\ (page.unsure \/ page.posts # {}) \in BOOLEAN
    BY DEF PageType
<1>2. ASSUME NEW user \in Users, deleteUser(user)
      PROVE  PageType'
    <2>1. (IF page.claim.user = user THEN Nobody ELSE page.claim) \in {Nobody} \union Claims
        BY DEF PageType
    <2>2. db' \in [menus : SUBSET Menus, users : SUBSET Users, links : SUBSET (Users \X Menus),
                   known : SUBSET (Users \union Menus), changes : Nat]
        <3>1. db.users \ {user} \in SUBSET Users /\ db.links \ ({user} \X Menus) \in SUBSET (Users \X Menus)
            BY DEF PageType
        <3>2. db' = [db EXCEPT !.changes = db.changes + 1, !.users = db.users \ {user},
                               !.links = db.links \ ({user} \X Menus)]
            BY <1>2 DEF deleteUser
        <3> QED BY <1>1, <3>1, <3>2 DEF PageType
    <2> QED BY <1>1, <1>2, <2>1, <2>2 DEF deleteUser, PageType
<1>3. ASSUME NEW m \in Menus, saveMenu(m)
      PROVE  PageType'
    BY <1>1, <1>3 DEF saveMenu, PageType
<1>4. ASSUME NEW m \in Menus, deleteMenu(m)
      PROVE  PageType'
    <2> DEFINE claim == IF page.claim = Nobody THEN page.claim ELSE [page.claim EXCEPT !.menus = @ \ {m}]
    <2>1. claim \in {Nobody} \union Claims
        BY DEF PageType, Claims
    <2>2. db' \in [menus : SUBSET Menus, users : SUBSET Users, links : SUBSET (Users \X Menus),
                   known : SUBSET (Users \union Menus), changes : Nat]
        <3> DEFINE menus == {o \in db.menus : o # m /\ parent[o] # m}
                   links == db.links \ (Users \X {m})
        <3>1. menus \in SUBSET Menus /\ links \in SUBSET (Users \X Menus)
            BY DEF PageType
        <3>2. db' = [db EXCEPT !.changes = db.changes + 1, !.menus = menus, !.links = links]
            BY <1>4 DEF deleteMenu
        <3> HIDE DEF menus, links
        <3> QED BY <1>1, <3>1, <3>2 DEF PageType
    <2>3. page' = [page EXCEPT !.unsure = @ \/ page.posts # {}, !.claim = claim]
        BY <1>4 DEF deleteMenu, PageType
    <2> HIDE DEF claim
    <2> QED BY <1>1, <2>1, <2>2, <2>3 DEF PageType
<1> QED BY <1>2, <1>3, <1>4

LEMMA PageTypeInit == UserPageInit => PageType
<1> SUFFICES ASSUME UserPageInit PROVE PageType
    OBVIOUS
<1>1. PICK links \in SUBSET (FirstUsers \X FirstMenus) :
         db = [menus |-> FirstMenus, users |-> FirstUsers, links |-> links,
               known |-> FirstUsers \union FirstMenus, changes |-> 0]
    BY DEF UserPageInit
<1>2. links \in SUBSET (Users \X Menus) /\ FirstUsers \union FirstMenus \in SUBSET (Users \union Menus)
    BY UserPageAssumption
<1>3. [owner |-> Root, shown |-> {}, ticked |-> {}] \in Tree
    BY DEF Tree
<1>4. PICK tree \in Tree :
         page = [form |-> New, tree |-> tree, loads |-> {}, save |-> Nobody, posts |-> {},
                 claim |-> Nobody, unsure |-> FALSE, clicks |-> 0]
    BY <1>3 DEF UserPageInit
<1> QED BY <1>1, <1>2, <1>4, UserPageAssumption DEF PageType, Forms

LEMMA PageTypeStep == PageType /\ [UserPageNext]_pageVars => PageType'
<1> SUFFICES ASSUME PageType, [UserPageNext]_pageVars PROVE PageType'
    OBVIOUS
<1>1. CASE addData
    BY <1>1, OpenFormType DEF addData, Forms
<1>2. CASE \E user \in Users : edit(user)
    BY <1>2, OpenFormType DEF edit, Forms
<1>3. CASE UNCHANGED pageVars
    BY <1>3 DEF pageVars, PageType
<1> QED
    BY <1>1, <1>2, <1>3, TickType, FormSavesType, SavedType, LoadsType, PostsType, ChangesType
    DEF UserPageNext

-----------------------------------------------------------------------------
(* A page that is not unsure stays like that.                              *)

LEMMA OpenFormSure ==
    ASSUME PageType, SureInv, NEW id \in Forms, OpenForm(id)
    PROVE  SureInv'
<1> DEFINE load == [owner |-> id, step |-> "sent", own |-> {}, shown |-> {}]
<1>1. /\ page'.loads = page.loads \union {load} /\ page'.form = id /\ page'.claim = Nobody
      /\ page'.unsure = (Outstanding \/ (page.posts # {} /\ page.unsure))
      /\ page'.save = page.save /\ page'.posts = page.posts /\ db' = db
    BY DEF OpenForm, PageType
<1>2. load.owner = id
    OBVIOUS
<1> HIDE DEF load
<1>3. SUFFICES ASSUME ~page'.unsure
               PROVE  /\ page.loads = {} /\ page.save = Nobody
                      /\ page.posts # {} => ~page.unsure
    BY <1>1, <1>2, <1>3 DEF SureInv, LinksOf
<1> QED BY <1>1, <1>3 DEF Outstanding, PageType

LEMMA TickSure ==
    ASSUME PageType, SureInv, NEW m \in Menus, Tick(m)
    PROVE  SureInv'
<1>1. /\ page'.loads = page.loads /\ page'.form = page.form /\ page'.claim = Nobody
      /\ page'.tree.owner = page.tree.owner /\ page.tree.shown # {}
      /\ page'.unsure = page.unsure /\ page'.save = page.save /\ page'.posts = page.posts /\ db' = db
    BY DEF Tick, Leaves, PageType, Tree
<1> QED BY <1>1 DEF SureInv, LinksOf

LEMMA FormSaveSure ==
    ASSUME PageType, SureInv, userFormSave
    PROVE  SureInv'
<1>1. /\ page'.loads = page.loads /\ page'.form = page.form /\ page'.claim = Nobody
      /\ page'.tree = page.tree /\ page'.posts = page.posts /\ page'.save.form = page.form
      /\ page'.unsure = (page.unsure \/ page.loads # {} \/ page.posts # {})
    BY DEF userFormSave, PageType
<1> QED BY <1>1 DEF SureInv

\* Menus were ticked, so the tree is that of the form that was saved.
LEMMA SavedSure ==
    ASSUME PageType, SureInv, userSaved
    PROVE  SureInv'
<1> DEFINE menus == getChecked(page.tree.ticked)
           post == [user |-> page.save.user, menus |-> menus, step |-> "sent", old |-> {}]
           claim == [user |-> page.save.user, menus |-> menus,
                     form |-> page.save.form, owner |-> page.tree.owner]
<1>1. /\ page'.loads = page.loads /\ page'.form = page.form /\ page'.save = Nobody
      /\ page'.tree = page.tree /\ page'.unsure = page.unsure /\ db' = db
      /\ IF menus = {} THEN page'.posts = page.posts /\ page'.claim = page.claim
                       ELSE page'.posts = page.posts \union {post} /\ page'.claim = claim
    BY DEF userSaved, PageType
<1>2. page.save # Nobody
    BY DEF userSaved
<1>3. menus # {} => page.tree.ticked # {}
    BY DEF getChecked
<1>4. /\ post.user = claim.user /\ post.menus = claim.menus /\ post.step # "read"
      /\ claim.owner = page.tree.owner /\ claim.form = page.save.form
    OBVIOUS
<1> HIDE DEF menus, post, claim
<1>5. CASE menus = {}
    BY <1>1, <1>2, <1>5 DEF SureInv, LinksOf
<1>6. CASE menus # {}
    BY <1>1, <1>2, <1>3, <1>4, <1>6 DEF SureInv
<1> QED BY <1>5, <1>6

LEMMA SaveUserSure ==
    ASSUME PageType, SureInv, saveUser
    PROVE  SureInv'
<1> DEFINE SaveOnly ==
      /\ page'.loads = page.loads /\ page'.form = page.form /\ page'.claim = page.claim
      /\ page'.tree = page.tree /\ page'.posts = page.posts /\ page'.unsure = page.unsure
      /\ db'.links = db.links /\ (page'.save = Nobody \/ page'.save.form = page.save.form)
<1>1. page.save # Nobody /\ page.save \in PageSaves
    BY DEF saveUser, PageType
<1>2. SaveOnly
    <2>1. ASSUME NEW user, db' = [db EXCEPT !.users = @ \union {user}, !.known = @ \union {user}],
                 page' = [page EXCEPT !.save.user = user, !.save.step = "saved"]
          PROVE  SaveOnly
        BY <1>1, <2>1 DEF PageType, PageSaves
    <2>2. ASSUME page' = [page EXCEPT !.save.step = "saved"], db' = db
          PROVE  SaveOnly
        BY <1>1, <2>2 DEF PageType, PageSaves
    <2>3. ASSUME page' = [page EXCEPT !.save = Nobody], db' = db
          PROVE  SaveOnly
        BY <2>3 DEF PageType
    <2> QED BY <2>1, <2>2, <2>3 DEF saveUser
<1> QED BY <1>1, <1>2 DEF SureInv, LinksOf

LEMMA LoadsSure ==
    ASSUME PageType, SureInv, NEW load \in page.loads,
           findByUserId(load) \/ listByTier(load) \/ loadMenuTree(load)
    PROVE  SureInv'
<1>1. load \in Loads
    BY DEF PageType
<1>2. /\ page'.form = page.form /\ page'.save = page.save /\ page'.claim = page.claim
      /\ page'.posts = page.posts /\ db' = db /\ (page.unsure => page'.unsure)
    BY DEF findByUserId, listByTier, loadMenuTree, PageType
<1>3. \/ page'.unsure
      \/ /\ page'.tree = page.tree
         /\ \E read : page'.loads = (page.loads \ {load}) \union {read} /\ read.owner = load.owner
      \/ page'.loads = page.loads \ {load} /\ page'.tree.owner = load.owner
    <2>1. CASE findByUserId(load)
        <3> DEFINE read == [load EXCEPT !.step = "own", !.own = getChildBySysMenuVo(LinksOf(load.owner))]
        <3>1. read.owner = load.owner
            BY <1>1 DEF Loads
        <3>2. \/ page'.unsure
              \/ page'.loads = (page.loads \ {load}) \union {read} /\ page'.tree = page.tree
            BY <2>1 DEF findByUserId, PageType
        <3> QED BY <3>1, <3>2
    <2>2. CASE listByTier(load)
        <3> DEFINE read == [load EXCEPT !.step = "read", !.shown = getChildBySysMenuVo(db.menus)]
        <3>1. read.owner = load.owner
            BY <1>1 DEF Loads
        <3>2. page'.loads = (page.loads \ {load}) \union {read} /\ page'.tree = page.tree
            BY <2>2 DEF listByTier, PageType
        <3> QED BY <3>1, <3>2
    <2>3. CASE loadMenuTree(load)
        BY <2>3 DEF loadMenuTree, PageType
    <2> QED BY <2>1, <2>2, <2>3
<1> QED BY <1>2, <1>3 DEF SureInv, LinksOf

LEMMA PostReadSure ==
    ASSUME PageType, SureInv, NEW post \in page.posts, listUserMenus(post)
    PROVE  SureInv'
<1> DEFINE read == [post EXCEPT !.step = "read", !.old = LinksOf(post.user)]
<1>1. /\ page'.posts = (page.posts \ {post}) \union {read}
      /\ page'.form = page.form /\ page'.save = page.save /\ page'.claim = page.claim
      /\ page'.loads = page.loads /\ page'.tree = page.tree /\ page'.unsure = page.unsure /\ db' = db
    BY DEF listUserMenus, PageType
<1>2. read.user = post.user /\ read.menus = post.menus /\ read.old = LinksOf(post.user)
    BY DEF PageType, Posts
<1> HIDE DEF read
<1> QED BY <1>1, <1>2 DEF SureInv, LinksOf

\* The links the post has read are still there, so those it brings replace them.
LEMMA PostSavedSure ==
    ASSUME PageType, SureInv, NEW post \in page.posts, saveAllByUserId(post)
    PROVE  SureInv'
<1>1. /\ page'.posts = page.posts \ {post}
      /\ page'.form = page.form /\ page'.save = page.save /\ page'.claim = page.claim
      /\ page'.loads = page.loads /\ page'.tree = page.tree /\ page'.unsure = page.unsure
    BY DEF saveAllByUserId, PageType
<1>2. ASSUME ~page.unsure PROVE LinksOf(post.user)' = post.menus
    <2>1. post.old = LinksOf(post.user)
        BY <1>2 DEF saveAllByUserId, SureInv
    <2>2. db'.links = (db.links \ ({post.user} \X post.old)) \union ({post.user} \X post.menus)
        BY <2>1 DEF saveAllByUserId, PageType
    <2>3. post.menus \subseteq Menus
        BY DEF PageType, Posts
    <2>4. LinksOf(post.user)' = {m \in Menus : <<post.user, m>> \in db'.links}
        BY DEF LinksOf
    <2>5. ASSUME NEW m \in Menus
          PROVE  <<post.user, m>> \in db'.links <=> m \in post.menus
        BY <2>1, <2>2 DEF LinksOf
    <2> QED BY <2>3, <2>4, <2>5
<1> QED BY <1>1, <1>2 DEF SureInv

LEMMA ChangesSure ==
    ASSUME PageType, SureInv,
           \/ \E user \in Users : deleteUser(user)
           \/ \E m \in Menus : saveMenu(m) \/ deleteMenu(m)
    PROVE  SureInv'
<1>1. ASSUME NEW user \in Users, deleteUser(user)
      PROVE  SureInv'
    <2>1. /\ page'.loads = page.loads /\ page'.form = page.form /\ page'.save = page.save
          /\ page'.tree = page.tree /\ page'.posts = page.posts
          /\ page'.unsure = (page.unsure \/ page.posts # {})
          /\ page'.claim = IF page.claim.user = user THEN Nobody ELSE page.claim
        BY <1>1 DEF deleteUser, PageType
    <2>2. db'.links = db.links \ ({user} \X Menus)
        BY <1>1 DEF deleteUser, PageType
    <2>3. page.claim.user # user => LinksOf(page.claim.user)' = LinksOf(page'.claim.user)
        BY <2>1, <2>2 DEF LinksOf
    <2> QED BY <2>1, <2>2, <2>3 DEF SureInv, LinksOf
<1>2. ASSUME NEW m \in Menus, saveMenu(m)
      PROVE  SureInv'
    <2>1. page' = page /\ db'.links = db.links
        BY <1>2 DEF saveMenu, PageType
    <2> QED BY <2>1 DEF SureInv, LinksOf
<1>3. ASSUME NEW m \in Menus, deleteMenu(m)
      PROVE  SureInv'
    <2>1. /\ page'.loads = page.loads /\ page'.form = page.form /\ page'.save = page.save
          /\ page'.tree = page.tree /\ page'.posts = page.posts
          /\ page'.unsure = (page.unsure \/ page.posts # {})
          /\ page.claim = Nobody => page'.claim = Nobody
          /\ page.claim # Nobody =>
                /\ page'.claim.user = page.claim.user /\ page'.claim.menus = page.claim.menus \ {m}
                /\ page'.claim.form = page.claim.form /\ page'.claim.owner = page.claim.owner
        BY <1>3 DEF deleteMenu, PageType, Claims
    <2>2. page.claim # Nobody => LinksOf(page.claim.user)' = LinksOf(page'.claim.user) \ {m}
        <3>1. db'.links = db.links \ (Users \X {m})
            BY <1>3 DEF deleteMenu, PageType
        <3>2. page.claim # Nobody => page.claim.user \in Users
            BY DEF PageType, Claims
        <3> QED BY <2>1, <3>1, <3>2 DEF LinksOf
    <2>3. page.claim # Nobody => LinksOf(page'.claim.user) = LinksOf(page.claim.user)
        BY <2>1
    <2> QED BY <2>1, <2>2, <2>3 DEF SureInv
<1> QED BY <1>1, <1>2, <1>3

LEMMA SureInit == UserPageInit => SureInv
BY DEF UserPageInit, SureInv, Nobody

LEMMA SureStep == PageType /\ SureInv /\ [UserPageNext]_pageVars => SureInv'
<1> SUFFICES ASSUME PageType, SureInv, [UserPageNext]_pageVars PROVE SureInv'
    OBVIOUS
<1>1. CASE addData
    BY <1>1, OpenFormSure DEF addData, Forms
<1>2. CASE \E user \in Users : edit(user)
    BY <1>2, OpenFormSure DEF edit, Forms
<1>3. CASE UNCHANGED pageVars
    BY <1>3 DEF pageVars, SureInv, LinksOf
<1> QED
    BY <1>1, <1>2, <1>3, TickSure, FormSaveSure, SavedSure, SaveUserSure, LoadsSure,
       PostReadSure, PostSavedSure, ChangesSure
    DEF UserPageNext

LEMMA PageInvariant == UserPageSpec => [](PageType /\ SureInv)
<1>1. UserPageInit => PageType /\ SureInv
    BY PageTypeInit, SureInit
<1>2. PageType /\ SureInv /\ [UserPageNext]_pageVars => (PageType /\ SureInv)'
    BY PageTypeStep, SureStep
<1> QED BY <1>1, <1>2, PTL DEF UserPageSpec

\* Once all calls are answered, on a page that is not unsure, the menus that
\* user.js took for saved are those of sys_user_menu, and were ticked in the
\* tree of the user whose form was saved.
THEOREM ClaimsAreStored == UserPageSpec => []SavedIsStored
<1>1. SureInv => SavedIsStored
    BY DEF SureInv, SavedIsStored
<1> QED BY <1>1, PageInvariant, PTL

-----------------------------------------------------------------------------
\* For every tree of menus and every set of links: a save of the tree as
\* checkedForLayuiTree ticked it grants nothing, and keeps each link whose
\* menu is shown, unless the menu is no leaf and none below it is granted.
THEOREM LoadAndSave == UserPageSpec => []UnchangedSave
<1>1. UnchangedSave
    <2> DEFINE own(user) == getChildBySysMenuVo(LinksOf(user))
               visible == getChildBySysMenuVo(db.menus)
               ticked(user) == checkedForLayuiTree(visible, own(user))
               again(user) == getChecked(ticked(user))
    <2>1. ASSUME NEW user
          PROVE  again(user) \subseteq LinksOf(user)
        BY DEF getChecked, checkedForLayuiTree, getChildBySysMenuVo
    <2>2. ASSUME NEW user, NEW m \in LinksOf(user) \ again(user)
          PROVE  \/ m \notin visible \intersect own(user)
                 \/ m \notin Leaves(visible) /\ \A l \in Leaves(visible) \intersect own(user) : m \notin Ancestors(l)
        <3>1. ticked(user) = Leaves(visible) \intersect own(user)
            BY DEF checkedForLayuiTree
        <3>2. m \notin ticked(user) /\ \A l \in ticked(user) : m \notin Ancestors(l)
            BY <2>2 DEF getChecked
        <3> HIDE DEF own, visible, ticked, again
        <3> QED BY <3>1, <3>2
    <2> HIDE DEF own, visible, ticked, again
    <2>3. \A user \in db.users :
             /\ again(user) \subseteq LinksOf(user)
             /\ \A m \in LinksOf(user) \ again(user) :
                   \/ m \notin visible \intersect own(user)
                   \/ m \notin Leaves(visible) /\ \A l \in Leaves(visible) \intersect own(user) : m \notin Ancestors(l)
        BY <2>1, <2>2
    <2> QED BY <2>3 DEF UnchangedSave, own, visible, ticked, again
<1> QED BY <1>1, PTL

-----------------------------------------------------------------------------
LEMMA DanglingStep ==
    ASSUME PageType, [UserPageNext]_pageVars, NEW l \in Dangling(db'), l \notin Dangling(db)
    PROVE  \/ parent[l[2]] \in db.menus \ db'.menus
           \/ \E post \in page.posts : saveAllByUserId(post) /\ l \in {post.user} \X post.menus
<1> USE DEF Dangling
<1>1. CASE db' = db
    BY <1>1
<1>2. CASE saveUser
    <2>1. db'.links = db.links /\ db'.menus = db.menus /\ db.users \subseteq db'.users
        <3>1. \/ \E user \in Users : db' = [db EXCEPT !.users = @ \union {user}, !.known = @ \union {user}]
              \/ db' = db
            BY <1>2 DEF saveUser
        <3> QED BY <3>1 DEF PageType
    <2> QED BY <2>1
<1>3. ASSUME NEW post \in page.posts, saveAllByUserId(post)
      PROVE  l \in {post.user} \X post.menus
    <2>1. /\ db'.links \subseteq db.links \union ({post.user} \X post.menus)
          /\ db'.menus = db.menus /\ db'.users = db.users
        BY <1>3 DEF saveAllByUserId, PageType
    <2> QED BY <2>1
<1>4. ASSUME NEW user \in Users, deleteUser(user)
      PROVE  FALSE
    <2>1. /\ db'.links = db.links \ ({user} \X Menus)
          /\ db'.menus = db.menus /\ db'.users = db.users \ {user}
        BY <1>4 DEF deleteUser, PageType
    <2>2. l \in Users \X Menus /\ l \notin {user} \X Menus /\ l \in db.links
        BY <2>1 DEF PageType
    <2>3. l[1] # user
        BY <2>2
    <2> QED BY <2>1, <2>2, <2>3
<1>5. ASSUME NEW m \in Menus, saveMenu(m)
      PROVE  FALSE
    <2>1. db'.links = db.links /\ db.menus \subseteq db'.menus /\ db'.users = db.users
        BY <1>5 DEF saveMenu, PageType
    <2> QED BY <2>1
<1>6. ASSUME NEW m \in Menus, deleteMenu(m)
      PROVE  parent[l[2]] \in db.menus \ db'.menus
    <2>1. /\ db'.links = db.links \ (Users \X {m}) /\ db'.users = db.users
          /\ db'.menus = {o \in db.menus : o # m /\ parent[o] # m} /\ m \in db.menus
        BY <1>6 DEF deleteMenu, PageType
    <2>2. l \in Users \X Menus /\ l \notin Users \X {m} /\ l \in db.links
        BY <2>1 DEF PageType
    <2>3. l[2] # m
        BY <2>2
    <2> QED BY <2>1, <2>2, <2>3
<1>7. \/ db' = db \/ saveUser
      \/ \E user \in Users : deleteUser(user)
      \/ \E m \in Menus : saveMenu(m) \/ deleteMenu(m)
      \/ \E post \in page.posts : saveAllByUserId(post)
    BY DEF UserPageNext, pageVars, addData, edit, OpenForm, Tick, userFormSave, userSaved,
           findByUserId, listByTier, loadMenuTree, listUserMenus
<1> QED BY <1>1, <1>2, <1>3, <1>4, <1>5, <1>6, <1>7

\* A link of sys_user_menu to a menu or a user that is gone comes only from
\* the deletion of the menu's parent, which leaves the links to the children,
\* or from saveAllByUserId with what a page was filled with before.
THEOREM DanglingLinks == UserPageSpec => DanglingOnlyFrom
<1>1. PageType /\ [UserPageNext]_pageVars =>
         [\A l \in Dangling(db') \ Dangling(db) :
             \/ parent[l[2]] \in db.menus \ db'.menus
             \/ \E post \in page.posts : saveAllByUserId(post) /\ l \in {post.user} \X post.menus]_pageVars
    BY DanglingStep
<1> QED BY <1>1, PageInvariant, PTL DEF UserPageSpec, DanglingOnlyFrom

-----------------------------------------------------------------------------
CallerStates == [pc: {"outside", "enter", "take", "put"}, got: 0..Limit]
TaskStates == [pc: {"free", "submitted", "test", "sleep", "read", "write"},
               new: 0..(Limit + Speed)]

\* Inside execute a request holds the lock; it reads a count above zero,
\* because whoever writes the count without the lock writes at least one.
Lock ==
    \A c \in Callers :
        /\ caller[c].pc \in {"take", "put"} => holder = c
        /\ caller[c].pc = "take" => tokens >= 1
        /\ caller[c].pc = "put" => caller[c].got >= 1

Refills == \A t \in Tasks : task[t].pc = "write" => task[t].new >= 1

\* What was granted since the last refill is missing from the count, and
\* from the count a request inside execute has read.
Spent ==
    /\ burst + tokens <= Limit
    /\ \A c \in Callers : caller[c].pc = "put" => burst + caller[c].got <= Limit

IInv == CountTypeOK /\ Lock /\ Refills /\ Spent

LEMMA Constants ==
    /\ Limit \in Nat /\ Limit >= 1 /\ Speed \in Nat /\ Speed >= 1
    /\ NoOne \notin Callers
    /\ \A p \in {"outside", "enter", "take"} :
         CallerAt(p) \in CallerStates /\ CallerAt(p).pc = p
    /\ \A p \in {"free", "submitted", "test", "sleep", "read"} :
         TaskAt(p) \in TaskStates /\ TaskAt(p).pc = p
BY RateLimiterAssumption DEF CallerAt, TaskAt, CallerStates, TaskStates

LEMMA InitInv == Init => IInv
<1> SUFFICES ASSUME Init PROVE IInv
    OBVIOUS
<1>1. caller \in [Callers -> CallerStates] /\ \A c \in Callers : caller[c].pc = "outside"
    BY Constants DEF Init
<1>2. task \in [Tasks -> TaskStates] /\ \A t \in Tasks : task[t].pc # "write"
    BY Constants DEF Init
<1>3. CountTypeOK
    <2>1. tokens = Limit /\ burst = 0
        BY DEF Init
    <2>2. tokens \in 0..Limit /\ burst \in Nat
        BY <2>1, Constants
    <2>3. flag \in BOOLEAN
        BY DEF Init
    <2>4. setting \in Settings /\ holder \in Callers \cup {NoOne}
        BY DEF Init
    <2>5. admin \in [Admins -> {"idle", "getStatus", "testOn", "testOff", "stop"}]
        BY DEF Init
    <2> QED BY <1>1, <1>2, <2>2, <2>3, <2>4, <2>5 DEF CountTypeOK, CallerStates, TaskStates
<1> QED BY <1>1, <1>2, <1>3, Constants DEF Init, IInv, Lock, Refills, Spent

-----------------------------------------------------------------------------
(***************************************************************************)
(* Updating one caller or one task.                                        *)
(***************************************************************************)
LEMMA OneCaller ==
    ASSUME CountTypeOK, NEW c \in Callers, NEW s \in CallerStates,
           caller' = [caller EXCEPT ![c] = s]
    PROVE  /\ caller' \in [Callers -> CallerStates]
           /\ caller'[c] = s
           /\ \A d \in Callers : d # c => caller'[d] = caller[d]
BY DEF CountTypeOK, CallerStates

LEMMA OneTask ==
    ASSUME CountTypeOK, NEW t \in Tasks, NEW s \in TaskStates,
           task' = [task EXCEPT ![t] = s]
    PROVE  /\ task' \in [Tasks -> TaskStates]
           /\ task'[t] = s
           /\ \A u \in Tasks : u # t => task'[u] = task[u]
BY DEF CountTypeOK, TaskStates

LEMMA RequestInv ==
    ASSUME IInv, NEW c \in Callers, Request(c)
    PROVE  IInv'
<1> USE Constants
<1>0. CountTypeOK /\ caller[c] \in CallerStates /\ caller \in [Callers -> CallerStates]
    BY DEF IInv, CountTypeOK, CallerStates
<1>1. CASE Call(c)
    <2>3. /\ caller' \in [Callers -> CallerStates] /\ caller'[c].pc = "enter"
          /\ \A d \in Callers : d # c => caller'[d] = caller[d]
        BY <1>0, <1>1, OneCaller DEF Call
    <2> QED BY <1>1, <2>3 DEF Call, IInv, CountTypeOK, Lock, Refills, Spent, CallerStates
<1>2. CASE ExecuteTest(c)
    <2>1. CASE tokens > 0
        <3>3. /\ caller' \in [Callers -> CallerStates] /\ caller'[c].pc = "take"
              /\ \A d \in Callers : d # c => caller'[d] = caller[d]
            BY <1>0, <1>2, <2>1, OneCaller DEF ExecuteTest
        <3>4. \A d \in Callers : caller[d].pc \notin {"take", "put"}
            BY <1>2 DEF ExecuteTest, IInv, Lock
        <3>5. tokens' = tokens /\ burst' = burst /\ holder' = c /\ task' = task
              /\ flag' = flag /\ setting' = setting /\ admin' = admin
            BY <1>2, <2>1 DEF ExecuteTest
        <3>6. tokens \in 0..Limit
            BY DEF IInv, CountTypeOK
        <3>7. Lock'
            BY <2>1, <3>3, <3>4, <3>5, <3>6 DEF Lock
        <3> QED BY <3>3, <3>4, <3>5, <3>7 DEF IInv, CountTypeOK, Refills, Spent, CallerStates
    <2>2. CASE ~(tokens > 0)
        <3>1. caller' = [caller EXCEPT ![c] = CallerAt("outside")]
            BY <1>2, <2>2 DEF ExecuteTest
        <3>2. /\ caller' \in [Callers -> CallerStates] /\ caller'[c].pc = "outside"
              /\ \A d \in Callers : d # c => caller'[d] = caller[d]
            BY <1>0, <3>1, OneCaller
        <3> QED BY <1>2, <2>2, <3>2 DEF ExecuteTest, IInv, CountTypeOK, Lock, Refills, Spent, CallerStates
    <2> QED BY <2>1, <2>2
<1>3. CASE ExecuteRead(c)
    <2> DEFINE s == [pc |-> "put", got |-> tokens]
    <2>1. s \in CallerStates /\ s.pc = "put" /\ s.got = tokens
        BY DEF IInv, CountTypeOK, CallerStates
    <2>2. caller' = [caller EXCEPT ![c] = s]
        BY <1>3 DEF ExecuteRead
    <2> HIDE DEF s
    <2>3. /\ caller' \in [Callers -> CallerStates] /\ caller'[c].pc = "put" /\ caller'[c].got = tokens
          /\ \A d \in Callers : d # c => caller'[d] = caller[d]
        BY <1>0, <2>1, <2>2, OneCaller
    <2> QED BY <1>3, <2>3 DEF ExecuteRead, IInv, CountTypeOK, Lock, Refills, Spent, CallerStates
<1>4. CASE ExecuteWrite(c)
    <2>1. caller' = [caller EXCEPT ![c] = CallerAt("outside")]
        BY <1>4 DEF ExecuteWrite
    <2>2. /\ caller' \in [Callers -> CallerStates] /\ caller'[c].pc = "outside"
          /\ \A d \in Callers : d # c => caller'[d] = caller[d]
        BY <1>0, <2>1, OneCaller
    <2>3. \A d \in Callers : caller'[d].pc \notin {"take", "put"}
        BY <1>4, <2>2 DEF ExecuteWrite, IInv, Lock
    <2>4. /\ caller[c].got \in 0..Limit /\ caller[c].got >= 1 /\ burst \in Nat
          /\ burst + caller[c].got <= Limit
        BY <1>0, <1>4 DEF ExecuteWrite, IInv, CountTypeOK, Lock, Spent, CallerStates
    <2>5. tokens' = caller[c].got - 1 /\ burst' = burst + 1
        BY <1>4 DEF ExecuteWrite
    <2>6. tokens' \in 0..Limit /\ burst' \in Nat /\ burst' + tokens' <= Limit
        BY <2>4, <2>5
    <2> QED BY <1>4, <2>2, <2>3, <2>6 DEF ExecuteWrite, IInv, CountTypeOK, Lock, Refills, Spent, CallerStates
<1> QED BY <1>1, <1>2, <1>3, <1>4 DEF Request

LEMMA SaveInv ==
    ASSUME IInv, NEW a \in Admins, SaveStep(a)
    PROVE  IInv'
<1>1. /\ tokens' = tokens /\ burst' = burst /\ holder' = holder /\ caller' = caller
      /\ flag' \in BOOLEAN /\ setting' \in Settings
      /\ admin' \in [Admins -> {"idle", "getStatus", "testOn", "testOff", "stop"}]
    BY DEF SaveStep, Save, GetStatus, TestOn, TestOff, Stop, IInv, CountTypeOK
<1>2. CASE task' = task
    BY <1>1, <1>2 DEF IInv, CountTypeOK, Lock, Refills, Spent
<1>3. CASE TestOn(a) /\ setting = "Y"
    <2>1. PICK t \in FreeTasks : task' = [task EXCEPT ![t] = TaskAt("submitted")]
        BY <1>3 DEF TestOn
    <2>2. t \in Tasks
        BY DEF FreeTasks
    <2>4. /\ task' \in [Tasks -> TaskStates] /\ task'[t].pc = "submitted"
          /\ \A u \in Tasks : u # t => task'[u] = task[u]
        BY <2>1, <2>2, Constants, OneTask DEF IInv
    <2> QED BY <1>1, <2>2, <2>4 DEF IInv, CountTypeOK, Lock, Refills, Spent, TaskStates
<1> QED BY <1>2, <1>3 DEF SaveStep, Save, GetStatus, TestOn, TestOff, Stop

LEMMA TaskInv ==
    ASSUME IInv, NEW t \in Tasks, TaskStep(t)
    PROVE  IInv'
<1> USE Constants
<1>0. CountTypeOK /\ task[t] \in TaskStates /\ tokens \in 0..Limit
    BY DEF IInv, CountTypeOK, TaskStates
<1>1. ASSUME NEW s \in TaskStates, task' = [task EXCEPT ![t] = s], s.pc # "write",
             flag' \in BOOLEAN, UNCHANGED <<tokens, setting, holder, caller, admin, burst>>
      PROVE  IInv'
    <2>1. /\ task' \in [Tasks -> TaskStates] /\ task'[t].pc # "write"
          /\ \A u \in Tasks : u # t => task'[u] = task[u]
        BY <1>0, <1>1, OneTask
    <2> QED BY <1>1, <2>1 DEF IInv, CountTypeOK, Lock, Refills, Spent, TaskStates
<1>2. flag \in BOOLEAN
    BY <1>0 DEF CountTypeOK
<1>3. CASE Star(t)
    BY <1>1, <1>3 DEF Star
<1>4. CASE LoopTest(t)
    <2>1. TaskAt(IF flag THEN "sleep" ELSE "free") \in TaskStates
          /\ TaskAt(IF flag THEN "sleep" ELSE "free").pc # "write"
        OBVIOUS
    <2> QED BY <1>1, <1>2, <1>4, <2>1 DEF LoopTest
<1>5. CASE Wake(t)
    BY <1>1, <1>2, <1>5 DEF Wake
<1>6. CASE RefillRead(t)
    <2> DEFINE s == [pc |-> "write", new |-> tokens + Speed]
    <2>1. s \in TaskStates /\ s.new >= 1
        BY <1>0 DEF TaskStates
    <2>2. task' = [task EXCEPT ![t] = s]
        BY <1>6 DEF RefillRead
    <2> HIDE DEF s
    <2>3. /\ task' \in [Tasks -> TaskStates] /\ task'[t].new >= 1
          /\ \A u \in Tasks : u # t => task'[u] = task[u]
        BY <1>0, <2>1, <2>2, OneTask
    <2> QED BY <1>6, <2>3 DEF RefillRead, IInv, CountTypeOK, Lock, Refills, Spent, TaskStates
<1>7. CASE RefillWrite(t)
    <2>1. task' = [task EXCEPT ![t] = TaskAt("test")]
        BY <1>7 DEF RefillWrite
    <2>2. /\ task' \in [Tasks -> TaskStates] /\ task'[t].pc = "test"
          /\ \A u \in Tasks : u # t => task'[u] = task[u]
        BY <1>0, <2>1, OneTask
    <2>3. task[t].new \in 0..(Limit + Speed) /\ task[t].new >= 1
        BY <1>0, <1>7 DEF RefillWrite, IInv, Refills, TaskStates
    <2>4. tokens' \in 0..Limit /\ tokens' >= 1 /\ burst' = 0
        BY <1>7, <2>3 DEF RefillWrite
    <2>5. \A c \in Callers : caller[c].got \in 0..Limit
        BY <1>0 DEF CountTypeOK
    <2>6. Spent'
        BY <1>7, <2>4, <2>5 DEF RefillWrite, Spent
    <2>7. Lock'
        BY <1>7, <2>4 DEF RefillWrite, IInv, Lock
    <2> QED BY <1>7, <2>2, <2>4, <2>6, <2>7 DEF RefillWrite, IInv, CountTypeOK, Refills, TaskStates
<1> QED BY <1>3, <1>4, <1>5, <1>6, <1>7 DEF TaskStep

LEMMA Inductive == IInv /\ [Next]_vars => IInv'
<1> SUFFICES ASSUME IInv, [Next]_vars PROVE IInv'
    OBVIOUS
<1>1. CASE UNCHANGED vars
    BY <1>1 DEF vars, IInv, CountTypeOK, Lock, Refills, Spent
<1> QED BY <1>1, RequestInv, SaveInv, TaskInv DEF Next

-----------------------------------------------------------------------------
\* The count stays between zero and the limit, however refills, requests and
\* saves interleave and however many of each there are.
THEOREM CountInBounds == Spec => []CountTypeOK
<1>1. IInv => CountTypeOK
    BY DEF IInv
<1> QED BY <1>1, InitInv, Inductive, PTL DEF Spec

\* Between two refills no more requests are granted than the bucket holds.
THEOREM BurstBounded == Spec => []BurstAtMostLimit
<1>1. IInv => BurstAtMostLimit
    BY RateLimiterAssumption DEF IInv, Spent, CountTypeOK, BurstAtMostLimit
<1> QED BY <1>1, InitInv, Inductive, PTL DEF Spec

-----------------------------------------------------------------------------
(***************************************************************************)
(* The log sockets.  What a page has been sent and what its task has read  *)
(* but not sent are one sequence of lines.                                 *)
(***************************************************************************)
Lines == [day : Nat, n : Nat]
Readers == [offset : Nat, first : BOOLEAN, lines : Seq(Lines)]
SocketPcs == {"none", "queued", "test", "work", "send", "sleep", "done"}

SocketTypeInv ==
    /\ sessionMap \subseteq Sockets
    /\ pool \in [queue : Seq(Sockets), task : [Sockets -> SocketPcs]]
    /\ reader \in [Loggers -> Readers]
    /\ file \in [day : Nat, length : Nat]
    /\ shown \in [Loggers -> Seq(Lines)]

\* The queue holds each task that waits, once.
QueueInv ==
    \A i \in 1 .. Len(pool.queue) :
        /\ pool.task[pool.queue[i]] = "queued"
        /\ \A j \in 1 .. Len(pool.queue) : pool.queue[i] = pool.queue[j] => i = j

Earlier(x, y) == x.day < y.day \/ (x.day = y.day /\ x.n < y.n)
Ordered(w) == \A k \in 1 .. (Len(w) - 1) : Earlier(w[k], w[k + 1])
Gaps(w) == {k \in 1 .. (Len(w) - 1) : w[k].day = w[k + 1].day /\ w[k].n + 1 # w[k + 1].n}

ReadInv(s) ==
    LET w == shown[s] \o reader[s].lines IN
    /\ Ordered(w)
    /\ \A i, j \in Gaps(w) : i = j
    /\ reader[s].first => Gaps(w) = {}
    /\ reader[s].lines # <<>> => pool.task[s] = "send"
    /\ s \notin sessionMap => reader[s].offset = 0
    /\ pool.task[s] = "none" => s \notin sessionMap /\ w = <<>>
    /\ s \in sessionMap /\ w # <<>> =>
          /\ w[Len(w)].day <= file.day
          /\ w[Len(w)].day = file.day => w[Len(w)].n = reader[s].offset

SocketInv == SocketTypeInv /\ QueueInv /\ \A s \in Loggers : ReadInv(s)

\* Sequences put together.
LEMMA Concat ==
    ASSUME NEW S, NEW p \in Seq(S), NEW q \in Seq(S)
    PROVE  /\ p \o q \in Seq(S) /\ Len(p \o q) = Len(p) + Len(q)
           /\ Len(p) \in Nat /\ Len(q) \in Nat
           /\ \A k \in 1 .. Len(p) : (p \o q)[k] = p[k]
           /\ \A k \in (Len(p) + 1) .. (Len(p) + Len(q)) : (p \o q)[k] = q[k - Len(p)]
           /\ q = <<>> => p \o q = p
OBVIOUS

LEMMA LineFields ==
    ASSUME NEW w \in Seq(Lines), NEW k \in 1 .. Len(w)
    PROVE  w[k].day \in Nat /\ w[k].n \in Nat
<1>1. ASSUME NEW S, NEW s \in Seq(S), NEW i \in 1 .. Len(s) PROVE s[i] \in S
    OBVIOUS
<1>2. w[k] \in Lines
    BY <1>1
<1> QED BY <1>2 DEF Lines

\* What is not sent in the end was read last.
LEMMA Prefix ==
    ASSUME NEW p \in Seq(Lines), NEW q \in Seq(Lines)
    PROVE  /\ Ordered(p \o q) => Ordered(p)
           /\ \A k \in Gaps(p) : k \in Gaps(p \o q)
<1>1. /\ Len(p \o q) = Len(p) + Len(q) /\ Len(p) \in Nat /\ Len(q) \in Nat
      /\ \A k \in 1 .. Len(p) : (p \o q)[k] = p[k]
    BY Concat
<1>2. ASSUME NEW k \in 1 .. (Len(p) - 1)
      PROVE  /\ k \in 1 .. (Len(p \o q) - 1)
             /\ (p \o q)[k] = p[k] /\ (p \o q)[k + 1] = p[k + 1]
    BY <1>1
<1>3. Ordered(p \o q) => Ordered(p)
    BY <1>2 DEF Ordered
<1>4. \A k \in Gaps(p) : k \in Gaps(p \o q)
    BY <1>2 DEF Gaps
<1> QED BY <1>3, <1>4

Message(d, b, m) == [k \in 1 .. m |-> Line(d, b + k)]

\* A message: lines b + 1 .. b + m of day d, after the lines p.
LEMMA Extend ==
    ASSUME NEW p \in Seq(Lines), NEW m \in Nat, NEW d \in Nat, NEW b \in Nat, Ordered(p),
           p # <<>> => /\ p[Len(p)].day <= d
                       /\ p[Len(p)].day = d => p[Len(p)].n <= b
    PROVE  LET q == Message(d, b, m) IN
           /\ q \in Seq(Lines) /\ Ordered(p \o q)
           /\ \A k \in Gaps(p \o q) : k \in Gaps(p) \/ k = Len(p)
           /\ (p # <<>> /\ p[Len(p)].day = d => p[Len(p)].n = b) =>
                 \A k \in Gaps(p \o q) : k \in Gaps(p)
           /\ m > 0 => p \o q # <<>> /\ (p \o q)[Len(p \o q)] = Line(d, b + m)
           /\ m = 0 => p \o q = p
<1> DEFINE q == Message(d, b, m)
           w == p \o q
<1>1. q \in Seq(Lines) /\ Len(q) = m /\ \A k \in 1 .. m : q[k] = Line(d, b + k)
    <2>1. \A k \in 1 .. m : Line(d, b + k) \in Lines
        BY DEF Line, Lines
    <2> QED BY <2>1 DEF Message
<1> HIDE DEF q
<1>2. /\ w \in Seq(Lines) /\ Len(w) = Len(p) + m /\ Len(p) \in Nat
      /\ \A k \in 1 .. Len(p) : w[k] = p[k]
      /\ \A k \in (Len(p) + 1) .. (Len(p) + m) : w[k] = q[k - Len(p)]
      /\ q = <<>> => w = p
    BY <1>1, Concat
<1> HIDE DEF w
<1>3. ASSUME NEW k \in (Len(p) + 1) .. (Len(p) + m)
      PROVE  w[k] = Line(d, b + (k - Len(p)))
    <2>1. k - Len(p) \in 1 .. m
        BY <1>2
    <2>2. w[k] = q[k - Len(p)]
        BY <1>2
    <2> QED BY <1>1, <2>1, <2>2
<1>4. p # <<>> => Len(p) \in 1 .. Len(p)
    BY <1>2
<1>5. p # <<>> => p[Len(p)].day \in Nat /\ p[Len(p)].n \in Nat
    BY <1>4, LineFields
<1>6. ASSUME NEW k \in 1 .. (Len(w) - 1)
      PROVE  /\ Earlier(w[k], w[k + 1])
             /\ k \in Gaps(w) => k \in Gaps(p) \/ k = Len(p)
             /\ (p # <<>> /\ p[Len(p)].day = d => p[Len(p)].n = b) => (k \in Gaps(w) => k \in Gaps(p))
    <2>1. CASE k < Len(p)
        <3>1. k \in 1 .. (Len(p) - 1) /\ k \in 1 .. Len(p) /\ k + 1 \in 1 .. Len(p)
            BY <1>2, <2>1
        <3>2. w[k] = p[k] /\ w[k + 1] = p[k + 1]
            BY <1>2, <3>1
        <3> QED BY <3>1, <3>2 DEF Gaps, Ordered
    <2>2. CASE k = Len(p)
        <3>1. p # <<>> /\ w[k] = p[Len(p)] /\ w[k + 1] = Line(d, b + 1)
            BY <1>2, <1>3, <2>2
        <3>2. w[k + 1].day = d /\ w[k + 1].n = b + 1
            BY <3>1 DEF Line
        <3> QED BY <1>5, <2>2, <3>1, <3>2 DEF Gaps, Earlier
    <2>3. CASE k > Len(p)
        <3>1. k \in (Len(p) + 1) .. (Len(p) + m) /\ k + 1 \in (Len(p) + 1) .. (Len(p) + m)
            BY <1>2, <2>3
        <3>2. w[k] = Line(d, b + (k - Len(p))) /\ w[k + 1] = Line(d, b + ((k + 1) - Len(p)))
            BY <1>3, <3>1
        <3> QED BY <1>2, <2>3, <3>2 DEF Gaps, Earlier, Line
    <2> QED BY <1>2, <2>1, <2>2, <2>3
<1>7. Ordered(w)
    BY <1>6 DEF Ordered
<1>8. Gaps(w) \subseteq 1 .. (Len(w) - 1)
    BY DEF Gaps
<1>9. m > 0 => w # <<>> /\ w[Len(w)] = Line(d, b + m)
    BY <1>2, <1>3
<1>10. m = 0 => w = p
    BY <1>1, <1>2
<1> QED BY <1>1, <1>6, <1>7, <1>8, <1>9, <1>10 DEF q, w

\* A task that is not concerned, or has nothing to send and goes on.
LEMMA Unmoved ==
    ASSUME SocketTypeInv, SocketTypeInv', NEW s \in Loggers, ReadInv(s),
           reader'[s] = reader[s], shown'[s] = shown[s],
           \/ pool'.task[s] = pool.task[s]
           \/ pool.task[s] \notin {"none", "send"} /\ pool'.task[s] # "none",
           s \in sessionMap' <=> s \in sessionMap,
           file'.day = file.day \/ file'.day = file.day + 1
    PROVE  ReadInv(s)'
<1> DEFINE w == shown[s] \o reader[s].lines
<1>1. w \in Seq(Lines) /\ file.day \in Nat /\ w' = w
    <2>1. shown[s] \in Seq(Lines) /\ reader[s].lines \in Seq(Lines) /\ file.day \in Nat
        BY DEF SocketTypeInv, Readers
    <2> QED BY <2>1, Concat
<1>2. w # <<>> => w[Len(w)].day \in Nat
    <2> HIDE DEF w
    <2>1. w # <<>> => Len(w) \in 1 .. Len(w)
        BY <1>1
    <2> QED BY <1>1, <2>1, LineFields
<1>3. /\ Ordered(w)
      /\ \A i, j \in Gaps(w) : i = j
      /\ reader[s].first => Gaps(w) = {}
      /\ reader[s].lines # <<>> => pool.task[s] = "send"
      /\ s \notin sessionMap => reader[s].offset = 0
      /\ pool.task[s] = "none" => s \notin sessionMap /\ w = <<>>
      /\ s \in sessionMap /\ w # <<>> =>
            /\ w[Len(w)].day <= file.day
            /\ w[Len(w)].day = file.day => w[Len(w)].n = reader[s].offset
    BY DEF ReadInv
<1> HIDE DEF w
<1>4. s \in sessionMap /\ w # <<>> =>
            /\ w[Len(w)].day <= file'.day
            /\ w[Len(w)].day = file'.day => w[Len(w)].n = reader[s].offset
    BY <1>1, <1>2, <1>3
<1>5. LET v == shown'[s] \o reader'[s].lines IN
      /\ Ordered(v)
      /\ \A i, j \in Gaps(v) : i = j
      /\ reader'[s].first => Gaps(v) = {}
      /\ reader'[s].lines # <<>> => pool'.task[s] = "send"
      /\ s \notin sessionMap' => reader'[s].offset = 0
      /\ pool'.task[s] = "none" => s \notin sessionMap' /\ v = <<>>
      /\ s \in sessionMap' /\ v # <<>> =>
            /\ v[Len(v)].day <= file'.day
            /\ v[Len(v)].day = file'.day => v[Len(v)].n = reader'[s].offset
    BY <1>3, <1>4 DEF w
<1> QED BY <1>5 DEF ReadInv, Ordered, Gaps

\* What a step of a task changes in the executor.
LEMMA Pooled ==
    ASSUME SocketTypeInv, QueueInv, NEW s \in Sockets, NEW pc \in SocketPcs,
           pool.task[s] # "queued", Goto(s, pc)
    PROVE  /\ pool' \in [queue : Seq(Sockets), task : [Sockets -> SocketPcs]]
           /\ QueueInv'
           /\ pool'.task[s] = pc /\ \A x \in Sockets : x # s => pool'.task[x] = pool.task[x]
<1>1. /\ pool' \in [queue : Seq(Sockets), task : [Sockets -> SocketPcs]]
      /\ pool'.queue = pool.queue
      /\ pool'.task[s] = pc /\ \A x \in Sockets : x # s => pool'.task[x] = pool.task[x]
    BY DEF Goto, SocketTypeInv
<1>2. \A i \in 1 .. Len(pool.queue) : pool.queue[i] \in Sockets
    BY DEF SocketTypeInv
<1>3. QueueInv'
    BY <1>1, <1>2 DEF QueueInv
<1> QED BY <1>1, <1>3

LEMMA InitSocketInv == SocketInit => SocketInv
<1> SUFFICES ASSUME SocketInit PROVE SocketInv
    OBVIOUS
<1> DEFINE none == <<>>
<1>1. none \in Seq(Lines) /\ none \in Seq(Sockets) /\ Len(none) = 0 /\ none \o none = none
    OBVIOUS
<1> HIDE DEF none
<1>2. /\ sessionMap = {} /\ pool = [queue |-> none, task |-> [s \in Sockets |-> "none"]]
      /\ reader = [s \in Loggers |-> [offset |-> 0, first |-> TRUE, lines |-> none]]
      /\ file = [day |-> 1, length |-> 0] /\ shown = [s \in Loggers |-> none]
    BY DEF SocketInit, none
<1>3. SocketTypeInv
    BY <1>1, <1>2 DEF SocketTypeInv, SocketPcs, Readers
<1>4. QueueInv
    BY <1>1, <1>2 DEF QueueInv
<1>5. ASSUME NEW s \in Loggers PROVE ReadInv(s)
    <2>1. shown[s] \o reader[s].lines = none /\ reader[s].lines = none
        BY <1>1, <1>2
    <2>2. Ordered(none) /\ Gaps(none) = {}
        BY <1>1 DEF Ordered, Gaps
    <2> QED BY <1>2, <2>1, <2>2 DEF ReadInv, none
<1> QED BY <1>3, <1>4, <1>5 DEF SocketInv

\* log.error writes a line of the same day.
LEMMA LoggedFacts ==
    ASSUME SocketTypeInv
    PROVE  Logged \in [day : Nat, length : Nat] /\ Logged.day = file.day
<1> DEFINE more == IF file.length = MaxLines THEN file.length ELSE file.length + 1
<1>1. file \in [day : Nat, length : Nat]
    BY DEF SocketTypeInv
<1>2. more \in Nat
    BY <1>1
<1> HIDE DEF more
<1>3. Logged = [file EXCEPT !.length = more]
    BY DEF Logged, more
<1> QED BY <1>1, <1>2, <1>3

\* Steps that touch no line and no offset.
LEMMA QuietSteps ==
    ASSUME SocketInv, NEW s \in Sockets,
           \/ WriteLine \/ Midnight
           \/ TestOpen(s) \/ ReadFails(s) \/ SendMonitor(s) \/ WakeSocket(s)
    PROVE  SocketInv'
<1>0. SocketTypeInv /\ QueueInv /\ \A x \in Loggers : ReadInv(x)
    BY DEF SocketInv
<1>1. /\ UNCHANGED <<sessionMap, reader, shown>>
      /\ file' \in [day : Nat, length : Nat]
      /\ file'.day = file.day \/ file'.day = file.day + 1
    <2>1. file \in [day : Nat, length : Nat]
        BY <1>0 DEF SocketTypeInv
    <2> QED BY <1>0, <2>1, LoggedFacts
            DEF WriteLine, Midnight, TestOpen, ReadFails, SendMonitor, WakeSocket
<1>2. CASE WriteLine \/ Midnight
    <2>1. pool' = pool
        BY <1>2 DEF WriteLine, Midnight
    <2>2. SocketTypeInv' /\ QueueInv'
        BY <1>0, <1>1, <2>1 DEF SocketTypeInv, QueueInv
    <2> QED BY <1>0, <1>1, <2>1, <2>2, Unmoved DEF SocketInv
<1>3. CASE TestOpen(s) \/ ReadFails(s) \/ SendMonitor(s) \/ WakeSocket(s)
    <2>1. pool.task[s] \in {"test", "work", "sleep"}
          /\ \E pc \in {"work", "done", "test", "sleep"} : Goto(s, pc)
        BY <1>3 DEF TestOpen, ReadFails, SendMonitor, WakeSocket
    <2>2. PICK pc \in {"work", "done", "test", "sleep"} : Goto(s, pc)
        BY <2>1
    <2>3. /\ pool' \in [queue : Seq(Sockets), task : [Sockets -> SocketPcs]] /\ QueueInv'
          /\ pool'.task[s] = pc /\ \A x \in Sockets : x # s => pool'.task[x] = pool.task[x]
        BY <1>0, <2>1, <2>2, Pooled DEF SocketPcs
    <2>4. SocketTypeInv'
        BY <1>0, <1>1, <2>3 DEF SocketTypeInv
    <2>5. ASSUME NEW x \in Loggers PROVE ReadInv(x)'
        <3>1. \/ pool'.task[x] = pool.task[x]
              \/ pool.task[x] \notin {"none", "send"} /\ pool'.task[x] # "none"
            BY <2>1, <2>3 DEF Sockets
        <3> QED BY <1>0, <1>1, <2>4, <3>1, Unmoved
    <2> QED BY <2>3, <2>4, <2>5 DEF SocketInv
<1> QED BY <1>2, <1>3

LEMMA OpenInv ==
    ASSUME SocketInv, NEW s \in Sockets, onOpen(s)
    PROVE  SocketInv'
<1>0. SocketTypeInv /\ QueueInv /\ \A x \in Loggers : ReadInv(x)
    BY DEF SocketInv
<1>1. /\ pool.task[s] = "none" /\ sessionMap' = sessionMap \union {s}
      /\ pool' = [queue |-> Append(pool.queue, s), task |-> [pool.task EXCEPT ![s] = "queued"]]
      /\ reader' = IF s \in Loggers THEN [reader EXCEPT ![s].offset = 1] ELSE reader
      /\ UNCHANGED <<file, shown>>
    BY DEF onOpen
<1> DEFINE q == pool.queue
           t == pool.task
<1>2. q \in Seq(Sockets) /\ t \in [Sockets -> SocketPcs] /\ Len(q) \in Nat
    BY <1>0 DEF SocketTypeInv
<1>3. pool'.queue = Append(q, s) /\ pool'.task = [t EXCEPT ![s] = "queued"]
    BY <1>1
<1>4. /\ \A i \in 1 .. Len(q) : t[q[i]] = "queued"
      /\ \A i, j \in 1 .. Len(q) : q[i] = q[j] => i = j
      /\ t[s] = "none"
    BY <1>0, <1>1 DEF QueueInv
<1>5. SocketTypeInv'
    <2>1. reader' \in [Loggers -> Readers]
        <3>1. ASSUME NEW x \in Loggers PROVE [reader[x] EXCEPT !.offset = 1] \in Readers
            BY <1>0 DEF SocketTypeInv, Readers
        <3> QED BY <1>0, <1>1, <3>1 DEF SocketTypeInv
    <2>2. pool' \in [queue : Seq(Sockets), task : [Sockets -> SocketPcs]]
        BY <1>1, <1>2 DEF SocketPcs
    <2> QED BY <1>0, <1>1, <2>1, <2>2 DEF SocketTypeInv
<1> HIDE DEF q, t
<1>6. QueueInv'
    <2> DEFINE p == Append(q, s)
    <2>1. Len(p) = Len(q) + 1 /\ p[Len(q) + 1] = s /\ \A i \in 1 .. Len(q) : p[i] = q[i]
        BY <1>2
    <2> HIDE DEF p
    <2>2. ASSUME NEW i \in 1 .. Len(p)
          PROVE  /\ [t EXCEPT ![s] = "queued"][p[i]] = "queued"
                 /\ \A j \in 1 .. Len(p) : p[i] = p[j] => i = j
        <3>1. ASSUME NEW j \in 1 .. Len(p), p[j] = s PROVE j = Len(q) + 1
            BY <1>2, <1>4, <2>1, <3>1
        <3>2. ASSUME NEW j \in 1 .. Len(p) PROVE j \in 1 .. Len(q) \/ j = Len(q) + 1
            BY <1>2, <2>1
        <3>3. CASE p[i] = s
            BY <1>2, <3>1, <3>3
        <3>4. CASE p[i] # s
            <4>1. i \in 1 .. Len(q) /\ p[i] = q[i]
                BY <2>1, <3>2, <3>4
            <4>2. q[i] \in Sockets
                BY <1>2, <4>1
            <4> QED BY <1>2, <1>4, <2>1, <3>2, <3>4, <4>1, <4>2
        <3> QED BY <3>3, <3>4
    <2> QED BY <1>3, <2>2 DEF QueueInv, p
<1>7. ASSUME NEW x \in Loggers PROVE ReadInv(x)'
    <2>1. CASE x # s
        <3>1. reader'[x] = reader[x] /\ pool'.task[x] = pool.task[x] /\ (x \in sessionMap' <=> x \in sessionMap)
            BY <1>0, <1>1, <1>2, <1>3, <2>1 DEF SocketTypeInv, Sockets, t
        <3> QED BY <1>0, <1>1, <1>5, <3>1, Unmoved
    <2>2. CASE x = s
        <3>1. /\ reader'[x].lines = reader[x].lines /\ shown' = shown
              /\ reader'[x].first = reader[x].first
              /\ x \in sessionMap' /\ pool'.task[x] = "queued"
            BY <1>0, <1>1, <1>2, <1>3, <2>2 DEF SocketTypeInv, Readers
        <3>2. shown[x] \o reader[x].lines = <<>> /\ reader[x].lines = <<>>
            BY <1>0, <1>1, <2>2 DEF ReadInv
        <3> QED BY <1>0, <3>1, <3>2 DEF ReadInv, Ordered, Gaps
    <2> QED BY <2>1, <2>2
<1> QED BY <1>5, <1>6, <1>7 DEF SocketInv

\* ReadInv after a step, by the lines w of the page then.
LEMMA ReadAfter ==
    ASSUME NEW s \in Loggers, NEW w, w = shown'[s] \o reader'[s].lines,
           Ordered(w), \A i, j \in Gaps(w) : i = j, reader'[s].first => Gaps(w) = {},
           reader'[s].lines # <<>> => pool'.task[s] = "send",
           s \notin sessionMap' => reader'[s].offset = 0,
           pool'.task[s] # "none",
           s \in sessionMap' /\ w # <<>> =>
                /\ w[Len(w)].day <= file'.day
                /\ w[Len(w)].day = file'.day => w[Len(w)].n = reader'[s].offset
    PROVE  ReadInv(s)'
BY DEF ReadInv, Ordered, Gaps

LEMMA CloseInv ==
    ASSUME SocketInv, NEW s \in Sockets, onClose(s)
    PROVE  SocketInv'
<1>0. SocketTypeInv /\ QueueInv /\ \A x \in Loggers : ReadInv(x)
    BY DEF SocketInv
<1>1. /\ s \in sessionMap /\ sessionMap' = sessionMap \ {s}
      /\ reader' = IF s \in Loggers THEN [reader EXCEPT ![s].offset = 0] ELSE reader
      /\ UNCHANGED <<pool, file, shown>>
    BY DEF onClose
<1>2. SocketTypeInv' /\ QueueInv'
    <2>1. ASSUME NEW x \in Loggers PROVE [reader[x] EXCEPT !.offset = 0] \in Readers
        BY <1>0 DEF SocketTypeInv, Readers
    <2> QED BY <1>0, <1>1, <2>1 DEF SocketTypeInv, QueueInv
<1>3. ASSUME NEW x \in Loggers PROVE ReadInv(x)'
    <2>1. CASE x # s
        BY <1>0, <1>1, <1>2, <2>1, Unmoved DEF SocketTypeInv
    <2>2. CASE x = s
        <3>1. /\ reader'[x].lines = reader[x].lines /\ reader'[x].first = reader[x].first
              /\ reader'[x].offset = 0 /\ x \notin sessionMap'
            BY <1>0, <1>1, <2>2 DEF SocketTypeInv, Readers
        <3> DEFINE w == shown[x] \o reader[x].lines
        <3>2. /\ Ordered(w) /\ \A i, j \in Gaps(w) : i = j
              /\ reader[x].first => Gaps(w) = {}
              /\ reader[x].lines # <<>> => pool.task[x] = "send"
              /\ pool.task[x] # "none"
            BY <1>0, <1>1, <2>2 DEF ReadInv
        <3>3. w = shown'[x] \o reader'[x].lines
            BY <1>1, <3>1
        <3> HIDE DEF w
        <3> QED BY <1>1, <3>1, <3>2, <3>3, ReadAfter
    <2> QED BY <2>1, <2>2
<1> QED BY <1>2, <1>3 DEF SocketInv

LEMMA TakeInv ==
    ASSUME SocketInv, TakeThread
    PROVE  SocketInv'
<1>0. SocketTypeInv /\ QueueInv /\ \A x \in Loggers : ReadInv(x)
    BY DEF SocketInv
<1> DEFINE q == pool.queue
           t == pool.task
           h == Head(q)
<1>1. /\ q # <<>> /\ pool' = [queue |-> Tail(q), task |-> [t EXCEPT ![h] = "test"]]
      /\ UNCHANGED <<sessionMap, reader, file, shown>>
    BY DEF TakeThread
<1>2. /\ q \in Seq(Sockets) /\ t \in [Sockets -> SocketPcs] /\ Len(q) \in Nat \ {0}
      /\ 1 \in 1 .. Len(q) /\ h = q[1] /\ h \in Sockets
      /\ Tail(q) \in Seq(Sockets) /\ Len(Tail(q)) = Len(q) - 1
      /\ \A i \in 1 .. (Len(q) - 1) : Tail(q)[i] = q[i + 1]
    BY <1>0, <1>1 DEF SocketTypeInv
<1>3. pool'.queue = Tail(q) /\ pool'.task = [t EXCEPT ![h] = "test"]
    BY <1>1
<1>4. /\ \A i \in 1 .. Len(q) : t[q[i]] = "queued" /\ q[i] \in Sockets
      /\ \A i, j \in 1 .. Len(q) : q[i] = q[j] => i = j
    BY <1>0, <1>2 DEF QueueInv
<1>5. SocketTypeInv'
    <2>1. pool' \in [queue : Seq(Sockets), task : [Sockets -> SocketPcs]]
        BY <1>1, <1>2 DEF SocketPcs
    <2> QED BY <1>0, <1>1, <2>1 DEF SocketTypeInv
<1> HIDE DEF q, t, h
<1>6. QueueInv'
    <2> DEFINE p == Tail(q)
    <2>1. Len(p) = Len(q) - 1 /\ \A i \in 1 .. (Len(q) - 1) : p[i] = q[i + 1]
        BY <1>2
    <2> HIDE DEF p
    <2>2. ASSUME NEW i \in 1 .. Len(p)
          PROVE  /\ [t EXCEPT ![h] = "test"][p[i]] = "queued"
                 /\ \A j \in 1 .. Len(p) : p[i] = p[j] => i = j
        <3>1. i + 1 \in 1 .. Len(q) /\ p[i] = q[i + 1] /\ i + 1 # 1
            BY <1>2, <2>1
        <3>2. p[i] # h /\ p[i] \in Sockets /\ t[p[i]] = "queued"
            BY <1>2, <1>4, <3>1
        <3>3. ASSUME NEW j \in 1 .. Len(p), p[i] = p[j] PROVE i = j
            <4>1. j + 1 \in 1 .. Len(q) /\ p[j] = q[j + 1]
                BY <1>2, <2>1
            <4>2. i + 1 = j + 1
                BY <1>4, <3>1, <3>3, <4>1
            <4> QED BY <4>2
        <3> QED BY <1>2, <3>2, <3>3
    <2> QED BY <1>3, <2>2 DEF QueueInv, p
<1>7. ASSUME NEW x \in Loggers PROVE ReadInv(x)'
    <2>1. \/ pool'.task[x] = pool.task[x]
          \/ pool.task[x] = "queued" /\ pool'.task[x] = "test"
        BY <1>2, <1>3, <1>4 DEF Sockets, t
    <2> QED BY <1>0, <1>1, <1>5, <2>1, Unmoved
<1> QED BY <1>5, <1>6, <1>7 DEF SocketInv

LEMMA ReadLogInv ==
    ASSUME SocketInv, NEW s \in Loggers, ReadLog(s)
    PROVE  SocketInv'
<1>0. /\ SocketTypeInv /\ QueueInv /\ \A x \in Loggers : ReadInv(x)
      /\ s \in Sockets /\ MaxSent \in Nat \ {0}
    BY SocketAssumption DEF SocketInv, Sockets
<1> DEFINE n == file.length
           d == file.day
           old == reader[s].offset
           count == n - old
           cut == reader[s].first /\ count > MaxSent
           sent == IF cut THEN MaxSent ELSE count
           b == n - sent
           q == [k \in 1 .. sent |-> Line(d, b + k)]
           new == [offset |-> n, first |-> reader[s].first /\ ~cut, lines |-> q]
           w == shown[s]
<1>1. /\ pool.task[s] = "work" /\ old \in 1 .. n /\ Goto(s, "send")
      /\ UNCHANGED <<sessionMap, file, shown>>
    BY DEF ReadLog
<1>2. reader' = [reader EXCEPT ![s] = new]
    BY DEF ReadLog
<1>3. /\ n \in Nat /\ d \in Nat /\ old \in Nat \ {0} /\ old <= n /\ reader[s].first \in BOOLEAN
      /\ w \in Seq(Lines)
    BY <1>0, <1>1 DEF SocketTypeInv, Readers
<1>4. /\ sent \in Nat /\ b \in Nat /\ b >= old /\ b + sent = n
      /\ ~cut => b = old
      /\ sent = 0 => n = old
    BY <1>0, <1>3
\* Until now nothing was waiting to be sent.
<1>5. /\ Ordered(w) /\ (\A i, j \in Gaps(w) : i = j) /\ (reader[s].first => Gaps(w) = {})
      /\ s \in sessionMap
      /\ w # <<>> => w[Len(w)].day <= d /\ (w[Len(w)].day = d => w[Len(w)].n = old)
    <2>1. ReadInv(s) /\ reader[s].lines = <<>> /\ s \in sessionMap
        BY <1>0, <1>1, <1>3 DEF ReadInv
    <2>2. w \o reader[s].lines = w
        BY <1>3, <2>1
    <2> QED BY <2>1, <2>2 DEF ReadInv
<1> HIDE DEF n, d, old, count, cut, sent, b, w
<1>6. /\ q \in Seq(Lines) /\ Ordered(w \o q)
      /\ \A k \in Gaps(w \o q) : k \in Gaps(w) \/ k = Len(w)
      /\ (w # <<>> /\ w[Len(w)].day = d => w[Len(w)].n = b) =>
            \A k \in Gaps(w \o q) : k \in Gaps(w)
      /\ sent > 0 => w \o q # <<>> /\ (w \o q)[Len(w \o q)] = Line(d, n)
      /\ sent = 0 => w \o q = w
    <2>1. w # <<>> => w[Len(w)].day <= d /\ (w[Len(w)].day = d => w[Len(w)].n <= b)
        BY <1>3, <1>4, <1>5
    <2>2. /\ w \in Seq(Lines) /\ sent \in Nat /\ d \in Nat /\ b \in Nat /\ Ordered(w)
        BY <1>3, <1>4, <1>5
    <2>3. LET m == Message(d, b, sent) IN
          /\ m \in Seq(Lines) /\ Ordered(w \o m)
          /\ \A k \in Gaps(w \o m) : k \in Gaps(w) \/ k = Len(w)
          /\ (w # <<>> /\ w[Len(w)].day = d => w[Len(w)].n = b) =>
                \A k \in Gaps(w \o m) : k \in Gaps(w)
          /\ sent > 0 => w \o m # <<>> /\ (w \o m)[Len(w \o m)] = Line(d, b + sent)
          /\ sent = 0 => w \o m = w
        BY <2>1, <2>2, Extend
    <2>4. q = Message(d, b, sent)
        BY DEF Message
    <2> HIDE DEF q
    <2> QED BY <1>4, <2>3, <2>4
<1> HIDE DEF q
<1>7. new \in Readers
    BY <1>3, <1>6 DEF Readers
<1>8. /\ pool' \in [queue : Seq(Sockets), task : [Sockets -> SocketPcs]]
      /\ QueueInv'
      /\ pool'.task[s] = "send" /\ \A x \in Sockets : x # s => pool'.task[x] = pool.task[x]
    <2>1. "send" \in SocketPcs
        BY DEF SocketPcs
    <2> QED BY <1>0, <1>1, <2>1, Pooled
<1>9. SocketTypeInv'
    BY <1>0, <1>1, <1>2, <1>7, <1>8 DEF SocketTypeInv
<1>10. ASSUME NEW x \in Loggers, x # s PROVE ReadInv(x)'
    BY <1>0, <1>1, <1>2, <1>8, <1>9, <1>10, Unmoved DEF SocketTypeInv, Sockets
<1>11. ReadInv(s)'
    <2> DEFINE v == w \o q
    <2>1. /\ reader'[s].lines = q /\ reader'[s].offset = n
          /\ reader'[s].first = (reader[s].first /\ ~cut)
        BY <1>0, <1>2 DEF SocketTypeInv
    <2>2. v = shown'[s] \o reader'[s].lines
        BY <1>1, <2>1 DEF w
    <2>3. /\ \A i, j \in Gaps(v) : i = j
          /\ reader'[s].first => Gaps(v) = {}
        <3>1. CASE cut
            <4>1. Gaps(w) = {} /\ ~reader'[s].first
                BY <1>5, <2>1, <3>1 DEF cut
            <4> QED BY <1>6, <4>1
        <3>2. CASE ~cut
            <4>1. \A k \in Gaps(v) : k \in Gaps(w)
                BY <1>4, <1>5, <1>6, <3>2
            <4> QED BY <1>5, <2>1, <4>1
        <3> QED BY <3>1, <3>2
    <2>4. v # <<>> => /\ v[Len(v)].day <= file'.day
                      /\ v[Len(v)].day = file'.day => v[Len(v)].n = n
        <3>1. file'.day = d
            BY <1>1 DEF d
        <3>2. CASE sent > 0
            BY <1>3, <1>6, <3>1, <3>2 DEF Line
        <3>3. CASE sent = 0
            BY <1>4, <1>5, <1>6, <3>1, <3>3
        <3> QED BY <1>4, <3>2, <3>3
    <2>5. Ordered(v)
        BY <1>6
    <2> HIDE DEF v
    <2> QED BY <1>1, <1>5, <1>8, <2>1, <2>2, <2>3, <2>4, <2>5, ReadAfter
<1> QED BY <1>8, <1>9, <1>10, <1>11 DEF SocketInv

LEMMA SendInv ==
    ASSUME SocketInv, NEW s \in Loggers, Send(s)
    PROVE  SocketInv'
<1>0. /\ SocketTypeInv /\ QueueInv /\ \A x \in Loggers : ReadInv(x)
      /\ s \in Sockets
    BY DEF SocketInv, Sockets
<1> DEFINE p == shown[s]
           q == reader[s].lines
           none == <<>>
<1>1. /\ pool.task[s] = "send" /\ Goto(s, "sleep")
      /\ shown' = IF s \in sessionMap THEN [shown EXCEPT ![s] = p \o q] ELSE shown
      /\ file' = IF s \in sessionMap THEN file ELSE Logged
      /\ reader' = [reader EXCEPT ![s].lines = none]
      /\ sessionMap' = sessionMap
    BY DEF Send
<1>2. /\ p \in Seq(Lines) /\ q \in Seq(Lines) /\ none \in Seq(Lines) /\ p \o q \in Seq(Lines)
      /\ (p \o q) \o none = p \o q /\ p \o none = p
    BY <1>0, Concat DEF SocketTypeInv, Readers
<1> DEFINE w == p \o q
<1>3. /\ Ordered(w) /\ (\A i, j \in Gaps(w) : i = j) /\ (reader[s].first => Gaps(w) = {})
      /\ s \notin sessionMap => reader[s].offset = 0
      /\ s \in sessionMap /\ w # <<>> =>
            w[Len(w)].day <= file.day /\ (w[Len(w)].day = file.day => w[Len(w)].n = reader[s].offset)
    BY <1>0 DEF ReadInv
<1> HIDE DEF none
<1>4. /\ pool' \in [queue : Seq(Sockets), task : [Sockets -> SocketPcs]]
      /\ QueueInv'
      /\ pool'.task[s] = "sleep" /\ \A x \in Sockets : x # s => pool'.task[x] = pool.task[x]
    <2>1. "sleep" \in SocketPcs
        BY DEF SocketPcs
    <2> QED BY <1>0, <1>1, <2>1, Pooled
<1>5. file' \in [day : Nat, length : Nat] /\ file'.day = file.day
    BY <1>0, <1>1, LoggedFacts DEF SocketTypeInv
<1>6. /\ reader'[s].lines = none /\ reader'[s].offset = reader[s].offset
      /\ reader'[s].first = reader[s].first /\ reader' \in [Loggers -> Readers]
      /\ \A x \in Loggers : x # s => reader'[x] = reader[x]
    <2>1. [reader[s] EXCEPT !.lines = none] \in Readers
        BY <1>0, <1>2 DEF SocketTypeInv, Readers
    <2> QED BY <1>0, <1>1, <2>1 DEF SocketTypeInv, Readers
<1>7. SocketTypeInv'
    BY <1>0, <1>1, <1>2, <1>4, <1>5, <1>6 DEF SocketTypeInv
<1>8. ASSUME NEW x \in Loggers, x # s PROVE ReadInv(x)'
    <2>1. shown'[x] = shown[x] /\ pool'.task[x] = pool.task[x]
        BY <1>0, <1>1, <1>4, <1>8 DEF SocketTypeInv, Sockets
    <2> QED BY <1>0, <1>1, <1>5, <1>6, <1>7, <1>8, <2>1, Unmoved
<1>9. ReadInv(s)'
    <2>1. CASE s \in sessionMap
        <3>1. w = shown'[s] \o reader'[s].lines
            BY <1>0, <1>1, <1>2, <1>6, <2>1 DEF SocketTypeInv
        <3> HIDE DEF w
        <3> QED BY <1>1, <1>3, <1>4, <1>5, <1>6, <2>1, <3>1, ReadAfter DEF none
    <2>2. CASE s \notin sessionMap
        <3>1. p = shown'[s] \o reader'[s].lines
            BY <1>1, <1>2, <1>6, <2>2
        <3>2. Ordered(p) /\ \A k \in Gaps(p) : k \in Gaps(w)
            BY <1>2, <1>3, Prefix
        <3>3. (\A i, j \in Gaps(p) : i = j) /\ (reader[s].first => Gaps(p) = {})
            BY <1>3, <3>2
        <3> HIDE DEF p
        <3> QED BY <1>1, <1>3, <1>4, <1>6, <2>2, <3>1, <3>2, <3>3, ReadAfter DEF none
    <2> QED BY <2>1, <2>2
<1> QED BY <1>4, <1>7, <1>8, <1>9 DEF SocketInv

LEMMA SocketStep == SocketInv /\ [SocketNext]_socketVars => SocketInv'
<1> SUFFICES ASSUME SocketInv, [SocketNext]_socketVars PROVE SocketInv'
    OBVIOUS
<1>1. CASE UNCHANGED socketVars
    <2>1. UNCHANGED <<sessionMap, pool, reader, file, shown>>
        BY <1>1 DEF socketVars
    <2>2. SocketTypeInv' /\ QueueInv'
        BY <2>1 DEF SocketInv, SocketTypeInv, QueueInv
    <2> QED BY <2>1, <2>2, Unmoved DEF SocketInv
<1>2. CASE WriteLine \/ Midnight
    <2>1. CASE Sockets # {}
        BY <1>2, <2>1, QuietSteps
    <2>2. CASE Sockets = {}
        <3>1. file' \in [day : Nat, length : Nat] /\ UNCHANGED <<sessionMap, pool, reader, shown>>
            BY <1>2 DEF WriteLine, Midnight, SocketInv, SocketTypeInv
        <3> QED BY <2>2, <3>1 DEF SocketInv, SocketTypeInv, QueueInv, Sockets
    <2> QED BY <2>1, <2>2
<1>3. ASSUME NEW s \in Sockets, onOpen(s) \/ onClose(s) \/ SocketTask(s) PROVE SocketInv'
    BY <1>3, OpenInv, CloseInv, QuietSteps, ReadLogInv, SendInv DEF SocketTask, ReadLog, Send
<1> QED BY <1>1, <1>2, <1>3, TakeInv DEF SocketNext

\* A page gets the lines of the log in their order and none twice, also over
\* midnight and when it closes in the middle of a turn; once in its life a
\* message may leave out lines: LoggingWSServer's offset and `first'.
THEOREM LinesInOrder == SocketSpec => []InOrderWithOneGap
<1>1. SocketInv => InOrderWithOneGap
    <2> SUFFICES ASSUME SocketInv, NEW s \in Loggers
                 PROVE  LET w == shown[s]
                            Follow == {k \in 1..(Len(w) - 1) : w[k].day = w[k + 1].day}
                        IN  /\ \A k \in 1..(Len(w) - 1) : k \notin Follow => w[k].day < w[k + 1].day
                            /\ \A k \in Follow : w[k].n < w[k + 1].n
                            /\ Cardinality({k \in Follow : w[k].n + 1 # w[k + 1].n}) <= 1
        BY DEF InOrderWithOneGap
    <2> DEFINE w == shown[s]
               Follow == {k \in 1..(Len(w) - 1) : w[k].day = w[k + 1].day}
    <2>1. w \in Seq(Lines) /\ reader[s].lines \in Seq(Lines)
        BY DEF SocketInv, SocketTypeInv, Readers
    <2>2. Ordered(w) /\ \A i, j \in Gaps(w) : i = j
        <3>1. /\ Ordered(w \o reader[s].lines)
              /\ \A i, j \in Gaps(w \o reader[s].lines) : i = j
            BY DEF SocketInv, ReadInv
        <3> HIDE DEF w
        <3> QED BY <2>1, <3>1, Prefix
    <2> HIDE DEF w
    <2>3. {k \in Follow : w[k].n + 1 # w[k + 1].n} = Gaps(w)
        BY DEF Gaps
    <2>4. Gaps(w) = {} \/ \E k : Gaps(w) = {k}
        BY <2>2
    <2>5. Cardinality(Gaps(w)) <= 1
        <3>1. CASE Gaps(w) = {}
            BY <3>1, FS_EmptySet
        <3>2. CASE \E k : Gaps(w) = {k}
            <4>1. PICK k : Gaps(w) = {k}
                BY <3>2
            <4>2. Cardinality({k}) = 1
                BY FS_Singleton
            <4> QED BY <4>1, <4>2
        <3> QED BY <2>4, <3>1, <3>2
    <2>6. \A k \in 1 .. (Len(w) - 1) : Earlier(w[k], w[k + 1])
        BY <2>2 DEF Ordered
    <2>7. ASSUME NEW k \in 1 .. (Len(w) - 1)
          PROVE  /\ k \notin Follow => w[k].day < w[k + 1].day
                 /\ k \in Follow => w[k].n < w[k + 1].n
        <3>1. k \in 1 .. Len(w) /\ k + 1 \in 1 .. Len(w)
            BY <2>1
        <3>2. w[k].day \in Nat /\ w[k + 1].day \in Nat
            BY <2>1, <3>1, LineFields
        <3> QED BY <2>6, <3>2 DEF Earlier
    <2>8. /\ \A k \in 1..(Len(w) - 1) : k \notin Follow => w[k].day < w[k + 1].day
          /\ \A k \in Follow : w[k].n < w[k + 1].n
        BY <2>7
    <2>9. Cardinality({k \in Follow : w[k].n + 1 # w[k + 1].n}) <= 1
        BY <2>3, <2>5
    <2> QED BY <2>8, <2>9 DEF w
<1> QED BY <1>1, InitSocketInv, SocketStep, PTL DEF SocketSpec
=============================================================================
