--------------------------- MODULE AuthorityCache ---------------------------
(***************************************************************************)
(* Which authorities a URL asks for: the table in the database, its copy   *)
(* in memory (requestMap), and the answers kept for each URL               *)
(* (urlAuthorityMap, here one URL that every pattern matches).  A save     *)
(* publishes the new table inside its transaction, which sees the database *)
(* as it was at its first read.                                            *)
(***************************************************************************)
EXTENDS FiniteSets

CONSTANTS
    Authorities, Patterns,
    Savers, Requests    \* the saves and requests that run at a time

VARIABLES
    rights,     \* the patterns of each authority, as committed
    memory,     \* requestMap, and the answer kept for the URL or NoAnswer
    saver,      \* the save each administrator is in
    request     \* the request each visitor is in

cacheVars == <<rights, memory, saver, request>>

NoAnswer == [none |-> TRUE]
Answer(authorities) == [authorities |-> authorities]

Table(of) == [p \in Patterns |-> {a \in Authorities : p \in of[a]}]

(* clean: nothing else touched the database or the memory during the save. *)
(* memory.current: the last save to end was a clean one.                   *)
IdleSaver == [pc |-> "idle"]
IdleRequest == [pc |-> "idle"]

Active(s) == saver[s].pc # "idle"
Publishing(s) == saver[s].pc = "clear" \/ (saver[s].pc = "put" /\ saver[s].left # {})
Seeking(r) == request[r].pc = "seek"

(* Every save under way is no longer alone.                                *)
Disturb(savers) ==
    [s \in Savers |-> IF savers[s].pc = "idle" THEN savers[s] ELSE [savers[s] EXCEPT !.clean = FALSE]]

-----------------------------------------------------------------------------
(* SysAuthorityServiceImpl: save, and delete as a save with no patterns.   *)

(* The first read fixes what the transaction sees.                         *)
begin(s, a, patterns) ==
    /\ ~Active(s)
    /\ LET alone == \A o \in Savers : ~Active(o)
           begun == [saver EXCEPT ![s] = [pc |-> "begun", authority |-> a, clean |-> alone,
                                          view |-> [rights EXCEPT ![a] = patterns], left |-> {}]]
       IN  saver' = IF alone THEN begun ELSE Disturb(begun)
    /\ UNCHANGED <<rights, memory, request>>

(* Listing the table writes the changed row first, and waits for another   *)
(* transaction that has written it.                                        *)
list(s) ==
    /\ saver[s].pc = "begun"
    /\ \A o \in Savers \ {s} :
          Active(o) /\ saver[o].pc # "begun" => saver[o].authority # saver[s].authority
    /\ saver' = [saver EXCEPT ![s].pc = "listed"]
    /\ UNCHANGED <<rights, memory, request>>

(* Mutant: the answers stay.                                               *)
KeepUrlAuthorityMap(s) ==
    /\ saver[s].pc = "listed"
    /\ saver' = [saver EXCEPT ![s].pc = "clear"]
    /\ UNCHANGED <<rights, memory, request>>

(* The listener of the published table.                                    *)
ClearUrlAuthorityMap(s) ==
    /\ saver[s].pc = "listed"
    /\ LET next == [saver EXCEPT ![s].pc = "clear"]
       IN  saver' = IF \E r \in Requests : Seeking(r) THEN Disturb(next) ELSE next
    /\ memory' = [memory EXCEPT !.answer = NoAnswer]
    /\ UNCHANGED <<rights, request>>

ClearRequestMap(s) ==
    /\ saver[s].pc = "clear"
    /\ saver' = [saver EXCEPT ![s].pc = "put",
                     ![s].left = {pair \in Authorities \X Patterns : pair[2] \in saver[s].view[pair[1]]}]
    /\ memory' = [memory EXCEPT !.requestMap = [p \in Patterns |-> {}]]
    /\ UNCHANGED <<rights, request>>

(* One pair of the list, found in the map or new in it.                    *)
PutPair(s, pair) ==
    /\ saver[s].pc = "put" /\ pair \in saver[s].left
    /\ saver' = [saver EXCEPT ![s].left = @ \ {pair}]
    /\ memory' = [memory EXCEPT !.requestMap[pair[2]] = @ \union {pair[1]}]
    /\ UNCHANGED <<rights, request>>

(* The transaction ends after the memory was changed.  If it cannot        *)
(* commit, the memory stays as it is.                                      *)
commit(s) ==
    /\ saver[s].pc = "put" /\ saver[s].left = {}
    /\ rights' = [rights EXCEPT ![saver[s].authority] = saver[s].view[saver[s].authority]]
    /\ memory' = [memory EXCEPT !.current = saver[s].clean]
    /\ saver' = [saver EXCEPT ![s] = IdleSaver]
    /\ UNCHANGED request

rollback(s) ==
    /\ saver[s].pc = "put" /\ saver[s].left = {}
    /\ memory' = [memory EXCEPT !.current = FALSE]
    /\ saver' = [saver EXCEPT ![s] = IdleSaver]
    /\ UNCHANGED <<rights, request>>

-----------------------------------------------------------------------------
(* getAttributes                                                           *)

(* A kept answer is the answer, also if it is empty.  Without one the      *)
(* request goes through the patterns.                                      *)
getAttributes(r) ==
    /\ request[r].pc = "idle" /\ memory.answer = NoAnswer
    /\ request' = [request EXCEPT ![r] = [pc |-> "seek", left |-> Patterns, found |-> {}]]
    /\ saver' = IF \E s \in Savers : Publishing(s) THEN Disturb(saver) ELSE saver
    /\ UNCHANGED <<rights, memory>>

(* The entries come in the order of their hash codes.                      *)
AddEntry(r, p) ==
    /\ Seeking(r) /\ p \in request[r].left
    /\ request' = [request EXCEPT ![r].left = @ \ {p}, ![r].found = @ \union memory.requestMap[p]]
    /\ UNCHANGED <<rights, memory, saver>>

KeepAnswer(r) ==
    /\ Seeking(r) /\ request[r].left = {}
    /\ memory' = [memory EXCEPT !.answer = Answer(request[r].found)]
    /\ request' = [request EXCEPT ![r] = IdleRequest]
    /\ UNCHANGED <<rights, saver>>

-----------------------------------------------------------------------------
CacheInit ==
    /\ rights \in [Authorities -> SUBSET Patterns]
    /\ memory = [requestMap |-> Table(rights), answer |-> NoAnswer, current |-> TRUE]
    /\ saver = [s \in Savers |-> IdleSaver]
    /\ request = [r \in Requests |-> IdleRequest]

CacheNext ==
    \/ \E s \in Savers :
          \/ \E a \in Authorities, patterns \in SUBSET Patterns : begin(s, a, patterns)
          \/ list(s) \/ ClearUrlAuthorityMap(s) \/ ClearRequestMap(s)
          \/ \E pair \in Authorities \X Patterns : PutPair(s, pair)
          \/ commit(s) \/ rollback(s)
    \/ \E r \in Requests :
          getAttributes(r) \/ (\E p \in Patterns : AddEntry(r, p)) \/ KeepAnswer(r)

CacheSpec == CacheInit /\ [][CacheNext]_cacheVars

-----------------------------------------------------------------------------
(* Between saves, the memory and the answer kept are those of the database *)
(* if the last save was alone with it: no other save overlapped it, no     *)
(* request was looking while it cleared the answers or began to look       *)
(* before the new table was complete, and it did not roll back.            *)
SettledCacheIsCurrent ==
    memory.current /\ (\A s \in Savers : ~Active(s)) =>
        /\ memory.requestMap = Table(rights)
        /\ memory.answer # NoAnswer => memory.answer.authorities = {a \in Authorities : rights[a] # {}}
=============================================================================
