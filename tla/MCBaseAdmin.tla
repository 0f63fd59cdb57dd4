---------------------------- MODULE MCBaseAdmin ----------------------------
(***************************************************************************)
(* Two parts of base-admin for TLC, which share no state: the page of the  *)
(* users with a menu of two levels and one more below it, and the copies   *)
(* of the authority table.                                                 *)
(***************************************************************************)
EXTENDS UserPage, AuthorityCache, TLC

CONSTANTS m1, m2, m3

ParentOf == (m1 :> Root) @@ (m2 :> m1) @@ (m3 :> m2)

(* Sound: the properties name no authority, pattern, save or menu.         *)
Symmetry == Permutations(Authorities) \union Permutations(Patterns) \union Permutations(Savers)

VARIABLE
    part    \* which of the two runs

vars == <<part, pageVars, cacheVars>>

Init ==
    /\ part \in {"page", "cache"} /\ UserPageInit /\ CacheInit
    /\ part = "page" => \A a \in Authorities : rights[a] = {}
    /\ part = "cache" => db.links = {}

Next ==
    \/ part = "page" /\ UserPageNext /\ UNCHANGED <<part, cacheVars>>
    \/ part = "cache" /\ CacheNext /\ UNCHANGED <<part, pageVars>>

Spec == Init /\ [][Next]_vars
=============================================================================
