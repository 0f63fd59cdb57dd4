------------------------------ MODULE UserPage ------------------------------
(***************************************************************************)
(* The page on which an administrator edits the users and their menus      *)
(* (sys/user/js/user.js), with the services it calls, while others edit    *)
(* the menus and delete users.  The links between users and menus are a    *)
(* set; a deletion is one step, as it is one transaction, and so is each   *)
(* of the two reads that fill the tree.                                    *)
(***************************************************************************)
EXTENDS Integers, FiniteSets

CONSTANTS
    Menus, Users,       \* the ids there may ever be
    parent,             \* the parent of each menu, or Root
    Root, New,          \* no menu; the empty user id of a form for a new user
    FirstUsers, FirstMenus, \* the users and menus there are at the start
    MaxLoads, MaxPosts, \* bounds of the model: calls on their way at a time,
    MaxClicks,          \* buttons the administrator presses,
    MaxChanges          \* changes that others make

ASSUME UserPageAssumption ==
    /\ parent \in [Menus -> Menus \union {Root}] /\ Root \notin Menus
    /\ New \notin Users /\ FirstUsers \subseteq Users /\ FirstMenus \subseteq Menus
    /\ IsFiniteSet(Menus)
    /\ {MaxLoads, MaxPosts, MaxClicks, MaxChanges} \subseteq Nat \ {0}

VARIABLES
    db,     \* the tables: menus, users, links; known: ids that ever were in them
    page    \* the form and the tree, the calls on their way, and what was claimed

pageVars == <<db, page>>

Nobody == [user |-> Root]

LinksOf(user) == {m \in Menus : <<user, m>> \in db.links}

-----------------------------------------------------------------------------
(* Menus in trees.                                                         *)

Ancestors(m) ==
    LET up[k \in 0..Cardinality(Menus)] ==
            IF k = 0 THEN {m} ELSE up[k - 1] \union {parent[a] : a \in up[k - 1] \ {Root}}
    IN  up[Cardinality(Menus)] \ {m, Root}

(* getChildBySysMenuVo starts at the root: a menu is in the tree only with *)
(* all its ancestors.                                                      *)
getChildBySysMenuVo(menus) == {m \in menus : Ancestors(m) \subseteq menus}

Leaves(shown) == {m \in shown : \A c \in shown : parent[c] # m}

(* Mutant: every menu the user has is ticked, and layui ticks all below it.*)
checkedAll(shown, own) ==
    {m \in Leaves(shown) : m \in own \/ Ancestors(m) \intersect own # {}}

(* Only leaves are ticked.                                                 *)
checkedForLayuiTree(shown, own) == Leaves(shown) \intersect own

(* The boxes of a tree that are ticked: some leaves and all above them.    *)
getChecked(ticked) == ticked \union UNION {Ancestors(m) : m \in ticked}

-----------------------------------------------------------------------------
(* The page.                                                               *)

Outstanding == page.loads # {} \/ page.save # Nobody

(* A click on a page that is still waiting for answers leaves it unsure    *)
(* which of them it will show.                                             *)
OpenForm(id) ==
    /\ page.clicks < MaxClicks /\ Cardinality(page.loads) < MaxLoads
    /\ \A load \in page.loads : load.owner # id
    /\ page' = [page EXCEPT !.clicks = @ + 1, !.form = id, !.claim = Nobody,
                            !.unsure = Outstanding \/ (page.posts # {} /\ page.unsure),
                            !.loads = @ \union {[owner |-> id, step |-> "sent", own |-> {}, shown |-> {}]}]
    /\ UNCHANGED db

addData == OpenForm(New)

(* The table may still list users that are gone.                           *)
edit(user) == user \in db.known /\ OpenForm(user)

Tick(m) ==
    /\ m \in Leaves(page.tree.shown)
    /\ page' = [page EXCEPT !.claim = Nobody,
                            !.tree.ticked = IF m \in @ THEN @ \ {m} ELSE @ \union {m}]
    /\ UNCHANGED db

userFormSave ==
    /\ page.clicks < MaxClicks /\ page.save = Nobody
    /\ page' = [page EXCEPT !.clicks = @ + 1,
                            !.save = [user |-> page.form, step |-> "sent", form |-> page.form],
                            !.claim = Nobody,
                            !.unsure = @ \/ page.loads # {} \/ page.posts # {}]
    /\ UNCHANGED db

(* With the user saved, the menus ticked by now are sent.  With nothing    *)
(* ticked the callback ends with an exception.                             *)
userSaved ==
    LET menus == getChecked(page.tree.ticked)
        user == page.save.user
    IN  /\ page.save # Nobody /\ page.save.step = "saved" /\ Cardinality(page.posts) < MaxPosts
        /\ page' = IF menus = {}
                   THEN [page EXCEPT !.save = Nobody]
                   ELSE [page EXCEPT !.save = Nobody,
                            !.posts = @ \union {[user |-> user, menus |-> menus, step |-> "sent", old |-> {}]},
                            !.claim = [user |-> user, menus |-> menus,
                                       form |-> page.save.form, owner |-> page.tree.owner]]
        /\ UNCHANGED db

-----------------------------------------------------------------------------
(* The tree is filled: the menus of the user are read, then all menus, and *)
(* the answers arrive in any order.                                        *)

(* A link without its menu ends the request with an exception, and the     *)
(* page keeps the tree it has.                                             *)
findByUserId(load) ==
    /\ load.step = "sent"
    /\ page' = IF LinksOf(load.owner) \subseteq db.menus
               THEN [page EXCEPT !.loads = (@ \ {load}) \union
                        {[load EXCEPT !.step = "own", !.own = getChildBySysMenuVo(LinksOf(load.owner))]}]
               ELSE [page EXCEPT !.loads = @ \ {load}, !.unsure = TRUE]
    /\ UNCHANGED db

listByTier(load) ==
    /\ load.step = "own"
    /\ page' = [page EXCEPT !.loads = (@ \ {load}) \union
                    {[load EXCEPT !.step = "read", !.shown = getChildBySysMenuVo(db.menus)]}]
    /\ UNCHANGED db

loadMenuTree(load) ==
    /\ load.step = "read"
    /\ page' = [page EXCEPT !.loads = @ \ {load},
                    !.tree = [owner |-> load.owner, shown |-> load.shown,
                              ticked |-> checkedForLayuiTree(load.shown, load.own)]]
    /\ UNCHANGED db

-----------------------------------------------------------------------------
(* The services.                                                           *)

(* A new user gets an id, unless the login name is taken; one that is gone *)
(* cannot be saved again, as the form has no password.                     *)
saveUser ==
    /\ page.save # Nobody /\ page.save.step = "sent"
    /\ \/ page.save.user = New
          /\ \E user \in Users \ db.known :
                /\ db' = [db EXCEPT !.users = @ \union {user}, !.known = @ \union {user}]
                /\ page' = [page EXCEPT !.save.user = user, !.save.step = "saved"]
       \/ page.save.user \in db.users /\ page' = [page EXCEPT !.save.step = "saved"] /\ UNCHANGED db
       \/ page.save.user \notin db.users /\ page' = [page EXCEPT !.save = Nobody] /\ UNCHANGED db

(* Mutant: the old links stay.                                             *)
saveAllKeep(post) ==
    /\ post.step = "read"
    /\ page' = [page EXCEPT !.posts = @ \ {post}]
    /\ db' = IF post.old \subseteq LinksOf(post.user)
             THEN [db EXCEPT !.links = @ \union ({post.user} \X post.menus)] ELSE db

listUserMenus(post) ==
    /\ post.step = "sent"
    /\ page' = [page EXCEPT !.posts = (@ \ {post}) \union {[post EXCEPT !.step = "read", !.old = LinksOf(post.user)]}]
    /\ UNCHANGED db

(* The links read are deleted, the new ones inserted.  A link that another *)
(* transaction has deleted by then rolls this one back, unnoticed by the   *)
(* page; links that another one has inserted stay.                         *)
saveAllByUserId(post) ==
    /\ post.step = "read"
    /\ page' = [page EXCEPT !.posts = @ \ {post}]
    /\ db' = IF post.old \subseteq LinksOf(post.user)
             THEN [db EXCEPT !.links = (@ \ ({post.user} \X post.old)) \union ({post.user} \X post.menus)]
             ELSE db

deleteUser(user) ==
    /\ user \in db.users /\ db.changes < MaxChanges
    /\ db' = [db EXCEPT !.changes = @ + 1, !.users = @ \ {user}, !.links = @ \ ({user} \X Menus)]
    /\ page' = [page EXCEPT !.unsure = @ \/ page.posts # {},
                            !.claim = IF @.user = user THEN Nobody ELSE @]

(* A menu that another page still shows can be saved after its deletion,   *)
(* under a parent that is gone as well, and is there again.                *)
saveMenu(m) ==
    /\ m \notin db.menus /\ parent[m] \in db.known \union {Root} /\ db.changes < MaxChanges
    /\ db' = [db EXCEPT !.changes = @ + 1, !.menus = @ \union {m}, !.known = @ \union {m}]
    /\ UNCHANGED page

(* Mutant: the links of the menu stay.                                     *)
deleteMenuOnly(m) ==
    /\ m \in db.menus /\ db.changes < MaxChanges
    /\ db' = [db EXCEPT !.changes = @ + 1, !.menus = {o \in @ : o # m /\ parent[o] # m}]
    /\ UNCHANGED page

(* The children go with the menu, not what is below them; the links to the *)
(* menu itself go, not those to the children.                              *)
deleteMenu(m) ==
    /\ m \in db.menus /\ db.changes < MaxChanges
    /\ db' = [db EXCEPT !.changes = @ + 1, !.menus = {o \in @ : o # m /\ parent[o] # m}, !.links = @ \ (Users \X {m})]
    /\ page' = IF page.claim = Nobody
               THEN [page EXCEPT !.unsure = @ \/ page.posts # {}]
               ELSE [page EXCEPT !.unsure = @ \/ page.posts # {}, !.claim.menus = @ \ {m}]

-----------------------------------------------------------------------------
UserPageInit ==
    /\ \E links \in SUBSET (FirstUsers \X FirstMenus) :
          db = [menus |-> FirstMenus, users |-> FirstUsers, links |-> links,
                known |-> FirstUsers \union FirstMenus, changes |-> 0]
    /\ page = [form |-> New, tree |-> [owner |-> Root, shown |-> {}, ticked |-> {}],
               loads |-> {}, save |-> Nobody, posts |-> {}, claim |-> Nobody, unsure |-> FALSE, clicks |-> 0]

UserPageNext ==
    \/ addData \/ userFormSave \/ userSaved \/ saveUser
    \/ \E user \in Users : edit(user) \/ deleteUser(user)
    \/ \E m \in Menus : Tick(m) \/ saveMenu(m) \/ deleteMenu(m)
    \/ \E load \in page.loads : findByUserId(load) \/ listByTier(load) \/ loadMenuTree(load)
    \/ \E post \in page.posts : listUserMenus(post) \/ saveAllByUserId(post)

UserPageSpec == UserPageInit /\ [][UserPageNext]_pageVars

-----------------------------------------------------------------------------
(* What the page claims to have saved is stored, and was ticked for that   *)
(* user, once all calls are answered: unless a button was pressed while    *)
(* others were on their way, the tree could not be loaded, or somebody     *)
(* deleted a menu or a user in the middle of it.                           *)
SavedIsStored ==
    ~Outstanding /\ page.posts = {} /\ ~page.unsure /\ page.claim # Nobody =>
        /\ page.claim.owner = page.claim.form
        /\ LinksOf(page.claim.user) = page.claim.menus

(* Loading the menus of a user and saving them again grants nothing, and   *)
(* takes away only menus that got children since, none of them granted, or *)
(* that are not in the tree.                                               *)
UnchangedSave ==
    \A user \in db.users :
        LET own == getChildBySysMenuVo(LinksOf(user))
            shown == getChildBySysMenuVo(db.menus)
            again == getChecked(checkedForLayuiTree(shown, own))
        IN  LinksOf(user) \subseteq db.menus =>
                /\ again \subseteq LinksOf(user)
                /\ \A m \in LinksOf(user) \ again :
                      \/ m \notin shown \intersect own
                      \/ m \notin Leaves(shown) /\ \A l \in Leaves(shown) \intersect own : m \notin Ancestors(l)

Dangling(tables) == {l \in tables.links : l[1] \notin tables.users \/ l[2] \notin tables.menus}

(* A link to no menu, or of no user, comes from deleting the parent of its *)
(* menu, or from a page that was filled before the menu or the user went.  *)
DanglingOnlyFrom ==
    [][\A l \in Dangling(db') \ Dangling(db) :
          \/ parent[l[2]] \in db.menus \ db'.menus
          \/ \E post \in page.posts : saveAllByUserId(post) /\ l \in {post.user} \X post.menus]_pageVars
=============================================================================
