----------------------------- MODULE PageStore -----------------------------
(***************************************************************************)
(* What libs/mem-alloc/pageman.c promises its callers, with no lists,      *)
(* bitmaps or levels of recursion: a pool of free pages, and requests for  *)
(* aligned runs of 2^level pages that are granted from it whenever it      *)
(* holds one, and refused only when it does not.                           *)
(***************************************************************************)
EXTENDS BuddyBlocks

CONSTANTS
  Grants,       \* the sets of pages pageman_create and pageman_freeBlock give
  None          \* no request is being served

VARIABLES
  free,         \* pages that belong to the manager
  held,         \* blocks that belong to callers
  req           \* level of the request being served, or None

vars == <<free, held, req>>

Owned == free \cup PagesOf(held)

\* Of every grant, the manager's and the callers' pages are a part.
TypeOK ==
  /\ free \subseteq UNION Grants
  /\ held \subseteq Block
  /\ req \in Level \cup {None}

Init ==
  /\ free \in Grants
  /\ held = {}
  /\ req = None

\* pageman_freeBlock: new pages enter the pool
Donate(g) ==
  /\ req = None
  /\ g \cap Owned = {}
  /\ free' = free \cup g
  /\ UNCHANGED <<held, req>>

Request(l) ==
  /\ req = None
  /\ req' = l
  /\ UNCHANGED <<free, held>>

\* The aligned runs of 2^l pages that the pool holds whole
Available(l) == {b \in {<<l, p \div Width[l]>> : p \in free} : Pages(b) \subseteq free}

\* pageman_alloc returns a block
Grant(b) ==
  /\ req # None
  /\ req < TOTAL_LEVEL
  /\ b \in Available(req)
  /\ free' = free \ Pages(b)
  /\ held' = held \cup {b}
  /\ req' = None

\* pageman_alloc returns NULL
Refuse ==
  /\ req # None
  /\ req = TOTAL_LEVEL \/ Available(req) = {}
  /\ req' = None
  /\ UNCHANGED <<free, held>>

\* pageman_free
Release(b) ==
  /\ req = None
  /\ b \in held
  /\ held' = held \ {b}
  /\ free' = free \cup Pages(b)
  /\ UNCHANGED req

Next ==
  \/ \E g \in Grants : Donate(g)
  \/ \E l \in Level : Request(l)
  \/ req # None /\ \E b \in Available(req) : Grant(b)
  \/ Refuse
  \/ \E b \in held : Release(b)

Spec == Init /\ [][Next]_vars

=============================================================================
