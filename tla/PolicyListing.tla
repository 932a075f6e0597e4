---------------------------- MODULE PolicyListing ----------------------------
(***************************************************************************)
(* Listing the AI Catalog policies of a project (list-skill-policies.mjs): *)
(* page after page of PAGE_LIMIT policies at a growing offset, at most     *)
(* MAX_PAGES of them and none started after the time budget.  The answer   *)
(* carries a note when it may be incomplete.  The policies are kept by the *)
(* server, where administrators add and remove them between two pages.     *)
(***************************************************************************)
EXTENDS Naturals, Sequences

CONSTANTS Policies,    \* policies that ever apply to the project
          PAGE_LIMIT,
          MAX_PAGES

ASSUME PageAssumption == PAGE_LIMIT \in Nat \ {0} /\ MAX_PAGES \in Nat \ {0}

VARIABLES catalog,    \* the policies that apply, in the order the server lists them
          listing,    \* "idle", "fetching", "done" or "failed"
          allItems,   \* what the pages so far held
          page,       \* pages fetched so far
          note,       \* truncatedReason: "none", "cap" or "failure"
          late,       \* has the time budget passed?
          throughout, \* history: policies that applied ever since the listing began
          removals    \* history: has a policy been removed since?

listVars == <<catalog, listing, allItems, page, note, late, throughout, removals>>

Listed(seq) == {seq[i] : i \in DOMAIN seq}
offset == page * PAGE_LIMIT

\* The items of the page that starts at offset.
PageSize ==
  IF Len(catalog) <= offset THEN 0
  ELSE IF Len(catalog) - offset < PAGE_LIMIT THEN Len(catalog) - offset ELSE PAGE_LIMIT
PageItems == [i \in 1..PageSize |-> catalog[offset + i]]

ListInit ==
  /\ catalog = <<>>
  /\ listing = "idle"
  /\ allItems = <<>>
  /\ page = 0
  /\ note = "none"
  /\ late = FALSE
  /\ throughout = {}
  /\ removals = FALSE

BeginListing ==
  /\ listing \in {"idle", "done", "failed"}
  /\ listing' = "fetching"
  /\ allItems' = <<>>
  /\ page' = 0
  /\ note' = "none"
  /\ late' = FALSE
  /\ throughout' = Listed(catalog)
  /\ removals' = FALSE
  /\ UNCHANGED catalog

\* The budget is looked at between pages only.
OutOfTime == page > 0 /\ late

\* Mutant: a full page passes for the last one, as page_size under-reports it.
UnderReported == PageSize <= PAGE_LIMIT

\* A short page is the last one; so is the page that reaches MAX_PAGES, with a note.
LastPage == PageSize < PAGE_LIMIT
AtCap == page + 1 = MAX_PAGES

AfterPage ==
  [listing |-> IF LastPage \/ AtCap THEN "done" ELSE "fetching",
   note |-> IF ~LastPage /\ AtCap THEN "cap" ELSE "none"]

FetchPage ==
  /\ listing = "fetching"
  /\ ~OutOfTime
  /\ allItems' = allItems \o PageItems
  /\ page' = page + 1
  /\ listing' = AfterPage.listing
  /\ note' = AfterPage.note
  /\ UNCHANGED <<catalog, late, throughout, removals>>

\* jf times out, is interrupted, exits non-zero or answers something unreadable: the first
\* page fails the listing, a later one leaves a partial answer.
PageFails ==
  /\ listing = "fetching"
  /\ ~OutOfTime
  /\ IF page > 0 THEN listing' = "done" /\ note' = "failure"
                 ELSE listing' = "failed" /\ UNCHANGED note
  /\ UNCHANGED <<catalog, allItems, page, late, throughout, removals>>

StopForTime ==
  /\ listing = "fetching"
  /\ OutOfTime
  /\ listing' = "done"
  /\ note' = "cap"
  /\ UNCHANGED <<catalog, allItems, page, late, throughout, removals>>

BudgetPasses ==
  /\ listing = "fetching"
  /\ ~late
  /\ late' = TRUE
  /\ UNCHANGED <<catalog, listing, allItems, page, note, throughout, removals>>

\* An administrator adds a policy; it shows anywhere in the server's order.
AddPolicy(p) ==
  /\ p \notin Listed(catalog)
  /\ \E at \in 1..Len(catalog) + 1 :
       catalog' = [i \in 1..Len(catalog) + 1 |->
                     IF i < at THEN catalog[i] ELSE IF i = at THEN p ELSE catalog[i - 1]]
  /\ UNCHANGED <<listing, allItems, page, note, late, throughout, removals>>

RemovePolicy(at) ==
  /\ at \in DOMAIN catalog
  /\ catalog' = [i \in 1..Len(catalog) - 1 |-> IF i < at THEN catalog[i] ELSE catalog[i + 1]]
  /\ throughout' = throughout \ {catalog[at]}
  /\ removals' = TRUE
  /\ UNCHANGED <<listing, allItems, page, note, late>>

ListNext ==
  \/ BeginListing \/ FetchPage \/ PageFails \/ StopForTime \/ BudgetPasses
  \/ \E p \in Policies : AddPolicy(p)
  \/ \E at \in DOMAIN catalog : RemovePolicy(at)

ListSpec == ListInit /\ [][ListNext]_listVars

-----------------------------------------------------------------------------
ListTypeOK ==
  /\ catalog \in Seq(Policies)
  /\ listing \in {"idle", "fetching", "done", "failed"}
  /\ allItems \in Seq(Policies)
  /\ page \in 0..MAX_PAGES
  /\ note \in {"none", "cap", "failure"}
  /\ late \in BOOLEAN
  /\ throughout \subseteq Policies
  /\ removals \in BOOLEAN

\* "Hitting it is flagged in the output, never silently presented as the complete list"
\* (list-skill-policies.mjs:47-49): an answer without a note has every policy that applied
\* all the while the pages were fetched, whatever was added between them, unless one was
\* removed (its successors move across the next offset).
CompleteWithoutNote ==
  listing = "done" /\ note = "none" /\ ~removals => throughout \subseteq Listed(allItems)
=============================================================================
