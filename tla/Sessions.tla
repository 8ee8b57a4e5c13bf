------------------------------ MODULE Sessions ------------------------------
(***************************************************************************)
(* The two walks a relay makes through the stored sessions: over the pages *)
(* of the list, and over the pages of one session's history.  They share   *)
(* nothing but the handle, so each is explored with the other at rest.     *)
(***************************************************************************)
EXTENDS SessionList, SessionHistory

VARIABLE browsing   \* "list" or "history"

vars == <<mtime, gone, clock, listing, engine, file, exists, handle, walk, browsing>>

Init ==
  \/ browsing = "list" /\ ListInit
     /\ engine = "claude" /\ file = <<>> /\ exists = TRUE /\ handle = FALSE /\ walk = NoWalk
  \/ browsing = "history" /\ HistoryInit
     /\ mtime = [p \in Path |-> 0] /\ gone = {} /\ clock = 1 /\ listing = NotListing

Next ==
  \/ browsing = "list" /\ ListNext /\ UNCHANGED <<history, browsing>>
  \/ browsing = "history" /\ HistoryNext /\ UNCHANGED <<list, browsing>>

\* A relay that walks the list asks for the next page.
Spec ==
  /\ Init /\ [][Next]_vars
  /\ WF_vars(listing.at = "walking" /\ \E f \in Filters, n \in ListLimits : ListPage(f, n)
             /\ UNCHANGED <<history, browsing>>)
=============================================================================
