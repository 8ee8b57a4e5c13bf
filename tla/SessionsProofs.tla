--------------------------- MODULE SessionsProofs ---------------------------
(***************************************************************************)
(* The relay's walks, for every value of the constants.  Through the       *)
(* session list, however the two orders of the keys disagree: no session   *)
(* that stays is missed.  Through the history of a session that only       *)
(* grows: every entry once and in order, on pages that fit the frame.      *)
(***************************************************************************)
EXTENDS Sessions, FiniteSetTheorems, SequenceTheorems, WellFoundedInduction, TLAPS

-----------------------------------------------------------------------------
(* The sort of list is a strict total order, whatever the mtimes.          *)

LEMMA Least ==
  ASSUME NEW T, T \subseteq Nat, T # {}
  PROVE  \E x \in T : \A y \in T : x <= y
<1> DEFINE R == OpToRel(<, Nat)
<1>1. IsWellFoundedOn(R, Nat)
  BY NatLessThanWellFounded
<1>2. \A x, y \in Nat : y < x => <<y, x>> \in R
  BY DEF OpToRel
<1> HIDE DEF R
<1>3. PICK x \in T : \A y \in T : ~ (<<y, x>> \in R)
  BY <1>1, WFMin
<1>4. \A y \in T : ~(y < x)
  BY <1>2, <1>3
<1>5. \A y \in T : x <= y
  <2> SUFFICES ASSUME NEW y \in T PROVE x <= y
    OBVIOUS
  <2>1. x \in Nat /\ y \in Nat /\ ~(y < x)
    BY <1>4
  <2> QED
    BY <2>1
<1> QED
  BY <1>3, <1>5

LEMMA Order ==
  ASSUME mtime \in [Path -> Nat]
  PROVE  /\ \A p \in Path : ~Before(p, p)
         /\ \A p, q \in Path : p = q \/ Before(p, q) \/ Before(q, p)
         /\ \A p, q, r \in Path : Before(p, q) /\ Before(q, r) => Before(p, r)
<1>1. \A p \in Path : p \in Nat /\ mtime[p] \in Nat /\ Collate[p] \in Nat
  BY ListAssumption DEF Path
<1> QED
  BY <1>1 DEF Before

\* Whoever comes first has the smaller index; every index is below the number of
\* candidates.
LEMMA Ranks ==
  ASSUME mtime \in [Path -> Nat], NEW S, S \subseteq Path
  PROVE  /\ IsFiniteSet(S) /\ Cardinality(S) \in Nat
         /\ \A p \in S : Rank(S, p) \in Nat /\ Rank(S, p) < Cardinality(S)
         /\ \A p, q \in S : Before(q, p) => Rank(S, q) < Rank(S, p)
<1> DEFINE Ahead(p) == {q \in S : Before(q, p)}
<1>1. IsFiniteSet(S) /\ Cardinality(S) \in Nat
  <2>1. IsFiniteSet(Path)
    BY FS_Interval, ListAssumption DEF Path
  <2> QED
    BY <2>1, FS_Subset, FS_CardinalityType
<1>2. ASSUME NEW A, A \subseteq S, NEW B, B \subseteq A, NEW x \in A, x \notin B
      PROVE  Cardinality(B) \in Nat /\ Cardinality(A) \in Nat /\ Cardinality(B) < Cardinality(A)
  <2>1. IsFiniteSet(A) /\ IsFiniteSet(B)
    BY <1>1, <1>2, FS_Subset
  <2>2. Cardinality(B) \in Nat /\ Cardinality(A) \in Nat
    BY <2>1, FS_CardinalityType
  <2>3. Cardinality(B) <= Cardinality(A) /\ Cardinality(A) # Cardinality(B)
    BY <2>1, <1>2, FS_Subset
  <2> QED
    BY <2>2, <2>3
<1>3. \A p \in S : Rank(S, p) = Cardinality(Ahead(p))
  BY DEF Rank
<1>4. ASSUME NEW p \in S
      PROVE  Rank(S, p) \in Nat /\ Rank(S, p) < Cardinality(S)
  <2>1. p \notin Ahead(p) /\ Ahead(p) \subseteq S
    BY Order
  <2> HIDE DEF Ahead
  <2> QED
    BY <1>2, <1>3, <2>1
<1>5. ASSUME NEW p \in S, NEW q \in S, Before(q, p)
      PROVE  Rank(S, q) < Rank(S, p)
  <2>1. Ahead(p) \subseteq S /\ Ahead(q) \subseteq Ahead(p) /\ q \in Ahead(p) /\ q \notin Ahead(q)
    BY Order, <1>5
  <2> HIDE DEF Ahead
  <2> QED
    BY <1>2, <1>3, <2>1
<1> QED
  BY <1>1, <1>4, <1>5

\* Someone is first, and is on the page; a page has a last one; who is not on it
\* comes behind that one; and a page with room for all has them all.
LEMMA Page ==
  ASSUME mtime \in [Path -> Nat], NEW S, S \subseteq Path, NEW n \in Nat \ {0}
  PROVE  /\ FirstOf(S, n) \subseteq S
         /\ Cardinality(S) <= n => FirstOf(S, n) = S
         /\ Cardinality(S) > n =>
              /\ LastOf(FirstOf(S, n)) \in FirstOf(S, n)
              /\ \A q \in S \ FirstOf(S, n) : Before(LastOf(FirstOf(S, n)), q)
<1> DEFINE page == FirstOf(S, n)
           last == LastOf(page)
<1>1. page \subseteq S /\ \A p \in S : p \in page <=> Rank(S, p) < n
  BY DEF FirstOf
<1>2. ASSUME Cardinality(S) <= n
      PROVE  page = S
  <2>1. \A p \in S : Rank(S, p) < n
    BY Ranks, <1>2
  <2> QED
    BY <2>1, <1>1
<1>3. ASSUME Cardinality(S) > n
      PROVE  last \in page /\ \A q \in S \ page : Before(last, q)
  <2> HIDE DEF page, last
  <2>1. PICK p \in S : \A q \in S : Rank(S, p) <= Rank(S, q)
    <3> DEFINE T == {Rank(S, p) : p \in S}
    <3>1. S # {}
      BY <1>3, FS_EmptySet
    <3>2. T \subseteq Nat /\ T # {}
      BY <3>1, Ranks
    <3>3. PICK x \in T : \A y \in T : x <= y
      BY <3>2, Least
    <3> QED
      BY <3>3
  <2>2. p \in page
    <3>1. \A q \in S : ~Before(q, p)
      BY <2>1, Ranks
    <3>2. {q \in S : Before(q, p)} = {}
      BY <3>1
    <3>3. Rank(S, p) = 0
      BY <3>2, FS_EmptySet DEF Rank
    <3> QED
      BY <3>3, <1>1
  <2>3. PICK z \in page : \A q \in page : Rank(S, q) <= Rank(S, z)
    <3> DEFINE Left(q) == n - Rank(S, q)
               T == {Left(q) : q \in page}
    <3>1. \A q \in page : Rank(S, q) \in Nat /\ Rank(S, q) < n /\ Left(q) \in Nat
      BY <1>1, Ranks
    <3>2. T \subseteq Nat /\ T # {}
      BY <3>1, <2>2
    <3>3. PICK x \in T : \A y \in T : x <= y
      BY <3>2, Least
    <3>4. PICK z \in page : x = Left(z)
      BY <3>3
    <3>5. \A q \in page : Left(z) <= Left(q)
      BY <3>3, <3>4
    <3>6. \A q \in page : Rank(S, q) <= Rank(S, z)
      BY <3>1, <3>5
    <3> QED
      BY <3>6
  <2>4. \A q \in page : q = z \/ Before(q, z)
    <3> SUFFICES ASSUME NEW q \in page, ~(q = z \/ Before(q, z)) PROVE FALSE
      OBVIOUS
    <3>1. q \in S /\ z \in S /\ q \in Path /\ z \in Path
      BY <1>1
    <3>2. Before(z, q)
      BY <3>1, Order
    <3>3. Rank(S, z) < Rank(S, q) /\ Rank(S, q) <= Rank(S, z)
      BY <3>1, <3>2, <2>3, Ranks
    <3>4. Rank(S, z) \in Nat /\ Rank(S, q) \in Nat
      BY <3>1, Ranks
    <3> QED
      BY <3>3, <3>4
  <2>5. last \in page
    BY <2>4 DEF last, LastOf
  <2>6. ASSUME NEW q \in S \ page
        PROVE  Before(last, q)
    <3>1. last \in S /\ q \in S /\ q # last /\ last \in Path /\ q \in Path
      BY <2>5, <1>1
    <3>2. CASE Before(q, last)
      <4>1. Rank(S, q) < Rank(S, last) /\ Rank(S, last) < n /\ ~(Rank(S, q) < n)
        BY <3>1, <3>2, <2>5, <1>1, Ranks
      <4>2. Rank(S, q) \in Nat /\ Rank(S, last) \in Nat
        BY <3>1, Ranks
      <4> QED
        BY <4>1, <4>2
    <3> QED
      BY <3>1, <3>2, Order
  <2> QED
    BY <2>5, <2>6
<1> QED
  BY <1>1, <1>2, <1>3

-----------------------------------------------------------------------------
(* The walk.                                                               *)

ListTyped ==
  /\ mtime \in [Path -> Nat] /\ gone \subseteq Path /\ clock \in Nat \ {0}
  /\ listing \in [at : {"idle", "walking", "done"}, filter : Filters \cup {NoFilter},
                  cursor : Nat \X Nat, got : SUBSET Path, steady : SUBSET Path, truncated : BOOLEAN]

\* What the cursor stands for: every session that stayed and is not listed yet is
\* behind it.  A write moves a session to the front, and out of steady.
ListInv ==
  /\ ListTyped
  /\ listing.at = "idle" => listing.cursor = NoCursor
  /\ listing.at = "walking" => \A p \in listing.steady \ listing.got : Behind(listing.cursor, p)
  /\ ListComplete

LEMMA ListInitial == Init => ListInv
<1> SUFFICES ASSUME Init PROVE ListInv
  OBVIOUS
<1>1. listing = NotListing /\ mtime \in [Path -> Nat] /\ gone = {} /\ clock = 1
  BY DEF Init, ListInit
<1> QED
  BY <1>1 DEF ListInv, ListTyped, NotListing, NoCursor, ListComplete

\* A session that stays, is behind the cursor and not on the page is behind the next
\* cursor: the two orders agree about it and the last session of the page.
LEMMA BehindLast ==
  ASSUME mtime \in [Path -> Nat], NEW p \in Path, NEW q \in Path,
         Before(p, q), ~Confusable(q, p), p # q
  PROVE  Behind(CursorOf(p), q)
<1>1. /\ mtime[p] \in Nat /\ mtime[q] \in Nat /\ Key[p] \in Nat /\ Key[q] \in Nat
      /\ Collate[p] \in Nat /\ Collate[q] \in Nat
  BY ListAssumption
<1>2. Behind(CursorOf(p), q) <=> mtime[q] < mtime[p] \/ (mtime[q] = mtime[p] /\ Key[q] > Key[p])
  BY DEF Behind, CursorOf
<1>3. CASE mtime[p] = mtime[q]
  <2>1. Collate[p] <= Collate[q]
    BY <1>1, <1>3 DEF Before
  <2>2. Key[q] # Key[p] /\ ((Key[q] < Key[p]) <=> (Collate[q] < Collate[p]))
    BY <1>3, ZenonT(30) DEF Confusable
  <2> QED
    BY <1>1, <1>2, <1>3, <2>1, <2>2
<1>4. CASE mtime[p] # mtime[q]
  BY <1>1, <1>2, <1>4 DEF Before
<1> QED
  BY <1>3, <1>4

LEMMA PageStep ==
  ASSUME ListInv, NEW f \in Filters, NEW limit \in ListLimits, ListPage(f, limit)
  PROVE  ListInv'
<1> DEFINE rest == AfterCursor(f, listing.cursor)
           n == PageLimit(limit)
           more == Cardinality(rest) > n
           page == FirstOf(rest, n)
           stayed == IF listing.at = "idle" THEN Filtered(f) ELSE listing.steady \cap Filtered(f)
<1>1. /\ listing.at = "idle" \/ (listing.at = "walking" /\ f = listing.filter)
      /\ listing' = [at |-> IF more THEN "walking" ELSE "done", filter |-> f,
                     cursor |-> IF more THEN CursorOf(LastOf(page)) ELSE NoCursor,
                     got |-> listing.got \cup page, steady |-> Clear(stayed),
                     truncated |-> more \/ SubagentCapReached(f)]
      /\ mtime' = mtime /\ gone' = gone /\ clock' = clock
  BY DEF ListPage
<1>2. n \in Nat \ {0}
  BY ListAssumption DEF PageLimit
<1>3. Filtered(f) \subseteq Path /\ rest \subseteq Filtered(f) /\ stayed \subseteq Filtered(f)
  BY DEF Filtered, AfterCursor
<1>4. /\ mtime \in [Path -> Nat] /\ gone \subseteq Path /\ clock \in Nat \ {0}
      /\ listing.got \subseteq Path
  BY DEF ListInv, ListTyped
<1>5. Clear(stayed) \subseteq stayed /\ \A q \in Clear(stayed), p \in Path : ~Confusable(q, p)
  BY DEF Clear
<1>6. Clear(stayed) \ listing.got \subseteq rest
  <2> SUFFICES ASSUME NEW q \in Clear(stayed), q \notin listing.got PROVE q \in rest
    OBVIOUS
  <2>1. q \in Filtered(f) /\ q \in stayed
    BY <1>3, <1>5
  <2>2. CASE CursorIsCurrent(f, listing.cursor)
    <3>1. listing.at # "idle"
      <4> SUFFICES ASSUME listing.at = "idle" PROVE FALSE
        OBVIOUS
      <4>1. listing.cursor = <<0, 0>>
        BY DEF ListInv, NoCursor
      <4>2. PICK p \in Filtered(f) : <<mtime[p], Key[p]>> = <<0, 0>>
        BY <2>2, <4>1 DEF CursorIsCurrent, CursorOf
      <4>3. mtime[p] # 0
        BY DEF Filtered, Scanned, There
      <4> QED
        BY <4>2, <4>3
    <3>2. listing.at = "walking" /\ q \in listing.steady
      BY <1>1, <2>1, <3>1
    <3>3. Behind(listing.cursor, q)
      BY <3>2 DEF ListInv
    <3> QED
      BY <2>1, <2>2, <3>3 DEF AfterCursor
  <2>3. CASE ~CursorIsCurrent(f, listing.cursor)
    BY <2>1, <2>3 DEF AfterCursor
  <2> QED
    BY <2>2, <2>3
<1> HIDE DEF rest, n, stayed
<1>7. /\ page \subseteq rest
      /\ ~more => page = rest
      /\ more => LastOf(page) \in page /\ \A q \in rest \ page : Before(LastOf(page), q)
  <2>1. rest \subseteq Path
    BY <1>3
  <2>2. Cardinality(rest) \in Nat
    BY <1>4, <2>1, Ranks
  <2> QED
    BY <1>2, <1>4, <2>1, <2>2, Page
<1>8. page \subseteq Path
  BY <1>3, <1>7
<1> HIDE DEF page
<1>9. ListTyped'
  <2>1. /\ listing'.at \in {"walking", "done"} /\ listing'.filter = f
        /\ listing'.got \subseteq Path /\ listing'.steady \subseteq Path /\ listing'.truncated \in BOOLEAN
    BY <1>1, <1>3, <1>4, <1>5, <1>8 DEF SubagentCapReached
  <2>2. (IF more THEN CursorOf(LastOf(page)) ELSE NoCursor) \in Nat \X Nat
    <3>1. CASE more
      <4>1. LastOf(page) \in Path
        BY <1>7, <1>8, <3>1
      <4>2. mtime[LastOf(page)] \in Nat /\ Key[LastOf(page)] \in Nat
        BY <1>4, <4>1, ListAssumption
      <4> QED
        BY <3>1, <4>2 DEF CursorOf
    <3>2. CASE ~more
      BY <3>2 DEF NoCursor
    <3> QED
      BY <3>1, <3>2
  <2> HIDE DEF more
  <2> QED
    BY <1>1, <1>4, <2>1, <2>2 DEF ListTyped
<1>10. listing'.at # "idle"
  BY <1>1
<1>11. ASSUME more
       PROVE  (\A q \in listing.steady \ listing.got : Behind(listing.cursor, q))'
  <2> SUFFICES ASSUME NEW q \in Clear(stayed), q \notin listing.got, q \notin page
               PROVE  Behind(CursorOf(LastOf(page)), q)
    BY <1>1, <1>11 DEF Behind
  <2>1. q \in rest \ page /\ q \in Path
    BY <1>3, <1>5, <1>6
  <2>2. LastOf(page) \in Path /\ LastOf(page) # q /\ Before(LastOf(page), q)
    BY <1>7, <1>8, <1>11, <2>1
  <2>3. ~Confusable(q, LastOf(page))
    BY <1>5, <2>2
  <2> QED
    BY <1>4, <2>1, <2>2, <2>3, BehindLast
<1>12. ASSUME ~more
       PROVE  listing'.steady \subseteq listing'.got
  BY <1>1, <1>6, <1>7, <1>12
<1>13. (more => listing'.at = "walking") /\ (~more => listing'.at = "done")
  BY <1>1
<1> HIDE DEF more
<1>14. ListComplete'
  BY <1>11, <1>12, <1>13 DEF ListComplete
<1> QED
  BY <1>9, <1>10, <1>11, <1>12, <1>13, <1>14 DEF ListInv

\* What the engines do only takes sessions out of steady.
LEMMA StirStep ==
  ASSUME ListInv, NEW p \in Path, WriteSession(p) \/ RemoveSession(p)
  PROVE  ListInv'
<1>1. /\ listing' = [listing EXCEPT !.steady = @ \ {p}]
      /\ clock' = clock
      /\ gone' \subseteq gone \cup {p}
      /\ \E x \in {clock, 0} : mtime' = [mtime EXCEPT ![p] = x]
  BY DEF WriteSession, RemoveSession
<1>2. mtime' \in [Path -> Nat] /\ \A q \in Path \ {p} : mtime'[q] = mtime[q]
  BY <1>1 DEF ListInv, ListTyped
<1>3. ListTyped'
  BY <1>1, <1>2 DEF ListInv, ListTyped
<1>4. /\ listing'.at = listing.at /\ listing'.cursor = listing.cursor /\ listing'.got = listing.got
      /\ listing'.steady = listing.steady \ {p} /\ listing.steady \subseteq Path
  BY <1>1 DEF ListInv, ListTyped
<1>5. \A q \in Path \ {p} : Behind(listing.cursor, q) => Behind(listing.cursor, q)'
  BY <1>2, <1>4 DEF Behind
<1>6. (listing.at = "walking" => \A q \in listing.steady \ listing.got : Behind(listing.cursor, q))'
  BY <1>4, <1>5 DEF ListInv
<1>7. ListComplete' /\ (listing.at = "idle" => listing.cursor = NoCursor)'
  BY <1>4 DEF ListInv, ListComplete, NoCursor
<1> QED
  BY <1>3, <1>6, <1>7 DEF ListInv

LEMMA ListStep ==
  ASSUME ListInv, [Next]_vars
  PROVE  ListInv'
<1>1. CASE UNCHANGED list
  BY <1>1 DEF list, ListInv, ListTyped, ListComplete, Behind
<1>2. ASSUME NEW f \in Filters, NEW limit \in ListLimits, ListPage(f, limit)
      PROVE  ListInv'
  BY <1>2, PageStep
<1>3. CASE ListAgain
  <2>1. listing' = NotListing /\ UNCHANGED <<mtime, gone, clock>>
    BY <1>3 DEF ListAgain
  <2> QED
    BY <2>1 DEF ListInv, ListTyped, NotListing, NoCursor, ListComplete
<1>4. CASE ClockTick
  <2>1. clock' = clock + 1 /\ UNCHANGED <<mtime, gone, listing>>
    BY <1>4 DEF ClockTick
  <2> QED
    BY <2>1 DEF ListInv, ListTyped, ListComplete, Behind
<1>5. ASSUME NEW p \in Path, WriteSession(p) \/ RemoveSession(p)
      PROVE  ListInv'
  BY <1>5, StirStep
<1> QED
  BY <1>1, <1>2, <1>3, <1>4, <1>5 DEF Next, ListNext, vars, list

THEOREM ListInvariance == Spec => []ListInv
  BY ListInitial, ListStep, PTL DEF Spec

\* However the sessions are written and removed while the relay pages through them,
\* and whatever cursors go stale, a walk that ends has listed every session that was
\* there all along (SessionEnumerator.list).
THEOREM ListIsComplete == Spec => []ListComplete
<1>1. ListInv => ListComplete
  BY DEF ListInv
<1> QED
  BY <1>1, ListInvariance, PTL

-----------------------------------------------------------------------------
(* Recursive functions: what holds at 0 and goes from i - 1 to i holds up  *)
(* to N; and where each value is determined by the one before, there is    *)
(* such a function.                                                        *)

LEMMA Upto ==
  ASSUME NEW N \in Nat, NEW T, 0 \in T, \A i \in 1 .. N : i - 1 \in T => i \in T
  PROVE  0 .. N \subseteq T
<1> DEFINE Out == {i \in 0 .. N : i \notin T}
<1> SUFFICES ASSUME Out # {} PROVE FALSE
  OBVIOUS
<1>0. Out \subseteq Nat
  OBVIOUS
<1>1. PICK x \in Out : \A y \in Out : x <= y
  <2> HIDE DEF Out
  <2> QED
    BY <1>0, Least
<1>2. x \in 0 .. N /\ x \notin T /\ x # 0
  BY <1>1
<1>3. x \in 1 .. N /\ x - 1 \in 0 .. N /\ x - 1 \notin Out
  BY <1>1, <1>2
<1> QED
  BY <1>2, <1>3

LEMMA Along ==
  ASSUME NEW N \in Nat, NEW S, NEW g, g[0] \in S, \A i \in 1 .. N : g[i - 1] \in S => g[i] \in S
  PROVE  \A i \in 0 .. N : g[i] \in S
<1> DEFINE T == {i \in 0 .. N : g[i] \in S}
<1>1. 0 \in T
  OBVIOUS
<1>2. \A i \in 1 .. N : i - 1 \in T => i \in T
  OBVIOUS
<1>3. 0 .. N \subseteq T
  <2> HIDE DEF T
  <2> QED
    BY <1>1, <1>2, Upto
<1> QED
  BY <1>3

\* g goes from base through the steps 1, .., N.
Iterated(g, N, base, step) == g[0] = base /\ \A i \in 1 .. N : g[i] = step[<<i, g[i - 1]>>]

LEMMA Iterates ==
  ASSUME NEW N \in Nat, NEW S, NEW base \in S, NEW step \in [(1 .. N) \X S -> S]
  PROVE  \E g \in [0 .. N -> S] : Iterated(g, N, base, step)
<1> DEFINE Good(g, k) == g[0] = base /\ \A i \in 1 .. k : g[i] = step[<<i, g[i - 1]>>]
           T == {k \in 0 .. N : \E g \in [0 .. N -> S] : Good(g, k)}
<1>1. 0 \in T
  <2>1. [i \in 0 .. N |-> base] \in [0 .. N -> S] /\ Good([i \in 0 .. N |-> base], 0)
    OBVIOUS
  <2> HIDE DEF Good
  <2> QED
    BY <2>1
<1>2. ASSUME NEW k \in 1 .. N, k - 1 \in T
      PROVE  k \in T
  <2>1. PICK g \in [0 .. N -> S] : Good(g, k - 1)
    BY <1>2
  <2> DEFINE h == [g EXCEPT ![k] = step[<<k, g[k - 1]>>]]
  <2>2. k - 1 \in 0 .. N /\ k \in 0 .. N /\ g[k - 1] \in S
    OBVIOUS
  <2>3. step[<<k, g[k - 1]>>] \in S
    BY <2>2
  <2>4. h \in [0 .. N -> S] /\ h[k] = step[<<k, g[k - 1]>>]
    BY <2>2, <2>3
  <2>5. \A i \in 0 .. k - 1 : h[i] = g[i]
    BY <2>2
  <2> HIDE DEF h
  <2>6. h[0] = base
    BY <2>1, <2>5
  <2>7. ASSUME NEW i \in 1 .. k
        PROVE  h[i] = step[<<i, h[i - 1]>>]
    <3>1. h[i - 1] = g[i - 1]
      BY <2>5
    <3>2. CASE i = k
      BY <2>4, <3>1, <3>2
    <3>3. CASE i # k
      <4>1. i \in 1 .. k - 1 /\ i \in 0 .. k - 1
        BY <3>3
      <4> QED
        BY <2>1, <2>5, <3>1, <4>1
    <3> QED
      BY <3>2, <3>3
  <2>8. Good(h, k)
    BY <2>6, <2>7
  <2> HIDE DEF Good
  <2> QED
    BY <2>2, <2>4, <2>8
<1>3. N \in T
  <2> HIDE DEF T
  <2>1. 0 .. N \subseteq T
    BY <1>1, <1>2, Upto
  <2> QED
    BY <2>1
<1> QED
  BY <1>3 DEF Iterated

-----------------------------------------------------------------------------
(* Sums, of the bytes of calls and of entries.                             *)

\* The equation of SumFunction's fold.
AddsUp(f, g, S) ==
  g = [s \in SUBSET S |-> IF s = {} THEN 0
                          ELSE f[CHOOSE x \in s : TRUE] + g[s \ {CHOOSE x \in s : TRUE}]]

LEMMA SumExists ==
  ASSUME NEW f, NEW S, IsFiniteSet(S)
  PROVE  \E g : AddsUp(f, g, S)
<1> DEFINE pick(s) == CHOOSE x \in s : TRUE
           At(g, s) == g[s] = IF s = {} THEN 0 ELSE f[pick(s)] + g[s \ {pick(s)}]
           T == {k \in 0 .. Cardinality(S) :
                   \E g : \A s \in SUBSET S : Cardinality(s) <= k => At(g, s)}
<1>1. Cardinality(S) \in Nat
  BY FS_CardinalityType
<1>2. \A s \in SUBSET S : IsFiniteSet(s) /\ Cardinality(s) \in Nat /\ Cardinality(s) <= Cardinality(S)
  BY FS_Subset, FS_CardinalityType
<1>3. \A s \in SUBSET S : s # {} => /\ pick(s) \in s /\ s \ {pick(s)} \in SUBSET S
                                    /\ Cardinality(s \ {pick(s)}) = Cardinality(s) - 1
  BY <1>2, FS_RemoveElement
<1>4. \A s \in SUBSET S : Cardinality(s) = 0 <=> s = {}
  BY <1>2, FS_EmptySet
<1> HIDE DEF pick
<1>5. 0 \in T
  <2>1. ASSUME NEW s \in SUBSET S, Cardinality(s) <= 0
        PROVE  At([r \in SUBSET S |-> 0], s)
    BY <2>1, <1>2, <1>4
  <2> QED
    BY <1>1, <2>1
<1>6. ASSUME NEW k \in 1 .. Cardinality(S), k - 1 \in T
      PROVE  k \in T
  <2>1. PICK g : \A s \in SUBSET S : Cardinality(s) <= k - 1 => At(g, s)
    BY <1>6
  <2> DEFINE h == [s \in SUBSET S |->
                     IF Cardinality(s) <= k - 1 THEN g[s]
                     ELSE IF s = {} THEN 0 ELSE f[pick(s)] + g[s \ {pick(s)}]]
  <2>2. ASSUME NEW s \in SUBSET S, Cardinality(s) <= k
        PROVE  At(h, s)
    <3>1. CASE s = {}
      BY <3>1, <1>1, <1>4, <2>1, <1>6
    <3>2. CASE s # {}
      <4>1. s \ {pick(s)} \in SUBSET S /\ Cardinality(s \ {pick(s)}) <= k - 1
        BY <1>2, <1>3, <1>6, <2>2, <3>2
      <4>2. h[s \ {pick(s)}] = g[s \ {pick(s)}]
        BY <4>1
      <4>3. h[s] = f[pick(s)] + g[s \ {pick(s)}]
        BY <2>1, <3>2
      <4> HIDE DEF h
      <4> QED
        BY <3>2, <4>2, <4>3
    <3> QED
      BY <3>1, <3>2
  <2> HIDE DEF h
  <2>3. \E e : \A s \in SUBSET S : Cardinality(s) <= k => At(e, s)
    BY <2>2
  <2>4. k \in 0 .. Cardinality(S)
    BY <1>1
  <2> HIDE DEF At
  <2> QED
    BY <2>3, <2>4
<1>7. Cardinality(S) \in T
  <2> HIDE DEF T
  <2>1. 0 .. Cardinality(S) \subseteq T
    BY <1>1, <1>5, <1>6, Upto
  <2> QED
    BY <1>1, <2>1
<1>8. PICK g : \A s \in SUBSET S : At(g, s)
  BY <1>2, <1>7
<1> DEFINE h == [s \in SUBSET S |-> g[s]]
<1>9. ASSUME NEW s \in SUBSET S
      PROVE  h[s] = IF s = {} THEN 0 ELSE f[pick(s)] + h[s \ {pick(s)}]
  <2>1. h[s] = g[s] /\ (s # {} => h[s \ {pick(s)}] = g[s \ {pick(s)}])
    BY <1>3
  <2> QED
    BY <1>8, <2>1
<1>10. AddsUp(f, h, S)
  <2>1. h = [s \in SUBSET S |-> h[s]]
    OBVIOUS
  <2> HIDE DEF h
  <2>2. h = [s \in SUBSET S |-> IF s = {} THEN 0 ELSE f[pick(s)] + h[s \ {pick(s)}]]
    BY <1>9, <2>1
  <2> QED
    BY <2>2 DEF AddsUp, pick
<1> QED
  BY <1>10

LEMMA SumIsTotal ==
  ASSUME NEW f, NEW S, IsFiniteSet(S), DOMAIN f = S
  PROVE  \E g : AddsUp(f, g, S) /\ SumFunction(f) = g[S]
<1> DEFINE g == CHOOSE g : AddsUp(f, g, S)
<1>1. AddsUp(f, g, S)
  BY SumExists
<1>2. SumFunction(f) = g[S]
  BY DEF SumFunction, SumFunctionOnSet, FoldFunctionOnSet, MapThenFoldSet, AddsUp
<1> QED
  BY <1>1, <1>2

LEMMA Sums ==
  ASSUME NEW S, IsFiniteSet(S), NEW f \in [S -> Int]
  PROVE  /\ SumFunction(f) \in Int
         /\ S = {} => SumFunction(f) = 0
         /\ \A x : S = {x} => SumFunction(f) = f[x]
<1> DEFINE pick(s) == CHOOSE x \in s : TRUE
<1>1. PICK g : AddsUp(f, g, S) /\ SumFunction(f) = g[S]
  BY SumIsTotal
<1>0. \A s \in SUBSET S : g[s] = IF s = {} THEN 0 ELSE f[pick(s)] + g[s \ {pick(s)}]
  BY <1>1 DEF AddsUp
<1>3. \A s \in SUBSET S : s # {} => pick(s) \in s
  OBVIOUS
<1> HIDE DEF pick
<1>2. g[{}] = 0 /\ \A s \in SUBSET S : s # {} => g[s] = f[pick(s)] + g[s \ {pick(s)}]
  BY <1>0
<1> DEFINE T == {k \in 0 .. Cardinality(S) : \A s \in SUBSET S : Cardinality(s) <= k => g[s] \in Int}
<1>4. Cardinality(S) \in Nat
  BY FS_CardinalityType
<1>5. \A s \in SUBSET S : IsFiniteSet(s) /\ Cardinality(s) \in Nat /\ Cardinality(s) <= Cardinality(S)
  BY FS_Subset, FS_CardinalityType
<1>6. 0 \in T
  <2>1. ASSUME NEW s \in SUBSET S, Cardinality(s) <= 0
        PROVE  g[s] \in Int
    <3>1. s = {}
      BY <1>5, <2>1, FS_EmptySet
    <3> QED
      BY <1>2, <3>1
  <2> QED
    BY <1>4, <2>1
<1>7. ASSUME NEW k \in 1 .. Cardinality(S), k - 1 \in T
      PROVE  k \in T
  <2>1. ASSUME NEW s \in SUBSET S, Cardinality(s) <= k
        PROVE  g[s] \in Int
    <3>1. CASE s = {}
      BY <1>2, <3>1
    <3>2. CASE s # {}
      <4>1. pick(s) \in s /\ s \ {pick(s)} \in SUBSET S
        BY <1>3, <3>2
      <4>2. Cardinality(s \ {pick(s)}) = Cardinality(s) - 1
        BY <1>5, <4>1, FS_RemoveElement
      <4>3. g[s \ {pick(s)}] \in Int
        <5>1. Cardinality(s) - 1 <= k - 1
          BY <1>5, <2>1
        <5>2. \A r \in SUBSET S : Cardinality(r) <= k - 1 => g[r] \in Int
          BY <1>7
        <5> QED
          BY <4>1, <4>2, <5>1, <5>2
      <4>4. f[pick(s)] \in Int
        BY <4>1
      <4>5. g[s] = f[pick(s)] + g[s \ {pick(s)}]
        BY <1>2, <3>2
      <4> QED
        BY <4>3, <4>4, <4>5
    <3> QED
      BY <3>1, <3>2
  <2>2. k \in 0 .. Cardinality(S)
    BY <1>4
  <2> QED
    BY <2>1, <2>2
<1>8. SumFunction(f) \in Int
  <2> HIDE DEF T
  <2>1. Cardinality(S) \in T
    BY <1>4, <1>6, <1>7, Upto
  <2> QED
    BY <1>1, <1>5, <2>1 DEF T
<1>9. ASSUME S = {}
      PROVE  SumFunction(f) = 0
  BY <1>1, <1>2, <1>9
<1>10. ASSUME NEW x, S = {x}
       PROVE  SumFunction(f) = f[x]
  <2>1. pick(S) = x /\ S \ {pick(S)} = {} /\ S # {}
    BY <1>3, <1>10
  <2>2. g[{}] = 0
    BY <1>2
  <2>3. g[S] = f[x] + 0
    BY <1>2, <2>1, <2>2
  <2>4. f[x] \in Int
    BY <1>10
  <2> QED
    BY <1>1, <2>3, <2>4
<1> QED
  BY <1>8, <1>9, <1>10

-----------------------------------------------------------------------------
(* The size of an entry.                                                   *)

Unit == STRING \cup {"nl"}
CallType == {c \in [id : STRING, out : SUBSET Nat] : IsFiniteSet(c.out)}
EntryType == [id : Nat, role : {"user", "assistant"}, omitted : Nat, calls : Seq(CallType),
              content : Seq(Unit), truncated : BOOLEAN]

LEMMA IntervalFinite ==
  ASSUME NEW a \in Int, NEW b \in Int
  PROVE  IsFiniteSet(a .. b)
  BY FS_Interval

LEMMA MinOfTwo ==
  ASSUME NEW a \in Nat, NEW b \in Nat
  PROVE  Min({a, b}) \in Nat /\ Min({a, b}) <= a /\ Min({a, b}) <= b
<1>1. \E x \in {a, b} : \A y \in {a, b} : x <= y
  <2>1. CASE a <= b
    BY <2>1
  <2>2. CASE ~(a <= b)
    BY <2>2
  <2> QED
    BY <2>1, <2>2
<1>2. Min({a, b}) \in {a, b} /\ \A y \in {a, b} : Min({a, b}) <= y
  BY <1>1 DEF Min
<1> QED
  BY <1>2

LEMMA TextHasSize ==
  /\ TextBytes(<<>>) = 0
  /\ \A t \in Seq(Unit) : TextBytes(t) \in Int
<1>1. ASSUME NEW t \in Seq(Unit)
      PROVE  TextBytes(t) \in Int
  <2>1. Len(t) \in Nat
    OBVIOUS
  <2>2. IsFiniteSet(1 .. Len(t)) /\ IsFiniteSet(1 .. Len(t) - 1)
    BY <2>1, IntervalFinite
  <2>3. /\ Halves(t) \subseteq 1 .. Len(t) /\ Pairs(t) \subseteq 1 .. Len(t) - 1
        /\ {i \in 1 .. Len(t) : t[i] = "nl"} \subseteq 1 .. Len(t)
    BY DEF Halves, Pairs
  <2>4. /\ Cardinality(Halves(t)) \in Nat /\ Cardinality(Pairs(t)) \in Nat
        /\ Cardinality({i \in 1 .. Len(t) : t[i] = "nl"}) \in Nat
    BY <2>2, <2>3, FS_Subset, FS_CardinalityType
  <2> QED
    BY <2>1, <2>4 DEF TextBytes
<1>2. TextBytes(<<>>) = 0
  <2>1. /\ Halves(<<>>) = {} /\ Pairs(<<>>) = {}
        /\ {i \in 1 .. Len(<<>>) : <<>>[i] = "nl"} = {} /\ Len(<<>>) = 0
    BY DEF Halves, Pairs
  <2>2. Cardinality({}) = 0
    BY FS_EmptySet
  <2>3. TextBytes(<<>>) = 0 - 0 + 0 + 4 * 0 + 6 * (0 - 2 * 0)
    <3> HIDE DEF Halves, Pairs
    <3> QED
      BY ONLY <2>1, <2>2 DEF TextBytes
  <2> QED
    BY <2>3
<1> QED
  BY <1>1, <1>2

LEMMA EntryHasSize ==
  ASSUME NEW e \in EntryType
  PROVE  EntryBytes(e) \in Int
<1> DEFINE D == 1 .. Len(e.calls)
           f == [i \in D |-> CallBytes(e.calls[i])]
<1>1. e.calls \in Seq(CallType) /\ e.content \in Seq(Unit)
  BY DEF EntryType
<1>2. IsFiniteSet(D)
  BY <1>1, IntervalFinite
<1>3. f \in [D -> Nat]
  <2> SUFFICES ASSUME NEW i \in D PROVE CallBytes(e.calls[i]) \in Nat
    OBVIOUS
  <2>1. e.calls[i] \in CallType
    BY <1>1
  <2>2. Cardinality(e.calls[i].out) \in Nat
    BY <2>1, FS_CardinalityType DEF CallType
  <2>3. Min({Cardinality(e.calls[i].out), ToolIoCap}) \in Nat
    BY <2>2, MinOfTwo, HistoryAssumption
  <2> QED
    BY <2>3 DEF CallBytes
<1>4. SumFunction(f) \in Int
  <2> HIDE DEF f, D
  <2>1. f \in [D -> Int]
    BY <1>3
  <2> QED
    BY <1>2, <2>1, Sums
<1>5. TextBytes(e.content) \in Int
  BY <1>1, TextHasSize
<1>6. EntryBytes(e) = 1 + TextBytes(e.content) + (IF e.truncated THEN 1 ELSE 0)
                        + (IF e.omitted > 0 THEN 1 ELSE 0) + SumFunction(f)
  BY DEF EntryBytes
<1> QED
  BY <1>4, <1>5, <1>6

-----------------------------------------------------------------------------
(* boundHistoryEntryBytes: whatever an entry holds, what is left of it     *)
(* fits, and keeps its id.                                                 *)

LEMMA CallsDropped ==
  ASSUME NEW e \in EntryType, NEW d \in 0 .. Len(e.calls)
  PROVE  /\ WithoutCalls(e, d) \in EntryType /\ WithoutCalls(e, d).id = e.id
         /\ d = Len(e.calls) => WithoutCalls(e, d).calls = <<>>
<1>1. e.calls \in Seq(CallType) /\ Len(e.calls) \in Nat /\ e.omitted \in Nat
  BY DEF EntryType
<1>2. /\ SubSeq(e.calls, 1, Len(e.calls) - d) \in Seq(CallType)
      /\ d = Len(e.calls) => SubSeq(e.calls, 1, Len(e.calls) - d) = <<>>
  BY <1>1
<1>3. WithoutCalls(e, d) = [e EXCEPT !.calls = SubSeq(e.calls, 1, Len(e.calls) - d), !.omitted = e.omitted + d]
  BY DEF WithoutCalls, EntryType
<1> DEFINE a == SubSeq(e.calls, 1, Len(e.calls) - d)
           b == e.omitted + d
<1>4. a \in Seq(CallType) /\ b \in Nat /\ (d = Len(e.calls) => a = <<>>)
  BY <1>1, <1>2
<1>5. WithoutCalls(e, d) = [e EXCEPT !.calls = a, !.omitted = b]
  BY <1>3
<1> HIDE DEF a, b
<1>6. [e EXCEPT !.calls = a, !.omitted = b] \in EntryType
  BY <1>4 DEF EntryType
<1>7. [e EXCEPT !.calls = a, !.omitted = b].id = e.id /\ [e EXCEPT !.calls = a, !.omitted = b].calls = a
  BY DEF EntryType
<1> QED
  BY <1>4, <1>5, <1>6, <1>7

LEMMA ContentCut ==
  ASSUME NEW e \in EntryType, NEW n \in 0 .. Len(e.content)
  PROVE  /\ Prefix(e, n) \in EntryType /\ Prefix(e, n).id = e.id
         /\ n = 0 /\ e.calls = <<>> => Fits(Prefix(e, n))
<1>1. e.content \in Seq(Unit) /\ Len(e.content) \in Nat
  BY DEF EntryType
<1>2. SubSeq(e.content, 1, n) \in Seq(Unit) /\ (n = 0 => SubSeq(e.content, 1, n) = <<>>)
  BY <1>1
<1>3. Prefix(e, n) = [e EXCEPT !.content = SubSeq(e.content, 1, n), !.truncated = TRUE]
  BY DEF Prefix, EntryType
<1>4. Prefix(e, n) \in EntryType /\ Prefix(e, n).id = e.id
  BY <1>2, <1>3 DEF EntryType
<1>5. ASSUME n = 0, e.calls = <<>>
      PROVE  Fits(Prefix(e, n))
  <2> DEFINE p == Prefix(e, n)
  <2>1. p.content = <<>> /\ p.calls = <<>> /\ p.truncated = TRUE /\ p.omitted \in Nat
    BY <1>2, <1>3, <1>5 DEF EntryType
  <2> HIDE DEF p
  <2>2. EntryBytes(p) = 1 + TextBytes(<<>>) + 1 + (IF p.omitted > 0 THEN 1 ELSE 0)
                          + SumFunction([i \in 1 .. Len(<<>>) |-> CallBytes(p.calls[i])])
    BY <2>1 DEF EntryBytes
  <2>3. SumFunction([i \in 1 .. Len(<<>>) |-> CallBytes(p.calls[i])]) = 0
    <3>1. 1 .. Len(<<>>) = {} /\ IsFiniteSet({})
      BY FS_EmptySet
    <3>2. [i \in {} |-> CallBytes(p.calls[i])] \in [{} -> Int]
      OBVIOUS
    <3>3. SumFunction([i \in {} |-> CallBytes(p.calls[i])]) = 0
      BY <3>1, <3>2, Sums
    <3> QED
      BY <3>1, <3>3
  <2>4. EntryBytes(p) <= 3
    BY <2>2, <2>3, TextHasSize
  <2>5. EntryBytes(p) \in Int
    BY <1>4, EntryHasSize DEF p
  <2>6. EntryBytes(p) <= EntryMax
    BY <2>4, <2>5, HistoryAssumption
  <2> QED
    BY <2>6 DEF Fits, p
<1> QED
  BY <1>4, <1>5

\* The binary search ends on a prefix that fits: the empty one, or one it has tried.
LEMMA SearchFits ==
  ASSUME NEW e \in EntryType, e.calls = <<>>
  PROVE  /\ TruncateContent(e) \in EntryType /\ TruncateContent(e).id = e.id
         /\ Fits(TruncateContent(e))
<1> DEFINE n == Len(e.content)
           S == {s \in [lo : 0 .. n + 1, hi : -1 .. n, best : 0 .. n] : Fits(Prefix(e, s.best))}
           base == [lo |-> 0, hi |-> n, best |-> 0]
           step == [p \in (1 .. n + 1) \X S |-> Halve(e, p[2])]
           Loop(g) == g = [i \in 0 .. n + 1 |-> IF i = 0 THEN base ELSE Halve(e, g[i - 1])]
           Search == CHOOSE g : Loop(g)
<1>1. n \in Nat
  BY DEF EntryType
<1>2. base \in S
  BY <1>1, ContentCut
<1>3. ASSUME NEW s \in S
      PROVE  Halve(e, s) \in S
  <2> DEFINE mid == (s.lo + s.hi) \div 2
  <2>1. CASE s.lo > s.hi
    BY <2>1 DEF Halve
  <2>2. CASE ~(s.lo > s.hi)
    <3>1. s.lo \in 0 .. n + 1 /\ s.hi \in -1 .. n
      OBVIOUS
    <3>2. mid \in 0 .. n
      BY <1>1, <2>2, <3>1
    <3> HIDE DEF mid
    <3>3. CASE Fits(Prefix(e, mid))
      <4>1. Halve(e, s) = [s EXCEPT !.lo = mid + 1, !.best = mid]
        BY <2>2, <3>3 DEF Halve, mid
      <4>2. /\ [s EXCEPT !.lo = mid + 1, !.best = mid] \in [lo : 0 .. n + 1, hi : -1 .. n, best : 0 .. n]
            /\ [s EXCEPT !.lo = mid + 1, !.best = mid].best = mid
        <5>1. mid + 1 \in 0 .. n + 1
          BY <1>1, <3>2
        <5>2. s \in [lo : 0 .. n + 1, hi : -1 .. n, best : 0 .. n]
          OBVIOUS
        <5> HIDE DEF n, S
        <5> QED
          BY <3>2, <5>1, <5>2
      <4> QED
        BY <3>3, <4>1, <4>2
    <3>4. CASE ~Fits(Prefix(e, mid))
      <4>1. Halve(e, s) = [s EXCEPT !.hi = mid - 1]
        BY <2>2, <3>4 DEF Halve, mid
      <4>2. /\ [s EXCEPT !.hi = mid - 1] \in [lo : 0 .. n + 1, hi : -1 .. n, best : 0 .. n]
            /\ [s EXCEPT !.hi = mid - 1].best = s.best
        BY <1>1, <3>2
      <4> QED
        BY <4>1, <4>2
    <3> QED
      BY <3>3, <3>4
  <2> QED
    BY <2>1, <2>2
<1> HIDE DEF S, base
<1>4. Loop(Search)
  <2> DEFINE N == n + 1
  <2>1. step \in [(1 .. N) \X S -> S]
    BY <1>3
  <2>2. N \in Nat
    BY <1>1
  <2>3. \A i \in 1 .. N, s \in S : step[<<i, s>>] = Halve(e, s)
    OBVIOUS
  <2> HIDE DEF step, n, N
  <2>4. PICK g \in [0 .. N -> S] : Iterated(g, N, base, step)
    BY <1>2, <2>1, <2>2, Iterates
  <2>5. ASSUME NEW i \in 0 .. N
        PROVE  g[i] = IF i = 0 THEN base ELSE Halve(e, g[i - 1])
    <3>1. CASE i = 0
      BY <2>4, <3>1 DEF Iterated
    <3>2. CASE i # 0
      <4>1. i \in 1 .. N /\ i - 1 \in 0 .. N
        BY <2>2, <3>2
      <4>2. g[i - 1] \in S
        BY <4>1
      <4> QED
        BY <2>3, <2>4, <3>2, <4>1, <4>2 DEF Iterated
    <3> QED
      BY <3>1, <3>2
  <2>6. Loop(g)
    BY <2>5 DEF N
  <2> QED
    BY <2>6
<1>5. Search[n + 1] \in S
  <2> HIDE DEF Search, n
  <2>1. Search[0] = base /\ \A i \in 1 .. n + 1 : Search[i] = Halve(e, Search[i - 1])
    BY <1>1, <1>4
  <2>2. \A i \in 1 .. n + 1 : Search[i - 1] \in S => Search[i] \in S
    BY <1>3, <2>1
  <2> QED
    BY <1>1, <1>2, <2>1, <2>2, Along
<1>6. TruncateContent(e) = Prefix(e, Search[n + 1].best)
  BY DEF TruncateContent, base
<1>7. Search[n + 1].best \in 0 .. n /\ Fits(Prefix(e, Search[n + 1].best))
  BY <1>5 DEF S
<1> QED
  BY <1>6, <1>7, ContentCut

LEMMA Bounded ==
  ASSUME NEW e \in EntryType
  PROVE  /\ BoundEntry(e) \in EntryType /\ BoundEntry(e).id = e.id
         /\ Fits(BoundEntry(e))
<1> DEFINE dropped == DropCalls(e)
           enough == {d \in 0 .. Len(e.calls) - 1 : Fits(WithoutCalls(e, d))}
<1>1. Len(e.calls) \in Nat
  BY DEF EntryType
<1>2. CASE Fits(e)
  BY <1>2 DEF BoundEntry
<1>3. CASE ~Fits(e) /\ enough # {}
  <2>1. Min(enough) \in enough
    <3>1. enough \subseteq Nat
      BY <1>1
    <3> HIDE DEF enough
    <3> QED
      BY <1>3, <3>1, Least DEF Min
  <2>2. dropped = WithoutCalls(e, Min(enough))
    BY <1>3 DEF DropCalls
  <2>3. dropped \in EntryType /\ dropped.id = e.id /\ Fits(dropped)
    BY <1>1, <2>1, <2>2, CallsDropped
  <2> QED
    BY <1>3, <2>3 DEF BoundEntry
<1>4. CASE ~Fits(e) /\ enough = {}
  <2>1. dropped = WithoutCalls(e, Len(e.calls))
    BY <1>4 DEF DropCalls
  <2>2. dropped \in EntryType /\ dropped.id = e.id /\ dropped.calls = <<>>
    BY <1>1, <2>1, CallsDropped
  <2> HIDE DEF dropped
  <2>3. /\ TruncateContent(dropped) \in EntryType /\ TruncateContent(dropped).id = e.id
        /\ Fits(TruncateContent(dropped))
    BY <2>2, SearchFits
  <2>4. BoundEntry(e) = IF Fits(dropped) THEN dropped ELSE TruncateContent(dropped)
    BY <1>4 DEF BoundEntry, dropped
  <2> QED
    BY <2>2, <2>3, <2>4
<1> QED
  BY <1>2, <1>3, <1>4

-----------------------------------------------------------------------------
(* The entries of a Claude file.                                           *)

LEMMA FunctionIsSeq ==
  ASSUME NEW S, NEW n \in Nat, NEW f \in [1 .. n -> S]
  PROVE  f \in Seq(S) /\ Len(f) = n /\ DOMAIN f = 1 .. n
<1>1. f \in Seq(S)
  BY SeqDef
<1> QED
  BY <1>1, LenProperties

\* What is determined step by step from base exists.
LEMMA TextTyped ==
  ASSUME NEW l \in LineType
  PROVE  Text(l) \in Seq(Unit)
<1> DEFINE N == Len(l.parts)
           S == Seq(Unit)
           join(i, t) == IF l.parts[i] = <<>> THEN t
                         ELSE IF t = <<>> THEN l.parts[i] ELSE t \o <<"nl">> \o l.parts[i]
           step == [p \in (1 .. N) \X S |-> join(p[1], p[2])]
           Loop(g) == g = [i \in 0 .. N |->
             IF i = 0 THEN <<>>
             ELSE IF l.parts[i] = <<>> THEN g[i - 1]
             ELSE IF g[i - 1] = <<>> THEN l.parts[i] ELSE g[i - 1] \o <<"nl">> \o l.parts[i]]
           Joined == CHOOSE g : Loop(g)
<1>1. N \in Nat /\ \A i \in 1 .. N : l.parts[i] \in S
  <2>1. l.parts \in Seq(Seq(STRING))
    BY DEF LineType
  <2>2. \A i \in 1 .. N : l.parts[i] \in Seq(STRING)
    BY <2>1, ElementOfSeq
  <2>3. Seq(STRING) \subseteq S
    BY SeqMonotonic DEF Unit
  <2> QED
    BY <2>1, <2>2, <2>3, LenProperties
<1>2. <<>> \in S
  BY EmptySeq
<1>3. ASSUME NEW i \in 1 .. N, NEW t \in S
      PROVE  join(i, t) \in S
  <2>1. l.parts[i] \in S
    BY <1>1
  <2>2. <<"nl">> \in S
    <3>1. "nl" \in Unit
      BY DEF Unit
    <3>2. \A x \in Unit : <<x>> \in Seq(Unit)
      OBVIOUS
    <3> QED
      BY <3>1, <3>2
  <2>3. t \o <<"nl">> \o l.parts[i] \in S
    BY <2>1, <2>2, ConcatProperties
  <2> QED
    BY <2>1, <2>3
<1>4. step \in [(1 .. N) \X S -> S] /\ \A i \in 1 .. N, t \in S : step[<<i, t>>] = join(i, t)
  BY <1>3
<1>5. \A g : Loop(g) <=> g = [i \in 0 .. N |-> IF i = 0 THEN <<>> ELSE join(i, g[i - 1])]
  OBVIOUS
<1> HIDE DEF S, step, join
<1>6. Loop(Joined)
  <2>1. PICK g \in [0 .. N -> S] : Iterated(g, N, <<>>, step)
    BY <1>1, <1>2, <1>4, Iterates
  <2>2. ASSUME NEW i \in 0 .. N
        PROVE  g[i] = IF i = 0 THEN <<>> ELSE join(i, g[i - 1])
    <3>1. CASE i = 0
      BY <2>1, <3>1 DEF Iterated
    <3>2. CASE i # 0
      <4>1. i \in 1 .. N /\ i - 1 \in 0 .. N
        BY <1>1, <3>2
      <4>2. g[i - 1] \in S
        BY <4>1
      <4> QED
        BY <1>4, <2>1, <3>2, <4>1, <4>2 DEF Iterated
    <3> QED
      BY <3>1, <3>2
  <2>3. g = [i \in 0 .. N |-> IF i = 0 THEN <<>> ELSE join(i, g[i - 1])]
    BY <2>2
  <2> HIDE DEF Loop
  <2>4. Loop(g)
    BY <1>5, <2>3
  <2> QED
    BY <2>4
<1>7. Joined[N] \in S
  <2> HIDE DEF Joined
  <2>1. Joined = [i \in 0 .. N |-> IF i = 0 THEN <<>> ELSE join(i, Joined[i - 1])]
    BY <1>5, <1>6
  <2> HIDE DEF Loop, N
  <2>2. Joined[0] \in S
    BY <1>1, <1>2, <2>1
  <2>3. \A i \in 1 .. N : Joined[i - 1] \in S => Joined[i] \in S
    <3>1. \A i \in 1 .. N : Joined[i] = join(i, Joined[i - 1])
      BY <1>1, <2>1
    <3> QED
      BY <1>3, <3>1
  <2>4. N \in 0 .. N
    BY <1>1
  <2> QED
    BY <1>1, <2>2, <2>3, <2>4, Along
<1>8. Text(l) = Joined[N]
  BY DEF Text
<1> QED
  BY <1>7, <1>8 DEF S

LEMMA EntryTyped ==
  ASSUME NEW i \in Nat, NEW role \in {"user", "assistant"}, NEW text \in Seq(Unit), NEW omitted \in Nat,
         NEW calls \in Seq(CallType)
  PROVE  Entry(i, role, text, omitted, calls) \in EntryType /\ Entry(i, role, text, omitted, calls).id = i
<1> DEFINE content == SubSeq(text, 1, IF Len(text) > ContentCap THEN ContentCap ELSE Len(text))
<1>1. Len(text) \in Nat /\ ContentCap \in Nat
  BY HistoryAssumption
<1>2. content \in Seq(Unit)
  BY <1>1
<1>3. (Len(text) > ContentCap) \in BOOLEAN
  OBVIOUS
<1> HIDE DEF content
<1>4. Entry(i, role, text, omitted, calls)
        = [id |-> i, role |-> role, omitted |-> omitted, calls |-> calls, content |-> content,
           truncated |-> Len(text) > ContentCap]
  BY DEF Entry, content
<1> QED
  BY <1>2, <1>3, <1>4 DEF EntryType

LEMMA NthOf ==
  ASSUME NEW N \in Nat, NEW positions, positions \subseteq 1 .. N, NEW n
  PROVE  Nth(positions, n) \subseteq positions /\ Nth(positions, n) \subseteq Nat /\ IsFiniteSet(Nth(positions, n))
<1>1. Nth(positions, n) \subseteq positions
  BY DEF Nth
<1>2. IsFiniteSet(1 .. N)
  BY IntervalFinite
<1>3. Nth(positions, n) \in SUBSET (1 .. N)
  BY <1>1
<1>4. IsFiniteSet(Nth(positions, n))
  BY <1>2, <1>3, FS_Subset
<1> QED
  BY <1>1, <1>3, <1>4

LEMMA ClaudeCallsTyped ==
  ASSUME NEW lines \in Seq(LineType), NEW i \in 1 .. Len(lines)
  PROVE  ClaudeCalls(lines, i) \in Seq(CallType)
<1>1. Len(lines) \in Nat /\ lines[i] \in LineType
  BY ElementOfSeq, LenProperties
<1>2. lines[i].uses \in Seq(STRING) /\ Len(lines[i].uses) \in Nat
  <2>1. \A l \in LineType : l.uses \in Seq(STRING)
    BY DEF LineType
  <2> QED
    BY <1>1, <2>1, LenProperties
<1> DEFINE k == Min({Len(lines[i].uses), PageMax})
           calls == [j \in 1 .. k |-> [id |-> lines[i].uses[j], out |-> ClaudeOutput(lines, i, lines[i].uses[j])]]
<1>3. k \in Nat /\ k <= Len(lines[i].uses)
  BY <1>2, MinOfTwo, HistoryAssumption
<1> HIDE DEF k
<1>4. ASSUME NEW j \in 1 .. k
      PROVE  [id |-> lines[i].uses[j], out |-> ClaudeOutput(lines, i, lines[i].uses[j])] \in CallType
  <2>1. lines[i].uses[j] \in STRING
    BY <1>2, <1>3
  <2>2. \A id : ClaudeOutput(lines, i, id) \subseteq Nat /\ IsFiniteSet(ClaudeOutput(lines, i, id))
    <3> SUFFICES ASSUME NEW id
                 PROVE  ClaudeOutput(lines, i, id) \subseteq Nat /\ IsFiniteSet(ClaudeOutput(lines, i, id))
      OBVIOUS
    <3>1. {m \in 1 .. Len(lines) : id \in Range(lines[m].results)} \subseteq 1 .. Len(lines)
      OBVIOUS
    <3> QED
      BY <1>1, <3>1, NthOf DEF ClaudeOutput
  <2> QED
    BY <2>1, <2>2 DEF CallType
<1>5. calls \in [1 .. k -> CallType]
  BY <1>4
<1>6. calls \in Seq(CallType)
  <2> HIDE DEF calls
  <2> QED
    BY <1>3, <1>5, FunctionIsSeq
<1>7. ClaudeCalls(lines, i) = IF ~Speaks(lines[i]) THEN <<>> ELSE calls
  BY DEF ClaudeCalls, k
<1> QED
  BY <1>6, <1>7, EmptySeq

\* The n-th of at least n positions exists.
LEMMA NthExists ==
  ASSUME NEW N \in Nat, NEW A, A \subseteq 1 .. N, NEW n \in 1 .. Cardinality(A)
  PROVE  Nth(A, n) # {}
<1> DEFINE UpTo(i) == {q \in A : q <= i}
           C(i) == Cardinality(UpTo(i))
           T == {i \in 0 .. N : \A m \in 1 .. C(i) : Nth(A, m) # {}}
<1>0. \A q \in A : q \in Nat /\ 1 <= q /\ q <= N
  OBVIOUS
<1>1. \A i \in 0 .. N : IsFiniteSet(UpTo(i)) /\ C(i) \in Nat
  <2>1. IsFiniteSet(1 .. N)
    BY IntervalFinite
  <2>2. \A i \in 0 .. N : UpTo(i) \in SUBSET (1 .. N)
    OBVIOUS
  <2> HIDE DEF UpTo
  <2> QED
    BY <2>1, <2>2, FS_Subset, FS_CardinalityType
<1>2. C(0) = 0
  <2>1. UpTo(0) = {}
    <3>1. \A q \in A : ~(q <= 0)
      BY <1>0
    <3> QED
      BY <3>1
  <2> QED
    BY <2>1, FS_EmptySet
<1>3. UpTo(N) = A
  BY <1>0
<1>4. ASSUME NEW i \in 1 .. N, i - 1 \in T
      PROVE  i \in T
  <2>1. CASE i \notin A
    <3>1. UpTo(i) = UpTo(i - 1)
      <4>1. \A q \in A : q <= i <=> q <= i - 1
        BY <1>0, <2>1
      <4> QED
        BY <4>1
    <3> QED
      BY <1>4, <3>1
  <2>2. CASE i \in A
    <3>1. UpTo(i) = UpTo(i - 1) \cup {i} /\ i \notin UpTo(i - 1) /\ i - 1 \in 0 .. N
      <4>1. \A q \in A : q <= i <=> q = i \/ q <= i - 1
        BY <1>0
      <4>2. ~(i <= i - 1) /\ i - 1 \in 0 .. N
        OBVIOUS
      <4>3. UpTo(i) = UpTo(i - 1) \cup {i}
        BY <2>2, <4>1
      <4> QED
        BY <4>2, <4>3
    <3>2. C(i) = C(i - 1) + 1 /\ C(i - 1) \in Nat
      <4> HIDE DEF UpTo
      <4> QED
        BY <1>1, <3>1, FS_AddElement
    <3>3. i \in Nth(A, C(i))
      BY <2>2 DEF Nth
    <3>4. \A m \in 1 .. C(i - 1) : Nth(A, m) # {}
      BY <1>4
    <3> HIDE DEF C
    <3>5. \A m \in 1 .. C(i) : Nth(A, m) # {}
      <4> SUFFICES ASSUME NEW m \in 1 .. C(i) PROVE Nth(A, m) # {}
        OBVIOUS
      <4>1. m = C(i) \/ m \in 1 .. C(i - 1)
        BY <3>2
      <4> QED
        BY <3>3, <3>4, <4>1
    <3>6. i \in 0 .. N
      OBVIOUS
    <3> QED
      BY <3>5, <3>6
  <2> QED
    BY <2>1, <2>2
<1>5. 0 \in T
  <2> HIDE DEF C
  <2>1. 1 .. C(0) = {} /\ 0 \in 0 .. N
    BY <1>2
  <2> QED
    BY <2>1
<1>6. N \in T
  <2> HIDE DEF T
  <2>1. N \in 0 .. N
    OBVIOUS
  <2> QED
    BY <1>4, <1>5, <2>1, Upto
<1> QED
  BY <1>3, <1>6

EntryLines(lines) == {i \in 1 .. Len(lines) : ClaudeHasEntry(lines[i])}

LEMMA ClaudeEntries ==
  ASSUME NEW lines \in Seq(LineType)
  PROVE  /\ Cardinality(EntryLines(lines)) \in Nat
         /\ BuildClaude(lines) \in Seq(EntryType)
         /\ Len(BuildClaude(lines)) = Cardinality(EntryLines(lines))
         /\ \A n \in 1 .. Cardinality(EntryLines(lines)) :
              BuildClaude(lines)[n].id = CHOOSE i \in Nth(EntryLines(lines), n) : TRUE
<1> DEFINE at == EntryLines(lines)
           ith(n) == CHOOSE i \in Nth(at, n) : TRUE
           made(n) == Entry(ith(n), lines[ith(n)].role, Text(lines[ith(n)]), lines[ith(n)].omitted,
                            ClaudeCalls(lines, ith(n)))
           all == [n \in 1 .. Cardinality(at) |-> made(n)]
<1>1. Len(lines) \in Nat /\ at \subseteq 1 .. Len(lines)
  BY LenProperties DEF EntryLines
<1>2. Cardinality(at) \in Nat
  <2>1. IsFiniteSet(1 .. Len(lines))
    BY <1>1, IntervalFinite
  <2>2. at \in SUBSET (1 .. Len(lines))
    BY <1>1
  <2> HIDE DEF at
  <2> QED
    BY <2>1, <2>2, FS_Subset, FS_CardinalityType
<1>3. ASSUME NEW n \in 1 .. Cardinality(at)
      PROVE  made(n) \in EntryType /\ made(n).id = ith(n)
  <2>1. Nth(at, n) # {}
    <3> HIDE DEF at
    <3> QED
      BY <1>1, NthExists
  <2>2. ith(n) \in at
    BY <2>1 DEF Nth
  <2> HIDE DEF ith
  <2>3. ith(n) \in 1 .. Len(lines) /\ ClaudeHasEntry(lines[ith(n)])
    BY <2>2 DEF EntryLines
  <2>4. lines[ith(n)] \in LineType /\ lines[ith(n)].role \in {"user", "assistant"} /\ ith(n) \in Nat
    BY <1>1, <2>3, ElementOfSeq DEF ClaudeHasEntry
  <2>5. lines[ith(n)].omitted \in Nat
    BY <2>4 DEF LineType
  <2>6. Text(lines[ith(n)]) \in Seq(Unit) /\ ClaudeCalls(lines, ith(n)) \in Seq(CallType)
    BY <2>3, <2>4, TextTyped, ClaudeCallsTyped
  <2> QED
    BY <2>4, <2>5, <2>6, EntryTyped
<1>4. BuildClaude(lines) = all
  BY DEF BuildClaude, EntryLines
<1>5. all \in [1 .. Cardinality(at) -> EntryType] /\ \A n \in 1 .. Cardinality(at) : all[n].id = ith(n)
  BY <1>3
<1> HIDE DEF all
<1>6. all \in Seq(EntryType) /\ Len(all) = Cardinality(at)
  <2> HIDE DEF at
  <2> QED
    BY <1>2, <1>5, FunctionIsSeq
<1> QED
  BY <1>2, <1>4, <1>5, <1>6

-----------------------------------------------------------------------------
(* The entries of a Codex file.                                            *)

CodexLineType == {l \in LineType : Len(l.uses) = 1}
CodexState == {s \in [entries : Seq(EntryType), current : Nat] : s.current <= Len(s.entries)}

\* What a line does to the list of entries: it adds one ("user", "assistant"), hangs a
\* call on the current one ("call"), or does nothing.
Effect(lines, i) ==
  LET l == lines[i]
  IN IF l.type = "message" /\ l.role \in {"user", "assistant"} THEN l.role
     ELSE IF \/ l.type = "call" /\ l.uses[1] # NoId
             \/ l.type = "enrichment" /\ (l.uses[1] = NoId \/ CallAt(lines, l.uses[1]) = {})
     THEN "call" ELSE "none"
Adds(effect, current) == effect \in {"user", "assistant"} \/ (effect = "call" /\ current = 0)
CurrentAfter(effect, current, n) ==
  IF effect = "user" THEN 0
  ELSE IF effect = "assistant" \/ (effect = "call" /\ current = 0) THEN n + 1 ELSE current

\* t has the entries of s, in calls perhaps different ones, and one more with id i if adds.
Follows(s, t, adds, i) ==
  /\ Len(t.entries) = Len(s.entries) + (IF adds THEN 1 ELSE 0)
  /\ \A n \in 1 .. Len(s.entries) : t.entries[n].id = s.entries[n].id
  /\ adds => t.entries[Len(s.entries) + 1].id = i

LEMMA EntryAdded ==
  ASSUME NEW s \in CodexState, NEW e \in EntryType, NEW c \in 0 .. Len(s.entries) + 1
  PROVE  /\ [entries |-> Append(s.entries, e), current |-> c] \in CodexState
         /\ Follows(s, [entries |-> Append(s.entries, e), current |-> c], TRUE, e.id)
<1> DEFINE es == s.entries
           t == [entries |-> Append(s.entries, e), current |-> c]
<1>1. es \in Seq(EntryType) /\ Len(es) \in Nat
  BY LenProperties DEF CodexState
<1> HIDE DEF es
<1>2. /\ Append(es, e) \in Seq(EntryType) /\ Len(Append(es, e)) = Len(es) + 1
      /\ \A n \in 1 .. Len(es) : Append(es, e)[n] = es[n]
      /\ Append(es, e)[Len(es) + 1] = e
  BY <1>1, AppendProperties
<1>3. t.entries = Append(es, e) /\ t.current = c
  BY DEF es
<1>4. t \in [entries : Seq(EntryType), current : Nat] /\ c <= Len(es) + 1
  BY <1>1, <1>2 DEF es
<1>5. t \in CodexState
  BY <1>2, <1>3, <1>4 DEF CodexState
<1>6. Follows(s, t, TRUE, e.id)
  <2> HIDE DEF t
  <2> QED
    BY <1>2, <1>3 DEF Follows, es
<1> QED
  BY <1>5, <1>6

LEMMA CallAdded ==
  ASSUME NEW s \in CodexState, s.current # 0, NEW calls \in Seq(CallType)
  PROVE  LET t == [s EXCEPT !.entries[s.current].calls = calls]
         IN t \in CodexState /\ t.current = s.current /\ Follows(s, t, FALSE, 0)
<1> DEFINE es == s.entries
           k == s.current
           e == [es[k] EXCEPT !.calls = calls]
           fs == [es EXCEPT ![k] = e]
           t == [s EXCEPT !.entries[s.current].calls = calls]
<1>1. es \in Seq(EntryType) /\ Len(es) \in Nat /\ k \in 1 .. Len(es)
  BY LenProperties DEF CodexState
<1>2. s \in [entries : Seq(EntryType), current : Nat]
  BY DEF CodexState
<1>3. t = [s EXCEPT !.entries = fs]
  OBVIOUS
<1> HIDE DEF es, k
<1>4. e \in EntryType /\ e.id = es[k].id
  <2>1. es[k] \in EntryType
    BY <1>1, ElementOfSeq
  <2> QED
    BY <2>1 DEF EntryType
<1> HIDE DEF e
<1>5. /\ fs \in Seq(EntryType) /\ Len(fs) = Len(es)
      /\ \A n \in 1 .. Len(es) : fs[n] = IF n = k THEN e ELSE es[n]
  BY <1>1, <1>4, ExceptSeq
<1>6. \A n \in 1 .. Len(es) : fs[n].id = es[n].id
  BY <1>4, <1>5
<1> HIDE DEF fs, t
<1>7. t = [entries |-> fs, current |-> k]
  BY <1>2, <1>3 DEF k
<1>8. t \in [entries : Seq(EntryType), current : Nat] /\ t.entries = fs /\ t.current = k
  BY <1>1, <1>5, <1>7
<1>9. t \in CodexState /\ t.current = s.current
  BY <1>1, <1>5, <1>8 DEF CodexState, k
<1>10. Follows(s, t, FALSE, 0)
  BY <1>1, <1>5, <1>6, <1>8 DEF Follows, es
<1> QED
  BY <1>9, <1>10 DEF t

LEMMA AttachTyped ==
  ASSUME NEW s \in CodexState, NEW i \in Nat, NEW call \in CallType
  PROVE  /\ Attach(s, i, call) \in CodexState
         /\ Attach(s, i, call).current = IF s.current # 0 THEN s.current ELSE Len(s.entries) + 1
         /\ Follows(s, Attach(s, i, call), s.current = 0, i)
<1> DEFINE new == [entries |-> Append(s.entries, Entry(i, "assistant", <<>>, 0, <<>>)),
                   current |-> Len(s.entries) + 1]
           open == IF s.current # 0 THEN s ELSE new
           old == open.entries[open.current].calls
           calls == IF Len(old) < PageMax THEN Append(old, call) ELSE old
           t == [open EXCEPT !.entries[open.current].calls = calls]
<1>1. Len(s.entries) \in Nat /\ s.current \in Nat
  BY LenProperties DEF CodexState
<1>2. /\ new \in CodexState /\ new.current = Len(s.entries) + 1 /\ Follows(s, new, TRUE, i)
  <2>1. /\ Entry(i, "assistant", <<>>, 0, <<>>) \in EntryType
        /\ Entry(i, "assistant", <<>>, 0, <<>>).id = i
    <3>1. <<>> \in Seq(CallType) /\ <<>> \in Seq(Unit) /\ 0 \in Nat /\ "assistant" \in {"user", "assistant"}
      BY EmptySeq
    <3> QED
      BY <3>1, EntryTyped
  <2>2. Len(s.entries) + 1 \in 0 .. Len(s.entries) + 1
    BY <1>1
  <2> QED
    BY <2>1, <2>2, EntryAdded
<1> HIDE DEF new
<1>3. /\ open \in CodexState /\ open.current # 0
      /\ open.current = IF s.current # 0 THEN s.current ELSE Len(s.entries) + 1
      /\ Follows(s, open, s.current = 0, i)
  <2>1. CASE s.current # 0
    <3>1. open = s /\ (s.current = 0) = FALSE
      BY <2>1
    <3>2. Follows(s, s, FALSE, i)
      BY <1>1 DEF Follows
    <3> QED
      BY <2>1, <3>1, <3>2
  <2>2. CASE s.current = 0
    <3>1. open = new
      BY <2>2
    <3>2. Follows(s, open, s.current = 0, i)
      BY <1>2, <2>2, <3>1 DEF Follows
    <3>3. open \in CodexState /\ open.current = Len(s.entries) + 1
      BY <1>2, <3>1
    <3> HIDE DEF open
    <3> QED
      BY <1>1, <2>2, <3>2, <3>3
  <2> QED
    BY <2>1, <2>2
<1>4. Attach(s, i, call) = t
  BY DEF Attach, new
<1> HIDE DEF open
<1>5. calls \in Seq(CallType)
  <2>1. open.entries \in Seq(EntryType) /\ open.current \in 1 .. Len(open.entries)
    BY <1>3, LenProperties DEF CodexState
  <2>2. open.entries[open.current] \in EntryType
    BY <2>1, ElementOfSeq
  <2>3. old \in Seq(CallType)
    BY <2>2 DEF EntryType
  <2>4. Append(old, call) \in Seq(CallType)
    BY <2>3, AppendProperties
  <2> QED
    BY <2>3, <2>4
<1> HIDE DEF calls
<1>6. t \in CodexState /\ t.current = open.current /\ Follows(open, t, FALSE, 0)
  BY <1>3, <1>5, CallAdded
<1> HIDE DEF t
<1>7. Follows(s, t, s.current = 0, i)
  <2>1. Len(open.entries) = Len(s.entries) + (IF s.current = 0 THEN 1 ELSE 0)
    BY <1>3 DEF Follows
  <2>2. Len(t.entries) = Len(open.entries) + 0 /\ \A n \in 1 .. Len(open.entries) : t.entries[n].id = open.entries[n].id
    BY <1>6 DEF Follows
  <2>3. \A n \in 1 .. Len(s.entries) : n \in 1 .. Len(open.entries) /\ open.entries[n].id = s.entries[n].id
    <3>1. Len(open.entries) = Len(s.entries) \/ Len(open.entries) = Len(s.entries) + 1
      <4>1. CASE s.current = 0
        BY <2>1, <4>1
      <4>2. CASE s.current # 0
        <5>1. Len(open.entries) = Len(s.entries) + 0
          BY <2>1, <4>2
        <5> QED
          BY <1>1, <5>1
      <4> QED
        BY <4>1, <4>2
    <3>2. \A n \in 1 .. Len(s.entries) : n \in 1 .. Len(open.entries)
      BY <1>1, <3>1
    <3>3. \A n \in 1 .. Len(s.entries) : open.entries[n].id = s.entries[n].id
      BY <1>3 DEF Follows
    <3> QED
      BY <3>2, <3>3
  <2>4. \A n \in 1 .. Len(s.entries) : t.entries[n].id = s.entries[n].id
    BY <2>2, <2>3
  <2>5. Len(t.entries) = Len(s.entries) + (IF s.current = 0 THEN 1 ELSE 0)
    BY <1>1, <2>1, <2>2
  <2>6. ASSUME s.current = 0
        PROVE  t.entries[Len(s.entries) + 1].id = i
    <3>1. Len(s.entries) + 1 \in 1 .. Len(open.entries)
      BY <1>1, <2>1, <2>6
    <3>2. open.entries[Len(s.entries) + 1].id = i
      BY <1>3, <2>6 DEF Follows
    <3> QED
      BY <2>2, <3>1, <3>2
  <2> QED
    BY <2>4, <2>5, <2>6 DEF Follows
<1> QED
  BY <1>3, <1>4, <1>6, <1>7

LEMMA CodexOutputTyped ==
  ASSUME NEW lines \in Seq(CodexLineType), NEW i \in 1 .. Len(lines)
  PROVE  CodexToolCall(lines, i) \in CallType
<1> DEFINE id == lines[i].uses[1]
           out == CodexOutput(lines, i, id)
<1>1. Len(lines) \in Nat /\ lines[i] \in CodexLineType
  BY ElementOfSeq, LenProperties
<1>2. id \in STRING
  <2>1. \A l \in CodexLineType : l.uses[1] \in STRING
    <3> SUFFICES ASSUME NEW l \in CodexLineType PROVE l.uses[1] \in STRING
      OBVIOUS
    <3>1. l.uses \in Seq(STRING) /\ Len(l.uses) = 1
      BY DEF CodexLineType, LineType
    <3> QED
      BY <3>1
  <2> QED
    BY <1>1, <2>1
<1> HIDE DEF id
<1>3. OutputAt(lines, id) \subseteq 1 .. Len(lines) /\ EnrichmentAt(lines, id) \in SUBSET (1 .. Len(lines))
  BY DEF OutputAt, EnrichmentAt
<1>4. IsFiniteSet(EnrichmentAt(lines, id)) /\ EnrichmentAt(lines, id) \subseteq Nat
  <2>1. IsFiniteSet(1 .. Len(lines))
    BY <1>1, IntervalFinite
  <2>2. IsFiniteSet(EnrichmentAt(lines, id))
    BY <1>3, <2>1, FS_Subset
  <2> QED
    BY <1>1, <1>3, <2>2
<1>5. \A n : /\ IsFiniteSet(Nth(OutputAt(lines, id), n))
             /\ Nth(OutputAt(lines, id), n) \subseteq Nat
  BY <1>1, <1>3, NthOf
<1>6. IsFiniteSet(out) /\ out \subseteq Nat
  BY <1>4, <1>5, FS_Union DEF CodexOutput
<1>7. CodexToolCall(lines, i) = [id |-> id, out |-> out]
  BY DEF CodexToolCall, id
<1> HIDE DEF out
<1> QED
  BY <1>2, <1>6, <1>7 DEF CallType

LEMMA CodexStep ==
  ASSUME NEW lines \in Seq(CodexLineType), NEW i \in 1 .. Len(lines), NEW s \in CodexState
  PROVE  /\ CodexLine(lines, s, i) \in CodexState
         /\ CodexLine(lines, s, i).current = CurrentAfter(Effect(lines, i), s.current, Len(s.entries))
         /\ Follows(s, CodexLine(lines, s, i), Adds(Effect(lines, i), s.current), i)
<1> DEFINE l == lines[i]
           id == l.uses[1]
           t == CodexLine(lines, s, i)
           Goal == /\ t \in CodexState
                   /\ t.current = CurrentAfter(Effect(lines, i), s.current, Len(s.entries))
                   /\ Follows(s, t, Adds(Effect(lines, i), s.current), i)
<1>1. l \in CodexLineType /\ i \in Nat /\ Len(s.entries) \in Nat
  BY ElementOfSeq, LenProperties DEF CodexState
<1>2. l \in LineType /\ id \in STRING /\ l.omitted \in Nat
  <2>1. l \in LineType /\ Len(l.uses) = 1
    BY <1>1 DEF CodexLineType
  <2>2. \A k \in LineType : k.uses \in Seq(STRING) /\ k.omitted \in Nat
    BY DEF LineType
  <2>3. l.uses \in Seq(STRING) /\ l.omitted \in Nat
    BY <2>1, <2>2
  <2> QED
    BY <2>1, <2>3
<1>3. ASSUME NEW call \in CallType, t = Attach(s, i, call), Effect(lines, i) = "call"
      PROVE  Goal
  <2>1. /\ t \in CodexState
        /\ t.current = IF s.current # 0 THEN s.current ELSE Len(s.entries) + 1
        /\ Follows(s, t, s.current = 0, i)
    BY <1>1, <1>3, AttachTyped
  <2> HIDE DEF t
  <2>2. Adds(Effect(lines, i), s.current) <=> s.current = 0
    BY <1>3 DEF Adds
  <2>3. t.current = CurrentAfter(Effect(lines, i), s.current, Len(s.entries))
    BY <1>3, <2>1 DEF CurrentAfter
  <2>4. Follows(s, t, Adds(Effect(lines, i), s.current), i)
    BY <2>1, <2>2 DEF Follows
  <2> QED
    BY <2>1, <2>3, <2>4
<1>4. ASSUME l.type = "message", l.role \in {"user", "assistant"}
      PROVE  Goal
  <2> DEFINE e == Entry(i, l.role, Text(l), l.omitted, <<>>)
             c == IF l.role = "assistant" THEN Len(s.entries) + 1 ELSE 0
  <2>1. t = [entries |-> Append(s.entries, e), current |-> c]
    BY <1>4 DEF CodexLine
  <2>2. e \in EntryType /\ e.id = i
    <3>1. Text(l) \in Seq(Unit) /\ <<>> \in Seq(CallType)
      BY <1>2, TextTyped, EmptySeq
    <3>2. i \in Nat /\ l.role \in {"user", "assistant"} /\ l.omitted \in Nat
      BY <1>1, <1>2, <1>4
    <3> HIDE DEF l
    <3> QED
      BY <3>1, <3>2, EntryTyped
  <2>3. c \in 0 .. Len(s.entries) + 1
    BY <1>1
  <2> HIDE DEF e, c, t
  <2>4. t \in CodexState /\ Follows(s, t, TRUE, i) /\ t.current = c
    BY <2>1, <2>2, <2>3, EntryAdded
  <2>5. Effect(lines, i) = l.role
    BY <1>4 DEF Effect
  <2>6. Adds(Effect(lines, i), s.current)
    BY <1>4, <2>5 DEF Adds
  <2>7. t.current = CurrentAfter(Effect(lines, i), s.current, Len(s.entries))
    BY <1>4, <2>4, <2>5 DEF CurrentAfter, c
  <2>8. Follows(s, t, Adds(Effect(lines, i), s.current), i)
    BY <2>4, <2>6 DEF Follows
  <2> QED
    BY <2>4, <2>7, <2>8
<1>5. ASSUME l.type = "call", id # NoId
      PROVE  Goal
  <2>1. t = Attach(s, i, CodexToolCall(lines, i))
    BY <1>5 DEF CodexLine
  <2>2. Effect(lines, i) = "call"
    BY <1>5 DEF Effect
  <2>3. CodexToolCall(lines, i) \in CallType
    BY CodexOutputTyped
  <2> QED
    BY <1>3, <2>1, <2>2, <2>3
<1>6. ASSUME l.type = "enrichment", id = NoId \/ CallAt(lines, id) = {}
      PROVE  Goal
  <2>1. t = Attach(s, i, [id |-> id, out |-> {i}])
    BY <1>6 DEF CodexLine
  <2>2. Effect(lines, i) = "call"
    BY <1>6 DEF Effect
  <2>3. [id |-> id, out |-> {i}] \in CallType
    BY <1>1, <1>2, FS_Singleton DEF CallType
  <2> QED
    BY <1>3, <2>1, <2>2, <2>3
<1>7. ASSUME ~(l.type = "message" /\ l.role \in {"user", "assistant"}),
             ~(l.type = "call" /\ id # NoId),
             ~(l.type = "enrichment" /\ (id = NoId \/ CallAt(lines, id) = {}))
      PROVE  Goal
  <2>1. t = s
    BY <1>7 DEF CodexLine
  <2>2. Effect(lines, i) = "none"
    BY <1>7 DEF Effect
  <2> HIDE DEF t
  <2>3. t.current = CurrentAfter(Effect(lines, i), s.current, Len(s.entries))
    BY <2>1, <2>2 DEF CurrentAfter
  <2>4. ~Adds(Effect(lines, i), s.current)
    BY <2>2 DEF Adds
  <2>5. Follows(s, t, Adds(Effect(lines, i), s.current), i)
    BY <1>1, <2>1, <2>4 DEF Follows
  <2> QED
    BY <2>1, <2>3, <2>5
<1> HIDE DEF Goal
<1>8. Goal
  BY <1>4, <1>5, <1>6, <1>7
<1> QED
  BY <1>8 DEF Goal

\* The states of the loop of buildCodex.
CodexBase == [entries |-> <<>>, current |-> 0]
CodexLoop(lines, g) ==
  g = [i \in 0 .. Len(lines) |-> IF i = 0 THEN CodexBase ELSE CodexLine(lines, g[i - 1], i)]
CodexStates(lines) == CHOOSE g : CodexLoop(lines, g)

LEMMA CodexBuilt ==
  ASSUME NEW lines \in Seq(CodexLineType)
  PROVE  /\ CodexStates(lines)[0] = CodexBase
         /\ \A i \in 1 .. Len(lines) : CodexStates(lines)[i] = CodexLine(lines, CodexStates(lines)[i - 1], i)
         /\ \A i \in 0 .. Len(lines) : CodexStates(lines)[i] \in CodexState
         /\ BuildCodex(lines) = CodexStates(lines)[Len(lines)].entries
<1> DEFINE N == Len(lines)
           S == CodexState
           step == [p \in (1 .. N) \X S |-> CodexLine(lines, p[2], p[1])]
           B == CodexStates(lines)
<1>1. N \in Nat
  BY LenProperties
<1>2. CodexBase \in S
  <2>1. <<>> \in Seq(EntryType) /\ Len(<<>>) = 0
    BY EmptySeq
  <2> QED
    BY <2>1 DEF CodexBase, CodexState
<1>3. \A i \in 1 .. N, t \in S : CodexLine(lines, t, i) \in S
  BY CodexStep
<1>4. step \in [(1 .. N) \X S -> S] /\ \A i \in 1 .. N, t \in S : step[<<i, t>>] = CodexLine(lines, t, i)
  BY <1>3
<1> HIDE DEF S, step
<1>5. \E g : CodexLoop(lines, g)
  <2>1. PICK g \in [0 .. N -> S] : Iterated(g, N, CodexBase, step)
    <3> HIDE DEF N
    <3> QED
      BY <1>1, <1>2, <1>4, Iterates
  <2>2. ASSUME NEW i \in 0 .. N
        PROVE  g[i] = IF i = 0 THEN CodexBase ELSE CodexLine(lines, g[i - 1], i)
    <3>1. CASE i = 0
      BY <2>1, <3>1 DEF Iterated
    <3>2. CASE i # 0
      <4>1. i \in 1 .. N /\ i - 1 \in 0 .. N
        BY <1>1, <3>2
      <4>2. g[i - 1] \in S
        BY <4>1
      <4> QED
        BY <1>4, <2>1, <3>2, <4>1, <4>2 DEF Iterated
    <3> QED
      BY <3>1, <3>2
  <2>3. g = [i \in 0 .. N |-> IF i = 0 THEN CodexBase ELSE CodexLine(lines, g[i - 1], i)]
    BY <2>2
  <2> QED
    BY <2>3 DEF CodexLoop
<1>6. CodexLoop(lines, B)
  BY <1>5 DEF CodexStates
<1>7. B[0] = CodexBase /\ \A i \in 1 .. N : B[i] = CodexLine(lines, B[i - 1], i)
  <2>1. B = [i \in 0 .. N |-> IF i = 0 THEN CodexBase ELSE CodexLine(lines, B[i - 1], i)]
    BY <1>6 DEF CodexLoop
  <2> HIDE DEF B, N
  <2> QED
    BY <1>1, <2>1
<1>8. \A i \in 0 .. N : B[i] \in S
  <2> HIDE DEF B, N
  <2>1. \A i \in 1 .. N : B[i - 1] \in S => B[i] \in S
    BY <1>3, <1>7
  <2> QED
    BY <1>1, <1>2, <1>7, <2>1, Along
<1>9. BuildCodex(lines) = B[N].entries
  BY DEF BuildCodex, CodexStates, CodexLoop, CodexBase
<1> QED
  BY <1>7, <1>8, <1>9 DEF S

-----------------------------------------------------------------------------
(* buildHistoryEntries: every entry fits; and when the file grows, the     *)
(* entries there were keep their places and ids.                           *)

LinesOf(by) == IF by = "claude" THEN ClaudeLines ELSE CodexLines
Raw(lines) == IF engine = "claude" THEN BuildClaude(lines) ELSE BuildCodex(lines)

LEMMA LinesTyped ==
  ASSUME engine \in {"claude", "codex"}, NEW lines \in Seq(LinesOf(engine))
  PROVE  /\ engine = "claude" => lines \in Seq(LineType)
         /\ engine = "codex" => lines \in Seq(CodexLineType)
<1>1. ClaudeLines \subseteq LineType /\ CodexLines \subseteq CodexLineType
  BY HistoryAssumption DEF CodexLineType
<1>2. CASE engine = "claude"
  <2>1. lines \in Seq(ClaudeLines)
    BY <1>2 DEF LinesOf
  <2>2. lines \in Seq(LineType)
    BY <1>1, <2>1, SeqMonotonic
  <2> QED
    BY <1>2, <2>2
<1>3. CASE engine = "codex"
  <2>1. lines \in Seq(CodexLines)
    BY <1>3 DEF LinesOf
  <2>2. lines \in Seq(CodexLineType)
    BY <1>1, <2>1, SeqMonotonic
  <2> QED
    BY <1>3, <2>2
<1> QED
  BY <1>2, <1>3

LEMMA RawTyped ==
  ASSUME engine \in {"claude", "codex"}, NEW lines \in Seq(LinesOf(engine))
  PROVE  Raw(lines) \in Seq(EntryType)
<1>1. CASE engine = "claude"
  BY <1>1, LinesTyped, ClaudeEntries DEF Raw
<1>2. CASE engine = "codex"
  <2>1. lines \in Seq(CodexLineType)
    BY <1>2, LinesTyped
  <2>2. Len(lines) \in 0 .. Len(lines)
    BY <2>1, LenProperties
  <2>3. CodexStates(lines)[Len(lines)] \in CodexState
    BY <2>1, <2>2, CodexBuilt
  <2>4. CodexStates(lines)[Len(lines)].entries \in Seq(EntryType)
    BY <2>3 DEF CodexState
  <2> QED
    BY <1>2, <2>1, <2>4, CodexBuilt DEF Raw
<1> QED
  BY <1>1, <1>2

LEMMA EntriesFit ==
  ASSUME engine \in {"claude", "codex"}, NEW lines \in Seq(LinesOf(engine))
  PROVE  /\ BuildEntries(lines) \in Seq(EntryType)
         /\ Len(BuildEntries(lines)) = Len(Raw(lines)) /\ Len(Raw(lines)) \in Nat
         /\ \A n \in 1 .. Len(Raw(lines)) : /\ Fits(BuildEntries(lines)[n])
                                            /\ BuildEntries(lines)[n].id = Raw(lines)[n].id
<1> DEFINE raw == Raw(lines)
           all == [n \in 1 .. Len(raw) |-> BoundEntry(raw[n])]
<1>1. raw \in Seq(EntryType) /\ Len(raw) \in Nat
  BY RawTyped, LenProperties
<1>2. BuildEntries(lines) = all
  BY DEF BuildEntries, Raw
<1> HIDE DEF raw
<1>3. ASSUME NEW n \in 1 .. Len(raw)
      PROVE  BoundEntry(raw[n]) \in EntryType /\ BoundEntry(raw[n]).id = raw[n].id /\ Fits(BoundEntry(raw[n]))
  <2>1. raw[n] \in EntryType
    BY <1>1, ElementOfSeq
  <2> QED
    BY <2>1, Bounded
<1>4. all \in [1 .. Len(raw) -> EntryType] /\ \A n \in 1 .. Len(raw) : all[n] = BoundEntry(raw[n])
  BY <1>3
<1> HIDE DEF all
<1>5. all \in Seq(EntryType) /\ Len(all) = Len(raw)
  BY <1>1, <1>4, FunctionIsSeq
<1> QED
  BY <1>1, <1>2, <1>3, <1>4, <1>5 DEF raw

\* es and the beginning of fs have the same ids.
Begins(es, fs) == Len(es) <= Len(fs) /\ \A n \in 1 .. Len(es) : fs[n].id = es[n].id

\* The n-th of A is the n-th of B.
KeepsNth(A, B) ==
  /\ Cardinality(A) \in Nat /\ Cardinality(B) \in Nat /\ Cardinality(A) <= Cardinality(B)
  /\ \A n \in 1 .. Cardinality(A) : Nth(B, n) = Nth(A, n)

\* The n-th of some positions stays the n-th when one behind them all is added.
LEMMA NthStable ==
  ASSUME NEW N \in Nat, NEW A, A \subseteq 1 .. N, NEW B, B = A \/ B = A \cup {N + 1}
  PROVE  KeepsNth(A, B)
<1>1. \A q \in A : q \in Nat /\ q <= N
  OBVIOUS
<1>2. IsFiniteSet(A) /\ N + 1 \notin A
  <2>1. IsFiniteSet(1 .. N)
    BY IntervalFinite
  <2>2. A \in SUBSET (1 .. N)
    OBVIOUS
  <2>3. IsFiniteSet(A)
    BY <2>1, <2>2, FS_Subset
  <2>4. N + 1 \notin A
    BY <1>1
  <2> QED
    BY <2>3, <2>4
<1>3. Cardinality(A) \in Nat
  BY <1>2, FS_CardinalityType
<1>4. CASE B = A
  BY <1>3, <1>4 DEF KeepsNth
<1>5. CASE B = A \cup {N + 1}
  <2>1. Cardinality(B) = Cardinality(A) + 1
    BY <1>2, <1>5, FS_AddElement
  <2>2. ASSUME NEW p \in A
        PROVE  {q \in B : q <= p} = {q \in A : q <= p}
    <3>1. ~(N + 1 <= p)
      BY <1>1
    <3> QED
      BY <1>5, <3>1
  <2>3. {q \in B : q <= N + 1} = B
    <3>1. \A q \in A : q <= N + 1
      BY <1>1
    <3>2. N + 1 <= N + 1
      OBVIOUS
    <3> QED
      BY <1>5, <3>1, <3>2
  <2>4. ASSUME NEW n \in 1 .. Cardinality(A)
        PROVE  Nth(B, n) = Nth(A, n)
    <3>1. Cardinality({q \in B : q <= N + 1}) # n
      <4>1. Cardinality(B) # n
        BY <1>3, <2>1
      <4> QED
        BY <4>1, <2>3
    <3>2. \A p \in A : Cardinality({q \in B : q <= p}) = Cardinality({q \in A : q <= p})
      BY <2>2
    <3>3. \A p : p \in Nth(B, n) <=> p \in Nth(A, n)
      <4>1. ASSUME NEW p \in A
            PROVE  p \in Nth(B, n) <=> p \in Nth(A, n)
        BY <1>5, <3>2 DEF Nth
      <4>2. N + 1 \notin Nth(B, n)
        BY <3>1 DEF Nth
      <4>3. \A p : p \notin A /\ p # N + 1 => p \notin Nth(B, n)
        BY <1>5 DEF Nth
      <4>4. \A p : p \notin A => p \notin Nth(A, n)
        BY DEF Nth
      <4> QED
        BY <4>1, <4>2, <4>3, <4>4
    <3>4. Nth(B, n) \subseteq Nth(A, n) /\ Nth(A, n) \subseteq Nth(B, n)
      BY <3>3
    <3> QED
      BY <3>4
  <2> QED
    BY <1>3, <2>1, <2>4 DEF KeepsNth
<1> QED
  BY <1>4, <1>5

LEMMA ClaudeStable ==
  ASSUME NEW lines \in Seq(LineType), NEW l \in LineType
  PROVE  Begins(BuildClaude(lines), BuildClaude(Append(lines, l)))
<1> DEFINE more == Append(lines, l)
           N == Len(lines)
           A == EntryLines(lines)
           B == EntryLines(more)
<1>1. /\ N \in Nat /\ more \in Seq(LineType) /\ Len(more) = N + 1
      /\ \A i \in 1 .. N : more[i] = lines[i]
  BY AppendProperties, LenProperties
<1> HIDE DEF more, N
<1>2. A \subseteq 1 .. N
  BY DEF EntryLines, N
<1>3. B = A \/ B = A \cup {N + 1}
  <2>1. \A i \in 1 .. N : i \in B <=> i \in A
    BY <1>1 DEF EntryLines, N
  <2>2. B \subseteq 1 .. N + 1
    BY <1>1 DEF EntryLines
  <2>3. \A i \in B : i \in 1 .. N \/ i = N + 1
    BY <1>1, <2>2
  <2> HIDE DEF A, B
  <2> QED
    BY <1>2, <2>1, <2>3
<1>4. /\ Cardinality(A) \in Nat /\ Cardinality(B) \in Nat /\ Cardinality(A) <= Cardinality(B)
      /\ \A n \in 1 .. Cardinality(A) : Nth(B, n) = Nth(A, n)
  <2> HIDE DEF A, B
  <2>1. N \in Nat
    BY <1>1
  <2>2. KeepsNth(A, B)
    BY <2>1, <1>2, <1>3, NthStable
  <2> QED
    BY <2>2 DEF KeepsNth
<1>5. /\ Len(BuildClaude(lines)) = Cardinality(A)
      /\ \A n \in 1 .. Cardinality(A) : BuildClaude(lines)[n].id = CHOOSE i \in Nth(A, n) : TRUE
  BY ClaudeEntries
<1>6. /\ Len(BuildClaude(more)) = Cardinality(B)
      /\ \A n \in 1 .. Cardinality(B) : BuildClaude(more)[n].id = CHOOSE i \in Nth(B, n) : TRUE
  BY <1>1, ClaudeEntries
<1> HIDE DEF A, B
<1>7. ASSUME NEW n \in 1 .. Cardinality(A)
      PROVE  BuildClaude(more)[n].id = BuildClaude(lines)[n].id
  <2>1. n \in 1 .. Cardinality(B) /\ Nth(B, n) = Nth(A, n)
    BY <1>4
  <2>2. BuildClaude(more)[n].id = CHOOSE i \in Nth(B, n) : TRUE
    BY <1>6, <2>1
  <2>3. BuildClaude(lines)[n].id = CHOOSE i \in Nth(A, n) : TRUE
    BY <1>5
  <2> QED
    BY <2>1, <2>2, <2>3
<1> QED
  BY <1>4, <1>5, <1>6, <1>7 DEF Begins, more

\* A call that is appended takes over the enrichments that name it; what the other
\* records do is not changed by a later one.
TakesOver(lines, l, i) ==
  l.type = "call" /\ l.uses[1] # NoId /\ i \in EnrichmentAt(lines, l.uses[1])

LEMMA EffectStable ==
  ASSUME NEW lines \in Seq(CodexLineType), NEW l \in CodexLineType, NEW i \in 1 .. Len(lines)
  PROVE  \/ Effect(Append(lines, l), i) = Effect(lines, i)
         \/ TakesOver(lines, l, i) /\ Effect(lines, i) = "call" /\ Effect(Append(lines, l), i) = "none"
<1> DEFINE more == Append(lines, l)
           id == lines[i].uses[1]
<1>1. /\ Len(lines) \in Nat /\ Len(more) = Len(lines) + 1 /\ more[Len(lines) + 1] = l
      /\ \A k \in 1 .. Len(lines) : more[k] = lines[k]
  BY AppendProperties, LenProperties
<1> HIDE DEF more
<1>2. more[i] = lines[i]
  BY <1>1
<1>3. CASE lines[i].type # "enrichment" \/ id = NoId
  <2>1. Effect(more, i) = Effect(lines, i)
    BY <1>2, <1>3 DEF Effect
  <2> QED
    BY <2>1 DEF more
<1>4. CASE lines[i].type = "enrichment" /\ id # NoId
  <2>0. lines[i].uses = <<id>>
    <3>1. lines[i] \in CodexLineType
      BY ElementOfSeq
    <3>2. lines[i].uses \in Seq(STRING) /\ Len(lines[i].uses) = 1
      BY <3>1 DEF CodexLineType, LineType
    <3> QED
      BY <3>2
  <2>1. CASE l.type = "call" /\ l.uses[1] = id
    <3>1. i \in EnrichmentAt(lines, id)
      BY <1>4, <2>0 DEF EnrichmentAt
    <3>2. TakesOver(lines, l, i)
      BY <1>4, <2>1, <3>1 DEF TakesOver
    <3>3. Effect(more, i) \in {"call", "none"} /\ Effect(lines, i) \in {"call", "none"}
      BY <1>2, <1>4 DEF Effect
    <3>4. Effect(more, i) = "none"
      <4>1. l.uses = <<id>>
        <5>1. l.uses \in Seq(STRING) /\ Len(l.uses) = 1
          BY DEF CodexLineType, LineType
        <5> QED
          BY <2>1, <5>1
      <4>2. Len(lines) + 1 \in CallAt(more, id)
        BY <1>1, <2>1, <4>1 DEF CallAt
      <4> QED
        BY <1>2, <1>4, <4>2 DEF Effect
    <3> QED
      BY <3>2, <3>3, <3>4 DEF more
  <2>2. CASE ~(l.type = "call" /\ l.uses[1] = id)
    <3>1. ~(l.type = "call" /\ l.uses = <<id>>)
      BY <2>2
    <3>2. CallAt(more, id) = {k \in 1 .. Len(lines) + 1 : more[k].type = "call" /\ more[k].uses = <<id>>}
      BY <1>1 DEF CallAt
    <3>3. \A k \in 1 .. Len(lines) + 1 : k \in 1 .. Len(lines) \/ k = Len(lines) + 1
      BY <1>1
    <3>4. \A k \in 1 .. Len(lines) : k \in 1 .. Len(lines) + 1
      BY <1>1
    <3> HIDE DEF id
    <3>5. CallAt(more, id) = CallAt(lines, id)
      BY <1>1, <3>1, <3>2, <3>3, <3>4 DEF CallAt
    <3>6. Effect(more, i) = Effect(lines, i)
      BY <1>2, <1>4, <3>5 DEF Effect, id
    <3> QED
      BY <3>6 DEF more
  <2> QED
    BY <2>1, <2>2
<1> QED
  BY <1>3, <1>4

\* An entry that a record adds stays in the list.
LEMMA EntryStays ==
  ASSUME NEW lines \in Seq(CodexLineType), NEW k \in 1 .. Len(lines),
         Adds(Effect(lines, k), CodexStates(lines)[k - 1].current)
  PROVE  \E n \in 1 .. Len(BuildCodex(lines)) : BuildCodex(lines)[n].id = k
<1> DEFINE N == Len(lines)
           g == CodexStates(lines)
           T == {i \in 0 .. N : i < k \/ \E n \in 1 .. Len(g[i].entries) : g[i].entries[n].id = k}
<1>1. N \in Nat /\ k \in 1 .. N
  BY LenProperties
<1>2. /\ \A i \in 1 .. N : g[i] = CodexLine(lines, g[i - 1], i)
      /\ \A i \in 0 .. N : g[i] \in CodexState
      /\ BuildCodex(lines) = g[N].entries
  BY CodexBuilt
<1>3. Adds(Effect(lines, k), g[k - 1].current)
  OBVIOUS
<1> HIDE DEF g
<1>4. 0 \in T
  BY <1>1
<1>5. ASSUME NEW i \in 1 .. N, i - 1 \in T
      PROVE  i \in T
  <2>1. i - 1 \in 0 .. N /\ i \in 0 .. N /\ g[i - 1] \in CodexState
    BY <1>1, <1>2
  <2>2. Follows(g[i - 1], g[i], Adds(Effect(lines, i), g[i - 1].current), i)
    <3>1. i \in 1 .. Len(lines) /\ g[i] = CodexLine(lines, g[i - 1], i)
      BY <1>2
    <3> QED
      BY <2>1, <3>1, CodexStep
  <2> DEFINE L == Len(g[i - 1].entries)
  <2>3. L \in Nat
    BY <2>1, LenProperties DEF CodexState
  <2>4. CASE i < k
    BY <2>1, <2>4
  <2>5. CASE i = k
    <3>1. Len(g[i].entries) = L + 1 /\ g[i].entries[L + 1].id = k
      BY <1>3, <2>2, <2>5 DEF Follows
    <3> HIDE DEF L
    <3> QED
      BY <2>1, <2>3, <3>1
  <2>6. CASE k < i
    <3>1. PICK n \in 1 .. L : g[i - 1].entries[n].id = k
      BY <1>1, <1>5, <2>6
    <3>2. g[i].entries[n].id = k
      BY <2>2, <3>1 DEF Follows
    <3>3. Len(g[i].entries) = L \/ Len(g[i].entries) = L + 1
      <4> DEFINE adds == Adds(Effect(lines, i), g[i - 1].current)
                 M == Len(g[i].entries)
      <4>1. M = L + (IF adds THEN 1 ELSE 0)
        BY <2>2 DEF Follows
      <4> HIDE DEF adds, L, M
      <4>2. M = L \/ M = L + 1
        BY <2>3, <4>1
      <4> QED
        BY <4>2 DEF M
    <3> HIDE DEF L
    <3>4. n \in 1 .. Len(g[i].entries)
      BY <2>3, <3>1, <3>3
    <3> QED
      BY <2>1, <3>2, <3>4
  <2> QED
    BY <1>1, <2>4, <2>5, <2>6
<1>6. N \in T
  <2>1. 0 .. N \subseteq T
    <3> HIDE DEF T
    <3> QED
      BY <1>1, <1>4, <1>5, Upto
  <2>2. N \in 0 .. N
    BY <1>1
  <2> QED
    BY <2>1, <2>2
<1> QED
  BY <1>1, <1>2, <1>6

\* Two states of the loop with the same entries, in calls perhaps different ones.
Same(s, t) ==
  /\ t.current = s.current /\ Len(t.entries) = Len(s.entries)
  /\ \A n \in 1 .. Len(s.entries) : t.entries[n].id = s.entries[n].id

LEMMA SameStep ==
  ASSUME NEW s \in CodexState, NEW t \in CodexState, NEW s2, NEW t2, NEW e, NEW i,
         Same(s, t),
         Follows(s, s2, Adds(e, s.current), i), Follows(t, t2, Adds(e, t.current), i),
         s2.current = CurrentAfter(e, s.current, Len(s.entries)),
         t2.current = CurrentAfter(e, t.current, Len(t.entries))
  PROVE  Same(s2, t2)
<1> DEFINE adds == Adds(e, s.current)
           L == Len(s.entries)
<1>1. L \in Nat /\ Len(t.entries) = L /\ t.current = s.current
  BY LenProperties DEF Same, CodexState
<1>2. s2.current = t2.current
  BY <1>1
<1>3. /\ \A n \in 1 .. L : t.entries[n].id = s.entries[n].id
      /\ \A n \in 1 .. L : s2.entries[n].id = s.entries[n].id
      /\ \A n \in 1 .. L : t2.entries[n].id = t.entries[n].id
  BY <1>1 DEF Same, Follows
<1>4. /\ Len(s2.entries) = L + (IF adds THEN 1 ELSE 0)
      /\ Len(t2.entries) = L + (IF adds THEN 1 ELSE 0)
      /\ adds => s2.entries[L + 1].id = i /\ t2.entries[L + 1].id = i
  BY <1>1 DEF Follows
<1> HIDE DEF adds, L
<1>5. Len(t2.entries) = Len(s2.entries)
  BY <1>4
<1>6. ASSUME NEW n \in 1 .. Len(s2.entries)
      PROVE  t2.entries[n].id = s2.entries[n].id
  <2>1. CASE n \in 1 .. L
    BY <1>3, <2>1
  <2>2. CASE n \notin 1 .. L
    <3>1. adds /\ n = L + 1
      <4>1. CASE adds
        <5>1. Len(s2.entries) = L + 1
          BY <1>4, <4>1
        <5> QED
          BY <1>1, <2>2, <4>1, <5>1
      <4>2. CASE ~adds
        <5>1. Len(s2.entries) = L
          BY <1>1, <1>4, <4>2
        <5> QED
          BY <2>2, <5>1
      <4> QED
        BY <4>1, <4>2
    <3> QED
      BY <1>4, <3>1
  <2> QED
    BY <2>1, <2>2
<1> QED
  BY <1>2, <1>5, <1>6 DEF Same

\* A record that hangs on the current entry, or does nothing.
LEMMA SkipStep ==
  ASSUME NEW s \in CodexState, NEW t \in CodexState, NEW s2, NEW t2, NEW i, Same(s, t),
         Follows(s, s2, FALSE, i), Follows(t, t2, FALSE, i), s2.current = s.current, t2.current = t.current
  PROVE  Same(s2, t2)
<1> DEFINE L == Len(s.entries)
<1>1. L \in Nat /\ Len(t.entries) = L /\ t.current = s.current
  BY LenProperties DEF Same, CodexState
<1>2. /\ \A n \in 1 .. L : t.entries[n].id = s.entries[n].id
      /\ \A n \in 1 .. L : s2.entries[n].id = s.entries[n].id
      /\ \A n \in 1 .. L : t2.entries[n].id = t.entries[n].id
  BY <1>1 DEF Same, Follows
<1>3. Len(s2.entries) = L /\ Len(t2.entries) = L
  BY <1>1 DEF Follows
<1> HIDE DEF L
<1> QED
  BY <1>1, <1>2, <1>3 DEF Same

\* No enrichment that the record takes over had an entry of its own.
TakesNone(entries, lines, l) ==
  l.type = "call" /\ l.uses[1] # NoId =>
    \A n \in 1 .. Len(entries) : entries[n].id \notin EnrichmentAt(lines, l.uses[1])

LEMMA CodexStable ==
  ASSUME NEW lines \in Seq(CodexLineType), NEW l \in CodexLineType, TakesNone(BuildCodex(lines), lines, l)
  PROVE  Begins(BuildCodex(lines), BuildCodex(Append(lines, l)))
<1> DEFINE more == Append(lines, l)
           N == Len(lines)
           g == CodexStates(lines)
           h == CodexStates(more)
           T == {i \in 0 .. N : Same(g[i], h[i])}
<1>1. /\ N \in Nat /\ more \in Seq(CodexLineType) /\ Len(more) = N + 1
  BY AppendProperties, LenProperties
<1>2. \A i \in 1 .. N : \/ Effect(more, i) = Effect(lines, i)
                        \/ /\ Effect(lines, i) = "call" /\ Effect(more, i) = "none"
                           /\ ~Adds(Effect(lines, i), CodexStates(lines)[i - 1].current)
  <2> SUFFICES ASSUME NEW i \in 1 .. N, TakesOver(lines, l, i),
                      Adds(Effect(lines, i), CodexStates(lines)[i - 1].current)
               PROVE  FALSE
    BY EffectStable
  <2>1. \E n \in 1 .. Len(BuildCodex(lines)) : BuildCodex(lines)[n].id = i
    BY EntryStays
  <2> QED
    BY <2>1 DEF TakesOver, TakesNone
<1>3. /\ g[0] = CodexBase
      /\ \A i \in 1 .. N : g[i] = CodexLine(lines, g[i - 1], i)
      /\ \A i \in 0 .. N : g[i] \in CodexState
      /\ BuildCodex(lines) = g[N].entries
  BY CodexBuilt
<1>4. /\ h[0] = CodexBase
      /\ \A i \in 1 .. N + 1 : h[i] = CodexLine(more, h[i - 1], i)
      /\ \A i \in 0 .. N + 1 : h[i] \in CodexState
      /\ BuildCodex(more) = h[N + 1].entries
  BY <1>1, CodexBuilt
<1> HIDE DEF more, g, h, N
<1>5. 0 \in T
  BY <1>1, <1>3, <1>4 DEF Same
<1>6. ASSUME NEW i \in 1 .. N, i - 1 \in T
      PROVE  i \in T
  <2>1. i - 1 \in 0 .. N /\ i - 1 \in 0 .. N + 1 /\ i \in 1 .. N + 1 /\ i \in 0 .. N
    BY <1>1
  <2>2. g[i - 1] \in CodexState /\ h[i - 1] \in CodexState /\ Same(g[i - 1], h[i - 1])
    BY <1>3, <1>4, <1>6, <2>1
  <2>3. g[i] = CodexLine(lines, g[i - 1], i) /\ h[i] = CodexLine(more, h[i - 1], i)
    BY <1>3, <1>4, <2>1
  <2>4. /\ g[i].current = CurrentAfter(Effect(lines, i), g[i - 1].current, Len(g[i - 1].entries))
        /\ Follows(g[i - 1], g[i], Adds(Effect(lines, i), g[i - 1].current), i)
    BY <2>2, <2>3, CodexStep DEF N
  <2>5. /\ h[i].current = CurrentAfter(Effect(more, i), h[i - 1].current, Len(h[i - 1].entries))
        /\ Follows(h[i - 1], h[i], Adds(Effect(more, i), h[i - 1].current), i)
    <3>1. i \in 1 .. Len(more) /\ more \in Seq(CodexLineType)
      BY <1>1, <2>1
    <3>2. h[i - 1] \in CodexState /\ h[i] = CodexLine(more, h[i - 1], i)
      BY <2>2, <2>3
    <3>3. /\ CodexLine(more, h[i - 1], i).current = CurrentAfter(Effect(more, i), h[i - 1].current, Len(h[i - 1].entries))
          /\ Follows(h[i - 1], CodexLine(more, h[i - 1], i), Adds(Effect(more, i), h[i - 1].current), i)
      BY <3>1, <3>2, CodexStep
    <3> QED
      BY <3>2, <3>3
  <2>6. CASE Effect(more, i) = Effect(lines, i)
    <3>1. Same(g[i], h[i])
      BY <2>2, <2>4, <2>5, <2>6, SameStep
    <3> QED
      BY <2>1, <3>1
  <2>7. CASE Effect(more, i) # Effect(lines, i)
    <3>1. /\ Effect(lines, i) = "call" /\ Effect(more, i) = "none"
          /\ ~Adds(Effect(lines, i), g[i - 1].current)
      BY <1>2, <2>7 DEF g
    <3>2. g[i - 1].current # 0 /\ ~Adds(Effect(more, i), h[i - 1].current)
      BY <3>1 DEF Adds
    <3>3. g[i].current = g[i - 1].current /\ h[i].current = h[i - 1].current
      BY <2>4, <2>5, <3>1, <3>2 DEF CurrentAfter
    <3>4. Follows(g[i - 1], g[i], FALSE, i) /\ Follows(h[i - 1], h[i], FALSE, i)
      BY <2>4, <2>5, <3>1, <3>2 DEF Follows
    <3>5. Same(g[i], h[i])
      BY <2>2, <3>3, <3>4, SkipStep
    <3> QED
      BY <2>1, <3>5
  <2> QED
    BY <2>6, <2>7
<1>7. Same(g[N], h[N])
  <2>1. 0 .. N \subseteq T
    <3> HIDE DEF T
    <3> QED
      BY <1>1, <1>5, <1>6, Upto
  <2>2. N \in 0 .. N
    BY <1>1
  <2>3. N \in T
    BY <2>1, <2>2
  <2> QED
    BY <2>3
<1>8. Follows(h[N], h[N + 1], Adds(Effect(more, N + 1), h[N].current), N + 1)
  <2>1. N + 1 \in 1 .. Len(more) /\ N + 1 \in 1 .. N + 1 /\ N \in 0 .. N + 1 /\ (N + 1) - 1 = N
    BY <1>1
  <2>2. h[N + 1] = CodexLine(more, h[N], N + 1) /\ h[N] \in CodexState
    BY <1>4, <2>1
  <2> QED
    BY <1>1, <2>1, <2>2, CodexStep
<1>9. Begins(g[N].entries, h[N + 1].entries)
  <2> DEFINE L == Len(g[N].entries)
  <2>1. L \in Nat
    <3>1. g[N] \in CodexState
      BY <1>1, <1>3
    <3> QED
      BY <3>1, LenProperties DEF CodexState
  <2>2. Len(h[N].entries) = L /\ \A n \in 1 .. L : h[N].entries[n].id = g[N].entries[n].id
    BY <1>7 DEF Same
  <2> HIDE DEF L
  <2>3. \A n \in 1 .. L : h[N + 1].entries[n].id = h[N].entries[n].id
    BY <1>8, <2>2 DEF Follows
  <2>4. Len(h[N + 1].entries) = L \/ Len(h[N + 1].entries) = L + 1
    BY <1>8, <2>1, <2>2 DEF Follows
  <2> QED
    BY <2>1, <2>2, <2>3, <2>4 DEF Begins, L
<1> QED
  BY <1>3, <1>4, <1>9 DEF more

LEMMA EntriesStable ==
  ASSUME engine \in {"claude", "codex"}, NEW lines \in Seq(LinesOf(engine)), NEW l \in LinesOf(engine),
         TakesNone(BuildEntries(lines), lines, l)
  PROVE  Begins(BuildEntries(lines), BuildEntries(Append(lines, l)))
<1> DEFINE more == Append(lines, l)
<1>1. more \in Seq(LinesOf(engine))
  BY AppendProperties
<1>2. Begins(Raw(lines), Raw(more))
  <2>1. CASE engine = "claude"
    <3>1. lines \in Seq(LineType) /\ l \in LineType
      <4>1. LinesOf(engine) = ClaudeLines /\ ClaudeLines \subseteq LineType
        BY <2>1, HistoryAssumption DEF LinesOf
      <4> QED
        BY <2>1, <4>1, LinesTyped
    <3> QED
      BY <2>1, <3>1, ClaudeStable DEF Raw
  <2>2. CASE engine = "codex"
    <3>1. lines \in Seq(CodexLineType) /\ l \in CodexLineType
      <4>1. LinesOf(engine) = CodexLines /\ CodexLines \subseteq CodexLineType
        BY <2>2, HistoryAssumption DEF LinesOf, CodexLineType
      <4> QED
        BY <2>2, <4>1, LinesTyped
    <3>2. Raw(lines) = BuildCodex(lines) /\ Raw(more) = BuildCodex(more)
      BY <2>2 DEF Raw
    <3>3. TakesNone(BuildCodex(lines), lines, l)
      <4>1. /\ Len(BuildEntries(lines)) = Len(BuildCodex(lines))
            /\ \A n \in 1 .. Len(BuildCodex(lines)) : BuildEntries(lines)[n].id = BuildCodex(lines)[n].id
        BY <3>2, EntriesFit
      <4> QED
        BY <4>1 DEF TakesNone
    <3> QED
      BY <3>1, <3>2, <3>3, CodexStable
  <2> QED
    BY <2>1, <2>2
<1> HIDE DEF more
<1>3. /\ Len(BuildEntries(lines)) = Len(Raw(lines)) /\ Len(Raw(lines)) \in Nat
      /\ \A n \in 1 .. Len(Raw(lines)) : BuildEntries(lines)[n].id = Raw(lines)[n].id
  BY EntriesFit
<1>4. /\ Len(BuildEntries(more)) = Len(Raw(more)) /\ Len(Raw(more)) \in Nat
      /\ \A n \in 1 .. Len(Raw(more)) : BuildEntries(more)[n].id = Raw(more)[n].id
  BY <1>1, EntriesFit
<1>5. /\ Len(Raw(lines)) <= Len(Raw(more))
      /\ \A n \in 1 .. Len(Raw(lines)) : Raw(more)[n].id = Raw(lines)[n].id
  BY <1>2 DEF Begins
<1>6. ASSUME NEW n \in 1 .. Len(Raw(lines))
      PROVE  BuildEntries(more)[n].id = BuildEntries(lines)[n].id
  <2>1. n \in 1 .. Len(Raw(more))
    BY <1>3, <1>4, <1>5
  <2> QED
    BY <1>3, <1>4, <1>5, <2>1
<1> QED
  BY <1>3, <1>4, <1>5, <1>6 DEF Begins, more

-----------------------------------------------------------------------------
(* paginateHistory: there is a page, and it fits the frame.                *)

LEMMA PageIsSummed ==
  ASSUME NEW entries \in Seq(EntryType), NEW b \in 0 .. Len(entries), NEW s \in 0 .. b
  PROVE  /\ PageBytes(entries, s, b) \in Int
         /\ s = b => PageBytes(entries, s, b) = 0
         /\ s + 1 = b => PageBytes(entries, s, b) = EntryBytes(entries[b])
<1> DEFINE D == s + 1 .. b
           f == [i \in D |-> EntryBytes(entries[i])]
<1>1. Len(entries) \in Nat /\ b \in Nat /\ s \in Nat
  BY LenProperties
<1>2. IsFiniteSet(D)
  BY <1>1, IntervalFinite
<1>3. f \in [D -> Int]
  <2> SUFFICES ASSUME NEW i \in D PROVE EntryBytes(entries[i]) \in Int
    OBVIOUS
  <2>1. i \in 1 .. Len(entries)
    BY <1>1
  <2>2. entries[i] \in EntryType
    BY <2>1, ElementOfSeq
  <2> QED
    BY <2>2, EntryHasSize
<1>4. PageBytes(entries, s, b) = SumFunction(f)
  BY DEF PageBytes
<1>5. s = b => D = {}
  BY <1>1
<1>6. s + 1 = b => D = {b} /\ f[b] = EntryBytes(entries[b])
  BY <1>1
<1> HIDE DEF D, f
<1>7. /\ SumFunction(f) \in Int
      /\ D = {} => SumFunction(f) = 0
      /\ \A x : D = {x} => SumFunction(f) = f[x]
  BY <1>2, <1>3, Sums
<1>8. s = b => SumFunction(f) = 0
  BY <1>5, <1>7
<1>9. s + 1 = b => SumFunction(f) = EntryBytes(entries[b])
  BY <1>6, <1>7
<1> HIDE DEF PageBytes
<1> QED
  BY <1>4, <1>7, <1>8, <1>9

LEMMA PageFound ==
  ASSUME NEW entries \in Seq(EntryType), \A n \in 1 .. Len(entries) : Fits(entries[n]),
         NEW b \in 0 .. Len(entries), NEW limit \in Limits
  PROVE  /\ PageStart(entries, b, limit) \in 0 .. b
         /\ PageBytes(entries, PageStart(entries, b, limit), b) \in Int
         /\ PageBytes(entries, PageStart(entries, b, limit), b) <= FrameBudget
<1> DEFINE Holds == {s \in 0 .. b : /\ b - s <= ClampLimit(limit)
                                    /\ b - s <= 1 \/ PageBytes(entries, s, b) <= FrameBudget}
           start == PageStart(entries, b, limit)
<1>1. Len(entries) \in Nat /\ b \in Nat
  BY LenProperties
<1>2. ClampLimit(limit) \in Nat
  BY MinOfTwo, HistoryAssumption DEF ClampLimit
<1>3. b \in Holds /\ Holds \subseteq Nat
  BY <1>1, <1>2
<1>4. start \in Holds
  <2> HIDE DEF Holds
  <2>1. \E x \in Holds : \A y \in Holds : x <= y
    BY <1>3, Least
  <2>2. Min(Holds) \in Holds
    BY <2>1 DEF Min
  <2> QED
    BY <2>2 DEF PageStart, Holds
<1>5. start \in 0 .. b /\ (b - start <= 1 \/ PageBytes(entries, start, b) <= FrameBudget)
  BY <1>4
<1> HIDE DEF start
<1>6. /\ PageBytes(entries, start, b) \in Int
      /\ start = b => PageBytes(entries, start, b) = 0
      /\ start + 1 = b => PageBytes(entries, start, b) = EntryBytes(entries[b])
  BY <1>5, PageIsSummed
<1>7. PageBytes(entries, start, b) <= FrameBudget
  <2>1. FrameBudget \in Nat /\ EntryMax \in Nat /\ EntryMax <= FrameBudget
    BY HistoryAssumption
  <2>2. CASE start = b
    BY <1>6, <2>1, <2>2
  <2>3. CASE start + 1 = b
    <3>1. b \in 1 .. Len(entries) /\ entries[b] \in EntryType
      <4>1. b \in 1 .. Len(entries)
        BY <1>1, <1>5, <2>3
      <4> QED
        BY <4>1, ElementOfSeq
    <3>2. EntryBytes(entries[b]) \in Int /\ EntryBytes(entries[b]) <= EntryMax
      BY <3>1, EntryHasSize DEF Fits
    <3> QED
      BY <1>6, <2>1, <2>3, <3>2
  <2>4. start = b \/ start + 1 = b \/ ~(b - start <= 1)
    BY <1>1, <1>5
  <2> QED
    BY <1>5, <2>2, <2>3, <2>4
<1> QED
  BY <1>5, <1>6, <1>7 DEF start

\* The ids of a page, before those of the pages behind it.
LEMMA PageAdded ==
  ASSUME NEW entries \in Seq(EntryType), NEW G \in Seq(Nat), Len(G) <= Len(entries),
         \A n \in 1 .. Len(G) : entries[n].id = G[n],
         NEW b \in 0 .. Len(G), NEW s \in 0 .. b
  PROVE  Ids(SubSeq(entries, s + 1, b)) \o SubSeq(G, b + 1, Len(G)) = SubSeq(G, s + 1, Len(G))
<1> DEFINE page == SubSeq(entries, s + 1, b)
           part == SubSeq(G, s + 1, b)
<1>1. Len(G) \in Nat /\ b \in Nat /\ s \in Nat /\ Len(entries) \in Nat
  BY LenProperties
<1>2. Len(page) = b - s /\ \A i \in 1 .. b - s : page[i] = entries[s + i]
  <2>1. \A i \in s + 1 .. b : entries[i] \in EntryType
    BY <1>1, ElementOfSeq
  <2>2. s + 1 \in Int /\ b \in Int /\ b - (s + 1) + 1 = b - s /\ \A i \in 1 .. b - s : (s + 1) + i - 1 = s + i
    BY <1>1
  <2>3. Len(page) = (IF s + 1 <= b THEN b - (s + 1) + 1 ELSE 0)
    BY <2>1, <2>2, SubSeqProperties
  <2>4. \A i \in 1 .. b - (s + 1) + 1 : page[i] = entries[(s + 1) + i - 1]
    BY <2>1, <2>2, SubSeqProperties
  <2>5. Len(page) = b - s
    BY <1>1, <2>3
  <2> QED
    BY <2>2, <2>4, <2>5
<1>3. part \in Seq(Nat) /\ Len(part) = b - s /\ \A i \in 1 .. b - s : part[i] = G[s + i]
  <2>1. \A i \in s + 1 .. b : G[i] \in Nat
    BY <1>1, ElementOfSeq
  <2>2. s + 1 \in Int /\ b \in Int /\ b - (s + 1) + 1 = b - s /\ \A i \in 1 .. b - s : (s + 1) + i - 1 = s + i
    BY <1>1
  <2>3. part \in Seq(Nat) /\ Len(part) = (IF s + 1 <= b THEN b - (s + 1) + 1 ELSE 0)
    BY <2>1, <2>2, SubSeqProperties
  <2>4. \A i \in 1 .. b - (s + 1) + 1 : part[i] = G[(s + 1) + i - 1]
    BY <2>1, <2>2, SubSeqProperties
  <2>5. Len(part) = b - s
    BY <1>1, <2>3
  <2> QED
    BY <2>2, <2>3, <2>4, <2>5
<1> HIDE DEF page, part
<1>4. \A i \in 1 .. b - s : page[i].id = part[i]
  <2> SUFFICES ASSUME NEW i \in 1 .. b - s PROVE page[i].id = part[i]
    OBVIOUS
  <2>1. s + i \in 1 .. Len(G)
    BY <1>1
  <2> QED
    BY <1>2, <1>3, <2>1
<1>5. Ids(page) = part
  <2>1. Ids(page) = [i \in 1 .. b - s |-> part[i]]
    BY <1>2, <1>4 DEF Ids
  <2>2. part = [i \in 1 .. b - s |-> part[i]]
    <3>1. DOMAIN part = 1 .. b - s
      BY <1>3, LenProperties
    <3> QED
      BY <1>3, <3>1
  <2> QED
    BY <2>1, <2>2
<1>6. part \o SubSeq(G, b + 1, Len(G)) = SubSeq(G, s + 1, Len(G))
  <2>1. s + 1 \in 1 .. Len(G) + 1 /\ b \in (s + 1) - 1 .. Len(G) /\ Len(G) \in b .. Len(G)
    BY <1>1
  <2> QED
    BY <2>1, ConcatAdjacentSubSeq DEF part
<1> QED
  BY <1>5, <1>6 DEF page

-----------------------------------------------------------------------------
(* The walk.                                                               *)

WalkType == [at : {"idle", "walking", "done", "failed"}, cursor : Int, first : Nat,
             goal : Seq(Nat), got : Seq(Nat), page : Int, appended : BOOLEAN]

\* buildHistoryEntries for the lines of an engine.
EntriesOf(by, lines) ==
  LET raw == IF by = "claude" THEN BuildClaude(lines) ELSE BuildCodex(lines)
  IN [n \in 1 .. Len(raw) |-> BoundEntry(raw[n])]

\* The entries there were when the walk began are still where they were.
Kept(goal, entries) ==
  Len(goal) <= Len(entries) /\ \A n \in 1 .. Len(goal) : entries[n].id = goal[n]

\* While the file only grows, the cursor is the place in the file up to which the
\* walk has not come yet, and what it has is exactly what is behind that place.
WalkInv ==
  /\ engine \in {"claude", "codex"} /\ file \in Seq(LinesOf(engine))
  /\ walk \in WalkType /\ walk.page <= FrameBudget
  /\ walk.at = "idle" => walk.cursor = -1 /\ walk.got = <<>>
  /\ walk.at = "walking" => walk.cursor \in Nat
  /\ walk.appended /\ walk.at = "walking" =>
       /\ Kept(walk.goal, EntriesOf(engine, file))
       /\ walk.cursor <= Len(walk.goal)
       /\ walk.got = SubSeq(walk.goal, walk.cursor + 1, Len(walk.goal))
  /\ walk.appended /\ walk.at = "done" => walk.cursor = 0 /\ walk.got = walk.goal

LEMMA NoWalkTyped == NoWalk \in WalkType /\ [NoWalk EXCEPT !.at = "failed"] \in WalkType
<1>1. <<>> \in Seq(Nat) /\ -1 \in Int /\ 0 \in Nat /\ 0 \in Int /\ TRUE \in BOOLEAN
  BY EmptySeq
<1>2. NoWalk \in WalkType
  BY <1>1, Zenon DEF NoWalk, WalkType
<1>3. [NoWalk EXCEPT !.at = "failed"] \in WalkType
  BY <1>2 DEF WalkType
<1> QED
  BY <1>2, <1>3

LEMMA WalkInitial == Init => WalkInv
<1> SUFFICES ASSUME Init PROVE WalkInv
  OBVIOUS
<1>1. engine \in {"claude", "codex"} /\ file = <<>> /\ walk = NoWalk
  BY DEF Init, HistoryInit
<1>2. file \in Seq(LinesOf(engine))
  BY <1>1, EmptySeq
<1>3. walk \in WalkType
  BY <1>1, NoWalkTyped
<1>4. /\ walk.at = "idle" /\ walk.cursor = -1 /\ walk.got = <<>> /\ walk.page = 0
  BY <1>1 DEF NoWalk
<1>5. walk.page <= FrameBudget
  BY <1>4, HistoryAssumption
<1> QED
  BY <1>1, <1>2, <1>3, <1>4, <1>5 DEF WalkInv

\* The goal of a walk and what it has so far, when it asks for the page that ends at b.
LEMMA PageAsked ==
  ASSUME WalkInv, NEW limit \in Limits, ReadPage(limit), NEW entries, entries = BuildEntries(file),
         NEW b, b = Boundary(entries, walk.cursor)
  PROVE  /\ entries \in Seq(EntryType) /\ \A n \in 1 .. Len(entries) : Fits(entries[n])
         /\ b \in 0 .. Len(entries)
         /\ walk'.goal \in Seq(Nat) /\ walk'.first \in Nat
         /\ walk.appended => /\ Kept(walk'.goal, entries) /\ b <= Len(walk'.goal)
                             /\ walk.got = SubSeq(walk'.goal, b + 1, Len(walk'.goal))
<1>1. /\ entries \in Seq(EntryType) /\ Len(entries) \in Nat
      /\ \A n \in 1 .. Len(entries) : Fits(entries[n])
  <2>1. /\ BuildEntries(file) \in Seq(EntryType)
        /\ Len(BuildEntries(file)) = Len(Raw(file)) /\ Len(Raw(file)) \in Nat
        /\ \A n \in 1 .. Len(Raw(file)) : Fits(BuildEntries(file)[n])
    BY EntriesFit DEF WalkInv
  <2> QED
    BY <2>1
<1>2. walk \in WalkType /\ walk.at \in {"idle", "walking"} /\ CursorValid(entries, walk.cursor)
  BY DEF ReadPage, WalkInv
<1>3. /\ walk'.goal = IF walk.at = "idle" THEN Ids(entries) ELSE walk.goal
      /\ walk'.first = IF walk.at = "idle" THEN Len(entries) ELSE walk.first
  BY <1>2 DEF ReadPage, WalkType
<1>4. entries = EntriesOf(engine, file)
  BY DEF EntriesOf, BuildEntries
<1>5. CASE walk.at = "idle"
  <2>1. walk.cursor = -1 /\ walk.got = <<>> /\ b = Len(entries) /\ walk'.goal = Ids(entries)
    BY <1>3, <1>5 DEF WalkInv, Boundary
  <2>2. \A n \in 1 .. Len(entries) : entries[n].id \in Nat
    <3>1. \A n \in 1 .. Len(entries) : entries[n] \in EntryType
      BY <1>1, ElementOfSeq
    <3>2. \A e \in EntryType : e.id \in Nat
      BY DEF EntryType
    <3> QED
      BY <3>1, <3>2
  <2>3. Ids(entries) \in [1 .. Len(entries) -> Nat] /\ \A n \in 1 .. Len(entries) : Ids(entries)[n] = entries[n].id
    BY <2>2 DEF Ids
  <2>4. Ids(entries) \in Seq(Nat) /\ Len(Ids(entries)) = Len(entries)
    BY <1>1, <2>3, FunctionIsSeq
  <2>5. Kept(Ids(entries), entries)
    BY <1>1, <2>3, <2>4 DEF Kept
  <2>6. SubSeq(Ids(entries), b + 1, Len(Ids(entries))) = <<>>
    <3>1. b + 1 \in Int /\ Len(Ids(entries)) \in Int /\ Len(Ids(entries)) < b + 1
      BY <1>1, <2>1, <2>4
    <3> QED
      BY <3>1, SubSeqEmpty
  <2>7. b \in 0 .. Len(entries) /\ b <= Len(Ids(entries))
    BY <1>1, <2>1, <2>4
  <2> HIDE DEF Ids
  <2> QED
    BY <1>1, <1>3, <1>5, <2>1, <2>4, <2>5, <2>6, <2>7
<1>6. CASE walk.at = "walking"
  <2>1. walk'.goal = walk.goal /\ walk'.first = walk.first /\ walk.goal \in Seq(Nat) /\ walk.first \in Nat
    <3>1. \A w \in WalkType : w.goal \in Seq(Nat) /\ w.first \in Nat
      BY DEF WalkType
    <3> QED
      BY <1>2, <1>3, <1>6, <3>1
  <2>2. walk.cursor \in Nat /\ b = walk.cursor /\ walk.cursor <= Len(entries)
    <3>1. walk.cursor \in Nat
      BY <1>6 DEF WalkInv
    <3> QED
      BY <1>2, <3>1 DEF Boundary, CursorValid
  <2>3. walk.appended => /\ Kept(walk.goal, entries) /\ b <= Len(walk.goal)
                         /\ walk.got = SubSeq(walk.goal, b + 1, Len(walk.goal))
    BY <1>4, <1>6, <2>2 DEF WalkInv
  <2>4. b \in 0 .. Len(entries)
    BY <1>1, <2>2
  <2> QED
    BY <1>1, <2>1, <2>3, <2>4
<1> QED
  BY <1>2, <1>5, <1>6

LEMMA HistoryPageStep ==
  ASSUME WalkInv, NEW limit \in Limits, ReadPage(limit)
  PROVE  WalkInv'
<1> DEFINE entries == BuildEntries(file)
           b == Boundary(entries, walk.cursor)
           start == PageStart(entries, b, limit)
           page == SubSeq(entries, start + 1, b)
           goal == walk'.goal
<1>1. /\ entries \in Seq(EntryType) /\ \A n \in 1 .. Len(entries) : Fits(entries[n])
      /\ b \in 0 .. Len(entries)
      /\ goal \in Seq(Nat) /\ walk'.first \in Nat
      /\ walk.appended => /\ Kept(goal, entries) /\ b <= Len(goal)
                          /\ walk.got = SubSeq(goal, b + 1, Len(goal))
  BY PageAsked
<1>2. /\ engine' = engine /\ file' = file
      /\ entries = EntriesOf(engine, file)
      /\ walk \in WalkType
  BY DEF ReadPage, WalkInv, EntriesOf, BuildEntries
<1>3. walk' = [walk EXCEPT !.at = IF start > 0 THEN "walking" ELSE "done", !.cursor = start,
                           !.first = walk'.first, !.goal = goal,
                           !.got = Ids(page) \o walk.got, !.page = PageBytes(entries, start, b)]
  BY <1>2 DEF ReadPage, WalkType
<1> HIDE DEF goal, entries
<1>4. start \in 0 .. b /\ PageBytes(entries, start, b) \in Int /\ PageBytes(entries, start, b) <= FrameBudget
  BY <1>1, PageFound
<1> HIDE DEF b, start
<1>5. Len(entries) \in Nat /\ Len(goal) \in Nat /\ b \in Nat /\ start \in Nat
  BY <1>1, <1>4, LenProperties
<1>6. Ids(page) \in Seq(Nat)
  <2>1. \A i \in start + 1 .. b : entries[i] \in EntryType
    BY <1>1, <1>5, ElementOfSeq
  <2>2. page \in Seq(EntryType)
    BY <1>5, <2>1, SubSeqProperties
  <2>3. \A i \in 1 .. Len(page) : page[i] \in EntryType
    BY <2>2, ElementOfSeq
  <2>4. \A e \in EntryType : e.id \in Nat
    BY DEF EntryType
  <2>5. Ids(page) \in [1 .. Len(page) -> Nat] /\ Len(page) \in Nat
    BY <2>2, <2>3, <2>4, LenProperties DEF Ids
  <2> QED
    BY <2>5, FunctionIsSeq
<1>7. walk.appended => Ids(page) \o walk.got = SubSeq(goal, start + 1, Len(goal))
  <2> SUFFICES ASSUME walk.appended PROVE Ids(page) \o walk.got = SubSeq(goal, start + 1, Len(goal))
    OBVIOUS
  <2>1. Len(goal) <= Len(entries) /\ \A n \in 1 .. Len(goal) : entries[n].id = goal[n]
    BY <1>1 DEF Kept
  <2>2. b \in 0 .. Len(goal)
    BY <1>1, <1>5
  <2>3. Ids(SubSeq(entries, start + 1, b)) \o SubSeq(goal, b + 1, Len(goal)) = SubSeq(goal, start + 1, Len(goal))
    BY <1>1, <1>4, <2>1, <2>2, PageAdded
  <2> QED
    BY <1>1, <2>3
<1> HIDE DEF page
<1>8. /\ walk.got \in Seq(Nat) /\ Ids(page) \o walk.got \in Seq(Nat)
  <2>1. walk.got \in Seq(Nat)
    BY <1>2 DEF WalkType
  <2> QED
    BY <1>6, <2>1, ConcatProperties
<1>9. /\ walk'.at = (IF start > 0 THEN "walking" ELSE "done") /\ walk'.cursor = start
      /\ walk'.got = Ids(page) \o walk.got /\ walk'.page = PageBytes(entries, start, b)
      /\ walk'.goal = goal /\ walk'.appended = walk.appended
  <2> HIDE DEF Ids, PageBytes
  <2> QED
    BY <1>2, <1>3 DEF WalkType, goal
<1>10. walk' \in WalkType
  <2> HIDE DEF Ids, PageBytes
  <2>1. /\ (IF start > 0 THEN "walking" ELSE "done") \in {"idle", "walking", "done", "failed"}
        /\ start \in Int
    BY <1>5
  <2> QED
    BY <1>1, <1>2, <1>3, <1>4, <1>8, <2>1 DEF WalkType
<1>11. walk'.appended /\ walk'.at = "walking" =>
         /\ Kept(walk'.goal, EntriesOf(engine', file'))
         /\ walk'.cursor <= Len(walk'.goal)
         /\ walk'.got = SubSeq(walk'.goal, walk'.cursor + 1, Len(walk'.goal))
  <2>1. walk.appended => Kept(goal, EntriesOf(engine', file'))
    BY <1>1, <1>2
  <2>2. walk.appended => start <= Len(goal)
    BY <1>1, <1>4, <1>5
  <2> QED
    BY <1>7, <1>9, <2>1, <2>2
<1>12. walk'.appended /\ walk'.at = "done" => walk'.cursor = 0 /\ walk'.got = walk'.goal
  <2> SUFFICES ASSUME walk'.appended, walk'.at = "done" PROVE walk'.cursor = 0 /\ walk'.got = walk'.goal
    OBVIOUS
  <2>1. start = 0
    BY <1>5, <1>9
  <2>2. walk'.got = SubSeq(goal, 1, Len(goal))
    BY <1>7, <1>9, <2>1
  <2> QED
    BY <1>1, <1>9, <2>1, <2>2, SubSeqFull
<1>13. walk'.at \in {"walking", "done"} /\ walk'.cursor \in Nat /\ walk'.page <= FrameBudget
  BY <1>4, <1>5, <1>9
<1>14. engine' \in {"claude", "codex"} /\ file' \in Seq(LinesOf(engine'))
  BY <1>2 DEF WalkInv
<1> HIDE DEF Kept, EntriesOf
<1> QED
  BY <1>10, <1>11, <1>12, <1>13, <1>14 DEF WalkInv

\* The engine appends a record that takes no entry away: what the walk has kept is kept.
LEMMA AppendStep ==
  ASSUME WalkInv, NEW l, AppendLine(l), ~Displaces(l)
  PROVE  WalkInv'
<1> DEFINE more == Append(file, l)
<1>1. /\ engine' = engine /\ walk' = walk /\ file' = more
      /\ l \in LinesOf(engine)
      /\ TakesNone(BuildEntries(file), file, l)
  BY DEF AppendLine, LinesOf, Displaces, TakesNone
<1>2. engine \in {"claude", "codex"} /\ file \in Seq(LinesOf(engine)) /\ walk \in WalkType
  BY DEF WalkInv
<1>3. more \in Seq(LinesOf(engine))
  BY <1>1, <1>2, AppendProperties
<1>4. Begins(EntriesOf(engine, file), EntriesOf(engine, more))
  <2>1. Begins(BuildEntries(file), BuildEntries(more))
    BY <1>1, <1>2, EntriesStable
  <2> QED
    BY <2>1 DEF BuildEntries, EntriesOf
<1>5. /\ Len(EntriesOf(engine, file)) \in Nat /\ Len(EntriesOf(engine, more)) \in Nat
  <2>1. Len(BuildEntries(file)) \in Nat /\ Len(BuildEntries(more)) \in Nat
    BY <1>2, <1>3, EntriesFit
  <2> QED
    BY <2>1 DEF BuildEntries, EntriesOf
<1> HIDE DEF more
<1>6. Kept(walk.goal, EntriesOf(engine, file)) => Kept(walk.goal, EntriesOf(engine, more))
  <2> DEFINE es == EntriesOf(engine, file)
             fs == EntriesOf(engine, more)
  <2> HIDE DEF es, fs
  <2>1. Len(es) \in Nat /\ Len(fs) \in Nat /\ Begins(es, fs)
    BY <1>4, <1>5 DEF es, fs
  <2>2. Len(walk.goal) \in Nat
    BY <1>2, LenProperties DEF WalkType
  <2>3. ASSUME Kept(walk.goal, es)
        PROVE  Kept(walk.goal, fs)
    <3>1. \A n \in 1 .. Len(walk.goal) : n \in 1 .. Len(es) /\ es[n].id = walk.goal[n]
      BY <2>1, <2>2, <2>3 DEF Kept
    <3>2. \A n \in 1 .. Len(es) : fs[n].id = es[n].id
      BY <2>1 DEF Begins
    <3>3. Len(walk.goal) <= Len(fs)
      BY <2>1, <2>2, <2>3 DEF Kept, Begins
    <3> QED
      BY <3>1, <3>2, <3>3 DEF Kept
  <2> QED
    BY <2>3 DEF es, fs
<1>7. walk.appended /\ walk.at = "walking" =>
        /\ Kept(walk.goal, EntriesOf(engine', file'))
        /\ walk.cursor <= Len(walk.goal)
        /\ walk.got = SubSeq(walk.goal, walk.cursor + 1, Len(walk.goal))
  BY <1>1, <1>6 DEF WalkInv
<1>8. /\ walk.page <= FrameBudget
      /\ walk.at = "idle" => walk.cursor = -1 /\ walk.got = <<>>
      /\ walk.at = "walking" => walk.cursor \in Nat
      /\ walk.appended /\ walk.at = "done" => walk.cursor = 0 /\ walk.got = walk.goal
  BY DEF WalkInv
<1> HIDE DEF Kept, EntriesOf
<1> QED
  BY <1>1, <1>2, <1>3, <1>7, <1>8 DEF WalkInv

\* The file shrinks, goes away or loses an entry, and a walk that is under way is no
\* longer over a file that only grew.
LEMMA ShrinkStep ==
  ASSUME WalkInv, engine' = engine, file' \in Seq(LinesOf(engine)), walk' = Disturbed(walk)
  PROVE  WalkInv'
<1>1. walk \in WalkType
  BY DEF WalkInv
<1>2. /\ walk' \in WalkType /\ walk'.appended = (walk.appended /\ walk.at # "walking")
      /\ walk'.at = walk.at /\ walk'.cursor = walk.cursor
      /\ walk'.got = walk.got /\ walk'.goal = walk.goal /\ walk'.page = walk.page
  BY <1>1 DEF WalkType, Disturbed
<1> HIDE DEF Kept, EntriesOf
<1> QED
  BY <1>2 DEF WalkInv

\* A new walk, and one that failed.
LEMMA FreshStep ==
  ASSUME WalkInv, engine' = engine, file' = file, walk' \in {NoWalk, [NoWalk EXCEPT !.at = "failed"]}
  PROVE  WalkInv'
<1>1. walk' \in WalkType
  BY NoWalkTyped
<1>2. /\ walk'.at \in {"idle", "failed"} /\ walk'.cursor = -1 /\ walk'.got = <<>> /\ walk'.page = 0
  BY DEF NoWalk
<1>3. walk'.page <= FrameBudget
  BY <1>2, HistoryAssumption
<1> HIDE DEF Kept, EntriesOf
<1> QED
  BY <1>1, <1>2, <1>3 DEF WalkInv

LEMMA HistoryStep ==
  ASSUME WalkInv, [Next]_vars
  PROVE  WalkInv'
<1>1. ASSUME UNCHANGED <<engine, file, walk>>
      PROVE  WalkInv'
  BY <1>1 DEF WalkInv, Kept, EntriesOf
<1>2. CASE UNCHANGED vars
  BY <1>1, <1>2 DEF vars
<1>3. CASE UNCHANGED history
  BY <1>1, <1>3 DEF history
<1>4. ASSUME NEW limit \in Limits, ReadPage(limit)
      PROVE  WalkInv'
  BY <1>4, HistoryPageStep
<1>5. CASE ReadFails \/ WalkAgain
  BY <1>5, FreshStep DEF ReadFails, WalkAgain
<1>6. CASE Forget \/ Relist
  BY <1>1, <1>6 DEF Forget, Relist
<1>7. ASSUME NEW l, AppendLine(l)
      PROVE  WalkInv'
  <2>1. CASE ~Displaces(l)
    BY <1>7, <2>1, AppendStep
  <2>2. CASE Displaces(l)
    <3>1. engine' = engine /\ file' = Append(file, l) /\ walk' = Disturbed(walk) /\ l \in LinesOf(engine)
      BY <1>7, <2>2 DEF AppendLine, LinesOf
    <3>2. Append(file, l) \in Seq(LinesOf(engine))
      BY <3>1, AppendProperties DEF WalkInv
    <3> QED
      BY <3>1, <3>2, ShrinkStep
  <2> QED
    BY <2>1, <2>2
<1>8. CASE RemoveFile
  <2>1. <<>> \in Seq(LinesOf(engine))
    BY EmptySeq
  <2> QED
    BY <1>8, <2>1, ShrinkStep DEF RemoveFile
<1>9. ASSUME NEW n \in 0 .. MaxLines, Rewrite(n)
      PROVE  WalkInv'
  <2>1. /\ engine' = engine /\ file' = SubSeq(file, 1, n) /\ n < Len(file)
        /\ walk' = Disturbed(walk)
    BY <1>9 DEF Rewrite
  <2>2. file \in Seq(LinesOf(engine)) /\ Len(file) \in Nat /\ MaxLines \in Nat
    BY LenProperties, HistoryAssumption DEF WalkInv
  <2>3. \A i \in 1 .. n : file[i] \in LinesOf(engine)
    BY <2>1, <2>2, ElementOfSeq
  <2>4. SubSeq(file, 1, n) \in Seq(LinesOf(engine))
    BY <2>2, <2>3, SubSeqProperties
  <2> QED
    BY <2>1, <2>4, ShrinkStep
<1> QED
  BY <1>2, <1>3, <1>4, <1>5, <1>6, <1>7, <1>8, <1>9 DEF Next, HistoryNext

THEOREM HistoryInvariance == Spec => []WalkInv
  BY WalkInitial, HistoryStep, PTL DEF Spec

\* Over a file that only grows, the pages a relay reads from the newest entry back to
\* the oldest are, put together, exactly the entries there were when it began: once
\* each, in order (readHistory, paginateHistory), whatever is appended meanwhile, but
\* for a Codex call behind an enrichment that names it and that had an entry of its own.
THEOREM WalkIsExact == Spec => []WalkExact
<1>1. WalkInv => WalkExact
  <2> SUFFICES ASSUME WalkInv PROVE WalkExact
    OBVIOUS
  <2>1. walk.goal \in Seq(Nat)
    BY DEF WalkInv, WalkType
  <2>2. SubSeq(walk.goal, 1, Len(walk.goal)) = walk.goal
    BY <2>1, SubSeqFull
  <2>3. walk.appended /\ walk.at = "done" => walk.cursor + 1 = 1 /\ walk.got = walk.goal
    BY DEF WalkInv
  <2>4. walk.appended /\ walk.at = "walking" => walk.got = SubSeq(walk.goal, walk.cursor + 1, Len(walk.goal))
    BY DEF WalkInv
  <2> QED
    BY <2>2, <2>3, <2>4 DEF WalkExact
<1> QED
  BY <1>1, HistoryInvariance, PTL

\* Every page fits the frame, although it always takes one entry: boundHistoryEntryBytes
\* has cut each entry below the budget, whatever the engine wrote.
THEOREM PagesFit == Spec => []PageFits
<1>1. WalkInv => PageFits
  BY DEF WalkInv, PageFits
<1> QED
  BY <1>1, HistoryInvariance, PTL
=============================================================================
