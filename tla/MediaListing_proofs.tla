------------------------ MODULE MediaListing_proofs ------------------------
(***************************************************************************)
(* Proofs about MediaListing: where no reply misses its window, a listing  *)
(* has no hole, is the whole card unless too much was lost or shot         *)
(* meanwhile, and stops soon after the end.                                *)
(*                                                                         *)
(* Two measures carry it: which shots the pages so far must have brought   *)
(* (Listed, which shots taken meanwhile only make fewer), and how far down *)
(* the card they can have gone (Floor, which says what a page without news *)
(* costs).                                                                 *)
(***************************************************************************)
EXTENDS MediaListing, TLAPS

\* Where page p begins; kept opaque, so that no leaf multiplies.
At(p) == p * PageSize

\* The shots that were on the card when the listing began, and those of them in
\* the first n pages of the card as it is now.
Old == 1..atStart

Listed(n) == {s \in Old : IF newestFirst THEN count < s + At(n) ELSE s <= At(n)}

\* What a set of shots that came for the current page is good for, with what was
\* listed before: it completes the page, it leaves no hole, and it goes to the
\* end of the page and no further, unless the card is listed whole.
Completes(E) == Listed(page + 1) \subseteq seen \cup E

LeavesNoHole(E) ==
    \A i, j \in Old : j \in E /\ ListedBefore(i, j) => i \in seen \cup E

Whole(E) == Old \subseteq seen \cup E

NoFurther(E) ==
    \A s \in E : IF newestFirst THEN atStart < s + At(page + 1) ELSE s <= At(page + 1)

ToTheEnd(E) ==
    \E s \in E : IF newestFirst THEN s + At(page + 1) <= count + 1 ELSE At(page) < s

Good(E) ==
    /\ Completes(E)
    /\ LeavesNoHole(E)
    /\ Whole(E) \/ NoFurther(E)
    /\ Whole(E) \/ ToTheEnd(E)
    /\ E \subseteq 1..count

\* TypeOK and the bounds of the loops.
TypeInv ==
    /\ TypeOK
    /\ pc = "ask" => attempt < Retries
    /\ pc # "done" => repeatPages <= 1 /\ noNewPages <= 1

\* Every page so far is listed, and what is there of the current one is good.
Reached     == pc # "done" => Listed(page) \subseteq seen
OnTime      == pc \in {"ask", "page"} => replies = {}
GoodEntries == pc # "done" => entries = {} \/ Good(entries)
GoodReplies ==
    pc # "done" => \A r \in replies : Good(r.entries) /\ (r.entries = {} => Whole({}))

Closed == \A i, j \in Old : j \in seen /\ ListedBefore(i, j) => i \in seen

\* A request that was not lost has its reply under way or in the entries, unless
\* the reply was empty because the card is listed whole.
Answered ==
    pc # "done" /\ entries = {} /\ lost < attempt => replies # {} \/ Whole({})
Tried == pc = "page" /\ entries = {} => attempt = Retries

\* A repeated page is one without news, and a page without news is one the
\* camera has pushed down by a page of shots.
Repeats ==
    pc # "done" => /\ repeatPages <= noNewPages
                   /\ lastPageKeys = NoPage \/ lastPageKeys \subseteq seen

Floor ==
    pc # "done" =>
        \/ Whole({})
        \/ \A s \in seen : IF newestFirst THEN atStart + At(noNewPages) < s + At(page)
                                          ELSE s + At(noNewPages) <= At(page)

\* What the stops make of it.
Relisted ==
    pc = "done" /\ reason # "cap" /\ lost < Retries /\ count < atStart + At(2) => Whole({})

PastTheEnd ==
    count = atStart =>
        /\ At(page) < atStart + At(2)
        /\ pc # "done" => page = 0 \/ At(page) < atStart + PageSize + At(noNewPages)

ListParts ==
    /\ Reached /\ OnTime /\ GoodEntries /\ GoodReplies /\ Closed
    /\ Answered /\ Tried /\ Repeats /\ Floor /\ Relisted /\ PastTheEnd

ListInv == late = 0 => ListParts

-----------------------------------------------------------------------------
(* Pages.                                                                  *)

LEMMA AtFacts ==
    /\ PageSize \in Nat /\ 1 <= PageSize
    /\ At(0) = 0 /\ At(1) = PageSize /\ At(2) = PageSize + PageSize
    /\ \A p \in Nat : At(p) \in Nat /\ At(p + 1) = At(p) + PageSize
<1>1. PageSize \in Nat /\ 1 <= PageSize
  BY ConstantsAssumption
<1>2. ASSUME NEW p \in Nat
      PROVE  p * PageSize \in Nat /\ (p + 1) * PageSize = p * PageSize + PageSize
  BY <1>1
<1> QED
  BY <1>1, <1>2 DEF At

\* Page p as the set of the shots at its places.
LEMMA PageShots ==
    ASSUME TypeOK, NEW p \in Nat
    PROVE  PageAt(p) =
             {s \in 1..count :
                IF newestFirst THEN count < s + At(p + 1) /\ s + At(p) <= count
                               ELSE At(p) < s /\ s <= At(p + 1)}
<1> DEFINE places == {j \in 1..count : At(p) < j /\ j <= At(p + 1)}
<1>1. PageAt(p) = {Nth(j) : j \in places}
  BY DEF PageAt, At
<1>2. At(p) \in Nat /\ At(p + 1) \in Nat /\ count \in Nat
  BY AtFacts, ConstantsAssumption DEF TypeOK
<1>3. CASE newestFirst
  <2>1. \A j \in places : Nth(j) = count + 1 - j
    BY <1>3 DEF Nth
  <2>2. ASSUME NEW s \in 1..count, count < s + At(p + 1), s + At(p) <= count
        PROVE  count + 1 - s \in places /\ s = count + 1 - (count + 1 - s)
    BY <1>2, <2>2
  <2>3. ASSUME NEW j \in places
        PROVE  /\ count + 1 - j \in 1..count
               /\ count < (count + 1 - j) + At(p + 1) /\ (count + 1 - j) + At(p) <= count
    BY <1>2
  <2> QED
    BY <1>1, <1>3, <2>1, <2>2, <2>3
<1>4. CASE ~newestFirst
  BY <1>1, <1>4 DEF Nth
<1> QED
  BY <1>3, <1>4

LEMMA LastPageShots ==
    ASSUME TypeOK
    PROVE  LastPage \subseteq 1..count
<1>1. count \in Nat
  BY ConstantsAssumption DEF TypeOK
<1>2. \A j \in 1..count : Nth(j) \in 1..count
  BY <1>1 DEF Nth
<1> QED
  BY <1>2 DEF LastPage

LEMMA AnswerShots ==
    ASSUME TypeOK, NEW p \in Nat
    PROVE  Answer(p) \subseteq 1..count
BY PageShots, LastPageShots DEF Answer

-----------------------------------------------------------------------------
(* What comes for the current page.                                        *)

\* The numbers of the state, for the leaves that calculate.
LEMMA Numbers ==
    ASSUME TypeOK
    PROVE  /\ atStart \in Nat /\ count \in Nat /\ atStart <= count
           /\ page \in Nat /\ noNewPages \in 0..2 /\ repeatPages \in 0..2
           /\ attempt \in Nat /\ lost \in Nat /\ late \in Nat /\ Retries \in Nat /\ 1 <= Retries
           /\ At(page) \in Nat /\ At(page + 1) \in Nat /\ At(page + 1) = At(page) + PageSize
           /\ Old \subseteq Nat /\ Old \subseteq 1..count
<1>1. atStart \in Nat /\ count \in Nat /\ atStart <= count /\ page \in Nat
  BY ConstantsAssumption DEF TypeOK
<1> QED
  BY <1>1, AtFacts, ConstantsAssumption DEF TypeOK, Old

\* Past the last place of the card every shot is listed.
LEMMA PastIsWhole ==
    ASSUME TypeOK, NEW p \in Nat, count <= At(p), Listed(p) \subseteq seen
    PROVE  Whole({})
<1>1. Listed(p) = Old
  BY Numbers, AtFacts DEF Listed, Old
<1> QED
  BY <1>1 DEF Whole

\* A camera's answer is good for the page it is asked for; an empty one means
\* that the card is listed whole.
LEMMA AnswerIsGood ==
    ASSUME TypeOK, Listed(page) \subseteq seen
    PROVE  Good(Answer(page)) /\ (Answer(page) = {} => Whole({}))
<1>1. Answer(page) \subseteq 1..count
  BY AnswerShots, Numbers
<1>2. CASE count <= At(page)
  <2>1. Whole({})
    BY <1>2, PastIsWhole, Numbers
  <2> QED
    BY <1>1, <2>1 DEF Good, Whole, Completes, Listed, LeavesNoHole
<1>3. CASE ~(count <= At(page))
  <2> DEFINE E == Answer(page)
  <2>1. E = {s \in 1..count :
               IF newestFirst THEN count < s + At(page + 1) /\ s + At(page) <= count
                              ELSE At(page) < s /\ s <= At(page + 1)}
    <3>1. E = PageAt(page)
      BY <1>3, Numbers, AtFacts DEF Answer, At
    <3> QED
      BY <3>1, PageShots, Numbers
  <2> HIDE DEF E
  <2>2. Completes(E)
    <3>1. ASSUME NEW s \in Listed(page + 1), s \notin Listed(page)
          PROVE  s \in E
      BY <3>1, <2>1, Numbers DEF Listed
    <3> QED
      BY <3>1 DEF Completes
  <2>3. LeavesNoHole(E)
    <3>1. ASSUME NEW i \in Old, NEW j \in Old, j \in E, ListedBefore(i, j)
          PROVE  i \in Listed(page + 1)
      BY <3>1, <2>1, Numbers DEF Listed, ListedBefore
    <3> QED
      BY <3>1, <2>2 DEF LeavesNoHole, Completes
  <2>4. NoFurther(E)
    BY <2>1, Numbers DEF NoFurther
  <2>5. (Whole(E) \/ ToTheEnd(E)) /\ E # {}
    <3>1. CASE newestFirst
      <4>1. CASE At(page + 1) <= count
        <5> DEFINE m == count + 1 - At(page + 1)
        <5>1. m \in 1..count /\ count < m + At(page + 1) /\ m + At(page) <= count
              /\ m + At(page + 1) <= count + 1
          BY <4>1, Numbers, AtFacts
        <5>2. m \in E
          BY <3>1, <5>1, <2>1
        <5> QED
          BY <3>1, <5>1, <5>2 DEF ToTheEnd
      <4>2. CASE ~(At(page + 1) <= count)
        <5>1. Listed(page + 1) = Old
          BY <3>1, <4>2, Numbers DEF Listed
        <5>2. 1 \in 1..count /\ count < 1 + At(page + 1) /\ 1 + At(page) <= count
          BY <4>2, <1>3, Numbers
        <5>3. 1 \in E
          BY <3>1, <5>2, <2>1
        <5> QED
          BY <5>1, <5>3, <2>2 DEF Whole, Completes
      <4> QED
        BY <4>1, <4>2
    <3>2. CASE ~newestFirst
      <4> DEFINE m == At(page) + 1
      <4>1. m \in 1..count /\ At(page) < m /\ m <= At(page + 1)
        BY <1>3, Numbers, AtFacts
      <4>2. m \in E
        BY <3>2, <4>1, <2>1
      <4> QED
        BY <3>2, <4>1, <4>2 DEF ToTheEnd
    <3> QED
      BY <3>1, <3>2
  <2> QED
    BY <1>1, <2>2, <2>3, <2>4, <2>5 DEF Good, E
<1> QED
  BY <1>2, <1>3

\* What is good stays so when more that is good comes.
LEMMA GoodTogether ==
    ASSUME TypeOK, NEW E, NEW F, Good(E), Good(F)
    PROVE  Good(E \cup F)
<1>1. Completes(E \cup F) /\ LeavesNoHole(E \cup F) /\ E \cup F \subseteq 1..count
  BY DEF Good, Completes, LeavesNoHole
<1>2. Whole(E \cup F) \/ NoFurther(E \cup F)
  BY DEF Good, Whole, NoFurther
<1>3. Whole(E \cup F) \/ ToTheEnd(E \cup F)
  BY DEF Good, Whole, ToTheEnd
<1> QED
  BY <1>1, <1>2, <1>3 DEF Good

-----------------------------------------------------------------------------
(* Type correctness.                                                       *)

LEMMA TypeInit == Init => TypeInv
<1> SUFFICES ASSUME Init
             PROVE  TypeInv
  OBVIOUS
<1>1. atStart \in Nat /\ MaxShots \in Nat /\ MaxLost \in Nat /\ MaxLate \in Nat
      /\ Retries \in Nat /\ 1 <= Retries /\ MaxPages \in Nat /\ 1 <= MaxPages
  BY ConstantsAssumption DEF Init
<1>2. atStart \in 0..NItems /\ count \in atStart..(atStart + MaxShots)
      /\ page \in 0..(MaxPages - 1) /\ attempt \in 0..Retries /\ attempt < Retries
      /\ lost \in 0..MaxLost /\ late \in 0..MaxLate
  BY <1>1 DEF Init
<1> QED
  BY <1>2 DEF Init, TypeInv, TypeOK

\* What the camera may answer is on its card.
LEMMA OnCard ==
    ASSUME TypeOK
    PROVE  1..count \subseteq Shots
BY ConstantsAssumption DEF TypeOK, Shots

LEMMA TypeStep == TypeInv /\ [Next]_vars => TypeInv'
<1> SUFFICES ASSUME TypeInv, [Next]_vars
             PROVE  TypeInv'
  OBVIOUS
<1> USE DEF TypeInv
<1>1. CASE Request
  <2>1. Answer(page) \subseteq Shots
    BY AnswerShots, OnCard, Numbers
  <2>2. attempt + 1 \in 1..Retries /\ page \in 0..MaxPages
        /\ (lost < MaxLost => lost + 1 \in 0..MaxLost)
    BY <1>1, ConstantsAssumption DEF Request, TypeOK
  <2>3. [page |-> page, attempt |-> attempt + 1, entries |-> Answer(page)] \in Reply
    BY <2>1, <2>2 DEF Reply
  <2>4. replies' \subseteq Reply /\ lost' \in 0..MaxLost
    BY <1>1, <2>2, <2>3 DEF Request, TypeOK
  <2>5. attempt' \in 0..Retries
    BY <1>1, <2>2, ConstantsAssumption DEF Request
  <2> QED
    BY <1>1, <2>4, <2>5 DEF Request, TypeOK, cameraVars, listVars
<1>2. ASSUME NEW r \in replies, Receive(r)
      PROVE  TypeInv'
  <2>1. r \in Reply
    BY DEF TypeOK
  <2>2. entries' \subseteq Shots /\ replies' \subseteq Reply
    BY <1>2, <2>1 DEF Receive, TypeOK, Reply
  <2> QED
    BY <1>2, <2>2 DEF Receive, TypeOK, cameraVars, listVars
<1>3. CASE WindowCloses
  <2>1. late' \in 0..MaxLate
    BY <1>3, ConstantsAssumption DEF WindowCloses, TypeOK
  <2>2. pc' = "ask" => attempt' < Retries
    BY <1>3 DEF WindowCloses, pageVars
  <2> QED
    BY <1>3, <2>1, <2>2 DEF WindowCloses, TypeOK, cameraVars, pageVars, listVars
<1>4. CASE EmptyPage
  BY <1>4 DEF EmptyPage, Stop, TypeOK, cameraVars, networkVars, pageVars
<1>5. pc # "done" => noNewPages + 1 \in 0..2 /\ repeatPages + 1 \in 0..2
  BY DEF TypeOK
<1>6. CASE RepeatedPage
  <2>1. noNewPages' \in 0..2 /\ repeatPages' \in 0..2
    BY <1>5, <1>6 DEF RepeatedPage, CountPage
  <2>2. lastPageKeys' \subseteq Shots
    BY <1>6 DEF RepeatedPage, CountPage, TypeOK
  <2> QED
    BY <1>6, <2>1, <2>2 DEF RepeatedPage, Stop, TypeOK, cameraVars, networkVars, pageVars
<1>7. CASE AppendPage
  <2>1. noNewPages' \in 0..2 /\ repeatPages' \in 0..2
    BY <1>5, <1>7 DEF AppendPage, CountPage
  <2>2. noNewPages' <= 1 /\ repeatPages' <= 1
    BY <1>7, <2>1 DEF AppendPage
  <2>3. lastPageKeys' \subseteq Shots /\ seen' \subseteq Shots
    BY <1>7 DEF AppendPage, CountPage, TypeOK
  <2>4. CASE page + 1 = MaxPages
    BY <1>7, <2>1, <2>2, <2>3, <2>4 DEF AppendPage, Stop, TypeOK, cameraVars, networkVars, pageVars
  <2>5. CASE page + 1 # MaxPages
    <3>1. page + 1 \in 0..(MaxPages - 1) /\ 0 \in 0..Retries /\ 0 < Retries
      BY <2>5, ConstantsAssumption DEF TypeOK
    <3> QED
      BY <1>7, <2>1, <2>2, <2>3, <2>5, <3>1 DEF AppendPage, TypeOK, cameraVars, networkVars
  <2> QED
    BY <2>4, <2>5
<1>8. CASE Shoot
  <2>1. count' \in atStart..(atStart + MaxShots)
    BY <1>8, ConstantsAssumption DEF Shoot, TypeOK
  <2> QED
    BY <1>8, <2>1 DEF Shoot, TypeOK, networkVars, pageVars, listVars
<1>9. CASE UNCHANGED vars
  BY <1>9 DEF TypeOK, vars, cameraVars, networkVars, pageVars, listVars
<1> QED
  BY <1>1, <1>2, <1>3, <1>4, <1>6, <1>7, <1>8, <1>9 DEF Next, Listing, Returned

LEMMA Bounded == Spec => []TypeInv
BY TypeInit, TypeStep, PTL DEF Spec

\* Every variable of MediaListing keeps its type and stays in its bounds.
THEOREM TypeCorrect == Spec => []TypeOK
BY Bounded, PTL DEF TypeInv

-----------------------------------------------------------------------------
(* The invariant.                                                          *)

LEMMA ListInit == Init => ListInv
<1> SUFFICES ASSUME Init
             PROVE  ListParts
  BY DEF ListInv
<1>1. TypeOK
  BY TypeInit DEF TypeInv
<1>2. Listed(0) = {}
  BY <1>1, Numbers, AtFacts DEF Init, Listed, Old
<1>3. At(page) < atStart + At(2)
  BY <1>1, Numbers, AtFacts DEF Init
<1> QED
  BY <1>2, <1>3, ConstantsAssumption DEF Init, ListParts, Reached, OnTime, GoodEntries, GoodReplies,
     Closed, Answered, Tried, Repeats, Floor, Relisted, PastTheEnd

\* A shot pushes pages down at most: what was good for a page still is.
LEMMA ShootStep ==
    ASSUME TypeInv, ListParts, Shoot
    PROVE  ListParts'
<1> USE DEF TypeInv
<1>1. /\ count' = count + 1 /\ pc # "done"
      /\ UNCHANGED <<atStart, newestFirst, replies, lost, attempt, entries, page, seen,
                     lastPageKeys, repeatPages, noNewPages, pc, reason>>
  BY DEF Shoot, networkVars, pageVars, listVars
<1>2. Old' = Old
  BY <1>1 DEF Old
<1>3. \A p \in Nat : Listed(p)' \subseteq Listed(p)
  BY <1>1, <1>2, Numbers, AtFacts DEF Listed
<1>4. ASSUME NEW E, Good(E)
      PROVE  Good(E)'
  <2>1. Completes(E)'
    BY <1>1, <1>3, <1>4, Numbers DEF Good, Completes
  <2>2. LeavesNoHole(E)'
    BY <1>1, <1>2, <1>4 DEF Good, LeavesNoHole, ListedBefore
  <2>3. Whole(E)' = Whole(E)
    BY <1>1, <1>2 DEF Whole
  <2>4. NoFurther(E)' = NoFurther(E)
    BY <1>1 DEF NoFurther
  <2>5. ToTheEnd(E) => ToTheEnd(E)'
    <3>1. E \subseteq Nat
      BY <1>4, Numbers DEF Good
    <3> QED
      BY <1>1, <3>1, Numbers DEF ToTheEnd
  <2>6. E \subseteq 1..count'
    BY <1>1, <1>4, Numbers DEF Good
  <2> QED
    BY <1>4, <2>1, <2>2, <2>3, <2>4, <2>5, <2>6 DEF Good
<1>5. GoodEntries'
  <2>1. \A E : Good(E) => Good(E)'
    BY <1>4
  <2> QED
    BY <1>1, <2>1 DEF ListParts, GoodEntries, Good, Completes, LeavesNoHole, Whole, NoFurther,
       ToTheEnd
<1>6. GoodReplies'
  BY <1>1, <1>2, <1>4 DEF ListParts, GoodReplies, Whole
<1>7. Reached'
  BY <1>1, <1>3, Numbers DEF ListParts, Reached
<1>8. Closed' /\ Floor'
  BY <1>1, <1>2 DEF ListParts, Closed, Floor, ListedBefore, Whole
<1>9. OnTime' /\ Answered' /\ Tried' /\ Repeats' /\ Relisted'
  BY <1>1, <1>2 DEF ListParts, OnTime, Answered, Tried, Repeats, Relisted, Whole
<1>10. PastTheEnd'
  BY <1>1, Numbers DEF PastTheEnd
<1> QED
  BY <1>5, <1>6, <1>7, <1>8, <1>9, <1>10 DEF ListParts

\* Where neither the pages nor the card change, what is good stays so.
LEMMA GoodKept ==
    ASSUME UNCHANGED <<count, atStart, newestFirst, page, seen>>
    PROVE  /\ \A E : Good(E)' = Good(E)
           /\ \A E : Whole(E)' = Whole(E)
           /\ \A p : Listed(p)' = Listed(p)
           /\ Old' = Old
BY DEF Good, Completes, LeavesNoHole, ListedBefore, Whole, NoFurther, ToTheEnd, Listed, Old

\* The parts about the pages already listed, which only AppendPage and the stops
\* change.
LEMMA ListingKept ==
    ASSUME TypeInv, ListParts,
           UNCHANGED <<count, atStart, newestFirst, page, seen, lastPageKeys, repeatPages,
                       noNewPages>>,
           pc # "done", pc' # "done"
    PROVE  Reached' /\ Closed' /\ Repeats' /\ Floor' /\ Relisted' /\ PastTheEnd'
<1>1. Reached' /\ Closed'
  BY GoodKept DEF ListParts, Reached, Closed, ListedBefore
<1>2. Repeats' /\ Relisted' /\ PastTheEnd'
  BY DEF ListParts, Repeats, Relisted, PastTheEnd
<1>3. Floor'
  BY GoodKept DEF ListParts, Floor
<1> QED
  BY <1>1, <1>2, <1>3

LEMMA RequestStep ==
    ASSUME TypeInv, ListParts, Request
    PROVE  ListParts'
<1> USE DEF TypeInv
<1>1. /\ pc = "ask" /\ pc' = "window" /\ attempt' = attempt + 1
      /\ UNCHANGED <<count, atStart, newestFirst, entries, page, seen, lastPageKeys,
                     repeatPages, noNewPages>>
  BY DEF Request, cameraVars, listVars
<1>2. Reached' /\ Closed' /\ Repeats' /\ Floor' /\ Relisted' /\ PastTheEnd'
  BY <1>1, ListingKept
<1>3. OnTime' /\ Tried'
  BY <1>1 DEF OnTime, Tried
<1>4. GoodEntries'
  BY <1>1, GoodKept DEF ListParts, GoodEntries, Good, Completes, LeavesNoHole, ListedBefore,
     Whole, NoFurther, ToTheEnd
<1>5. Good(Answer(page)) /\ (Answer(page) = {} => Whole({}))
  BY <1>1, AnswerIsGood DEF ListParts, Reached
<1>6. GoodReplies'
  <2>1. ASSUME NEW r \in replies'
        PROVE  Good(r.entries) /\ (r.entries = {} => Whole({}))
    BY <1>1, <1>5 DEF Request, ListParts, GoodReplies
  <2> QED
    BY <1>1, <2>1, GoodKept DEF GoodReplies
<1>7. Answered'
  <2>1. CASE replies' # {}
    BY <2>1 DEF Answered
  <2>2. CASE replies' = {}
    <3>1. lost' = lost + 1 /\ replies = {}
      BY <2>2 DEF Request
    <3>2. entries = {} /\ lost' < attempt' => Whole({})
      BY <1>1, <3>1, Numbers DEF ListParts, Answered
    <3> QED
      BY <1>1, <3>2, GoodKept DEF Answered
  <2> QED
    BY <2>1, <2>2
<1> QED
  BY <1>2, <1>3, <1>4, <1>6, <1>7 DEF ListParts

LEMMA ReceiveStep ==
    ASSUME TypeInv, ListParts, NEW r \in replies, Receive(r)
    PROVE  ListParts'
<1> USE DEF TypeInv
<1>1. /\ pc = "window" /\ pc' = "window"
      /\ replies' = replies \ {r} /\ entries' = entries \cup r.entries
      /\ UNCHANGED <<count, atStart, newestFirst, page, seen, lastPageKeys, repeatPages,
                     noNewPages, lost, attempt>>
  BY DEF Receive, cameraVars, listVars
<1>2. Reached' /\ Closed' /\ Repeats' /\ Floor' /\ Relisted' /\ PastTheEnd'
  BY <1>1, ListingKept
<1>3. OnTime' /\ Tried'
  BY <1>1 DEF OnTime, Tried
<1>4. Good(r.entries) /\ (r.entries = {} => Whole({}))
  BY <1>1 DEF ListParts, GoodReplies
<1>5. GoodEntries'
  <2>1. Good(entries \cup r.entries)
    <3>1. CASE entries = {}
      BY <1>4, <3>1
    <3>2. CASE entries # {}
      BY <1>1, <1>4, <3>2, GoodTogether DEF ListParts, GoodEntries
    <3> QED
      BY <3>1, <3>2
  <2> QED
    BY <1>1, <2>1 DEF GoodEntries, Good, Completes, LeavesNoHole, ListedBefore,
       Whole, NoFurther, ToTheEnd, Listed, Old
<1>6. GoodReplies'
  BY <1>1, GoodKept DEF ListParts, GoodReplies
<1>7. Answered'
  BY <1>1, <1>4, GoodKept DEF Answered
<1> QED
  BY <1>2, <1>3, <1>5, <1>6, <1>7 DEF ListParts

\* A window that closes on time has all the replies there are.
LEMMA WindowStep ==
    ASSUME TypeInv, ListParts, WindowCloses, late' = late
    PROVE  ListParts'
<1> USE DEF TypeInv
<1>1. /\ pc = "window" /\ pc' \in {"ask", "page"} /\ replies = {} /\ replies' = {}
      /\ UNCHANGED <<count, atStart, newestFirst, page, seen, lastPageKeys, repeatPages,
                     noNewPages, lost, attempt, entries>>
  BY Numbers DEF WindowCloses, cameraVars, pageVars, listVars
<1>2. Reached' /\ Closed' /\ Repeats' /\ Floor' /\ Relisted' /\ PastTheEnd'
  BY <1>1, ListingKept
<1>3. OnTime'
  BY <1>1 DEF OnTime
<1>4. Tried'
  <2>1. attempt \in 0..Retries
    BY DEF TypeOK
  <2> QED
    BY <1>1, <2>1, Numbers DEF WindowCloses, Tried
<1>5. GoodEntries'
  BY <1>1, GoodKept DEF ListParts, GoodEntries, Good, Completes, LeavesNoHole, ListedBefore,
     Whole, NoFurther, ToTheEnd
<1>6. GoodReplies'
  BY <1>1 DEF GoodReplies
<1>7. Answered'
  BY <1>1, GoodKept DEF ListParts, Answered
<1> QED
  BY <1>2, <1>3, <1>4, <1>5, <1>6, <1>7 DEF ListParts

\* The parts that are about a listing still under way hold of one that is over.
LEMMA OverStep ==
    ASSUME TypeInv, ListParts, pc # "done", pc' = "done",
           UNCHANGED <<count, atStart, newestFirst, page>>,
           Closed', Relisted'
    PROVE  ListParts'
<1>1. PastTheEnd'
  BY DEF ListParts, PastTheEnd
<1>2. /\ Reached' /\ OnTime' /\ GoodEntries' /\ GoodReplies' /\ Answered'
      /\ Tried' /\ Repeats' /\ Floor'
  BY DEF Reached, OnTime, GoodEntries, GoodReplies, Answered, Tried, Repeats, Floor
<1> QED
  BY <1>1, <1>2 DEF ListParts

\* An empty page of which one request was not lost is past the end.
LEMMA EmptyStep ==
    ASSUME TypeInv, ListParts, EmptyPage
    PROVE  ListParts'
<1> USE DEF TypeInv
<1>1. /\ pc = "page" /\ entries = {} /\ pc' = "done"
      /\ UNCHANGED <<count, atStart, newestFirst, page, seen, lost>>
  BY DEF EmptyPage, Stop, cameraVars, networkVars, pageVars
<1>2. Closed'
  BY <1>1, GoodKept DEF ListParts, Closed, ListedBefore
<1>3. lost < Retries => Whole({})
  BY <1>1 DEF ListParts, Answered, Tried, OnTime
<1>4. Relisted'
  BY <1>1, <1>3, GoodKept DEF Relisted
<1> QED
  BY <1>1, <1>2, <1>4, OverStep

\* How a page without news compares with those before it.
LEMMA NoNews ==
    ASSUME TypeInv, ListParts, pc = "page", entries # {}, entries \subseteq seen,
           ~Whole({})
    PROVE  atStart + At(noNewPages) + PageSize <= count
<1> USE DEF TypeInv
<1>1. ToTheEnd(entries)
  BY DEF ListParts, GoodEntries, Good, Whole
<1>2. PICK s \in entries : IF newestFirst THEN s + At(page + 1) <= count + 1 ELSE At(page) < s
  BY <1>1 DEF ToTheEnd
<1>3. IF newestFirst THEN atStart + At(noNewPages) < s + At(page)
                     ELSE s + At(noNewPages) <= At(page)
  BY DEF ListParts, Floor
<1>4. s \in Nat /\ At(noNewPages) \in Nat
  BY Numbers, AtFacts DEF ListParts, GoodEntries, Good
<1>5. CASE newestFirst
  BY <1>2, <1>3, <1>4, <1>5, Numbers, AtFacts
<1>6. CASE ~newestFirst
  <2>1. At(page) < s /\ s + At(noNewPages) <= At(page)
    BY <1>2, <1>3, <1>6
  <2> QED
    BY <2>1, <1>4, Numbers
<1> QED
  BY <1>5, <1>6

LEMMA CountNews ==
    ASSUME TypeInv, ListParts, pc = "page", entries # {}, CountPage
    PROVE  /\ repeatPages' \in Nat /\ repeatPages' <= noNewPages'
           /\ \/ entries \subseteq seen /\ noNewPages' = noNewPages + 1
              \/ ~(entries \subseteq seen) /\ noNewPages' = 0
           /\ lastPageKeys' = entries
<1> USE DEF TypeInv
<1>1. entries # NoPage
  BY DEF TypeOK, Shots, NoPage
<1>2. entries = lastPageKeys => entries \subseteq seen
  BY <1>1 DEF ListParts, Repeats
<1>3. repeatPages <= noNewPages
  BY DEF ListParts, Repeats
<1>4. CASE entries \subseteq seen
  <2>1. noNewPages' = noNewPages + 1 /\ repeatPages' \in {0, repeatPages + 1}
    BY <1>4 DEF CountPage
  <2> QED
    BY <1>3, <1>4, <2>1, Numbers DEF CountPage
<1>5. CASE ~(entries \subseteq seen)
  BY <1>2, <1>5 DEF CountPage
<1> QED
  BY <1>4, <1>5

LEMMA RepeatStep ==
    ASSUME TypeInv, ListParts, RepeatedPage
    PROVE  ListParts'
<1> USE DEF TypeInv
<1>1. /\ pc = "page" /\ entries # {} /\ CountPage /\ pc' = "done"
      /\ repeatPages' >= 2 \/ noNewPages' >= 2
      /\ UNCHANGED <<count, atStart, newestFirst, page, seen, lost>>
  BY DEF RepeatedPage, Stop, cameraVars, networkVars, pageVars
<1>2. Closed'
  BY <1>1, GoodKept DEF ListParts, Closed, ListedBefore
<1>3. entries \subseteq seen /\ noNewPages = 1
  <2>1. repeatPages' \in Nat /\ repeatPages' <= noNewPages'
    BY <1>1, CountNews
  <2>2. CASE entries \subseteq seen /\ noNewPages' = noNewPages + 1
    BY <1>1, <2>1, <2>2, Numbers
  <2>3. CASE noNewPages' = 0
    BY <1>1, <2>1, <2>3
  <2> QED
    BY <1>1, CountNews, <2>2, <2>3
<1>4. Whole({}) \/ atStart + At(2) <= count
  BY <1>1, <1>3, NoNews, AtFacts, Numbers
<1>5. Relisted'
  <2>1. count < atStart + At(2) => Whole({})
    BY <1>4, Numbers, AtFacts
  <2> QED
    BY <1>1, <2>1, GoodKept DEF Relisted
<1> QED
  BY <1>1, <1>2, <1>5, OverStep

LEMMA AppendStep ==
    ASSUME TypeInv, ListParts, AppendPage
    PROVE  ListParts'
<1> USE DEF TypeInv
<1>1. /\ pc = "page" /\ entries # {} /\ CountPage /\ replies' = replies /\ replies = {}
      /\ seen' = seen \cup entries
      /\ UNCHANGED <<count, atStart, newestFirst, lost>>
  BY DEF AppendPage, cameraVars, networkVars, ListParts, OnTime
<1>2. Good(entries)
  BY <1>1 DEF ListParts, GoodEntries
<1>3. Closed'
  <2>1. \A i, j \in Old : j \in seen \cup entries /\ ListedBefore(i, j) => i \in seen \cup entries
    BY <1>2 DEF ListParts, Closed, Good, LeavesNoHole
  <2> QED
    BY <1>1, <2>1 DEF Closed, Old, ListedBefore
<1>4. CASE page + 1 = MaxPages
  <2>1. pc' = "done" /\ page' = page /\ reason' = "cap"
    BY <1>4 DEF AppendPage, Stop
  <2>2. Relisted'
    BY <2>1 DEF Relisted
  <2> QED
    BY <1>1, <1>3, <2>1, <2>2, OverStep
<1>5. CASE page + 1 # MaxPages
  <2>1. page' = page + 1 /\ attempt' = 0 /\ entries' = {} /\ pc' = "ask"
    BY <1>5 DEF AppendPage
  <2>2. OnTime' /\ GoodEntries' /\ GoodReplies' /\ Tried' /\ Relisted'
    BY <1>1, <2>1 DEF OnTime, GoodEntries, GoodReplies, Tried, Relisted
  <2>3. Answered'
    BY <1>1, <2>1, Numbers DEF Answered
  <2>4. Reached'
    BY <1>1, <1>2, <2>1 DEF Reached, Good, Completes, Listed, Old
  <2>5. repeatPages' <= noNewPages' /\ lastPageKeys' = entries
    BY <1>1, CountNews
  <2>6. Repeats'
    BY <1>1, <2>5 DEF Repeats
  <2>7. Whole({})' <=> Whole(entries)
    BY <1>1 DEF Whole, Old
  <2>8. At(page') = At(page) + PageSize /\ At(page) \in Nat
    BY <2>1, Numbers
  <2>9. CASE entries \subseteq seen /\ noNewPages' = noNewPages + 1
    <3>1. At(noNewPages') = At(noNewPages) + PageSize /\ At(noNewPages) \in Nat
      BY <2>9, Numbers, AtFacts
    <3>2. seen' = seen
      BY <1>1, <2>9
    <3>3. Floor'
      <4>1. CASE Whole({})
        BY <2>7, <4>1 DEF Floor, Whole
      <4>2. CASE ~Whole({})
        <5>1. ASSUME NEW s \in seen, newestFirst
              PROVE  atStart + At(noNewPages') < s + At(page')
          <6>1. atStart + At(noNewPages) < s + At(page)
            BY <1>1, <4>2, <5>1 DEF ListParts, Floor
          <6>2. s \in Nat
            BY DEF TypeOK, Shots
          <6> QED
            BY <2>8, <3>1, <6>1, <6>2, Numbers, AtFacts
        <5>2. ASSUME NEW s \in seen, ~newestFirst
              PROVE  s + At(noNewPages') <= At(page')
          <6>1. s + At(noNewPages) <= At(page)
            BY <1>1, <4>2, <5>2 DEF ListParts, Floor
          <6>2. s \in Nat
            BY DEF TypeOK, Shots
          <6> QED
            BY <2>8, <3>1, <6>1, <6>2, AtFacts
        <5> QED
          BY <1>1, <3>2, <5>1, <5>2 DEF Floor
      <4> QED
        BY <4>1, <4>2
    <3>4. PastTheEnd'
      <4> SUFFICES ASSUME count = atStart
                   PROVE  PastTheEnd'
        BY <1>1 DEF PastTheEnd
      <4>1. page = 0 \/ At(page) < atStart + PageSize + At(noNewPages)
        BY <1>1 DEF ListParts, PastTheEnd
      <4>2. At(page') < atStart + PageSize + At(noNewPages')
        <5>1. CASE page = 0
          <6>1. PICK s \in entries : s \in 1..count
            BY <1>1, <1>2 DEF Good
          <6> QED
            BY <2>8, <3>1, <5>1, <6>1, Numbers, AtFacts
        <5>2. CASE page # 0
          BY <2>8, <3>1, <4>1, <5>2, Numbers, AtFacts
        <5> QED
          BY <5>1, <5>2
      <4>3. noNewPages' <= 1
        BY <2>1, TypeStep DEF Next, Listing
      <4>4. At(noNewPages') <= PageSize
        BY <2>9, <4>3, Numbers, AtFacts
      <4> QED
        BY <1>1, <2>8, <3>1, <4>2, <4>4, Numbers, AtFacts DEF PastTheEnd
    <3> QED
      BY <1>3, <2>2, <2>3, <2>4, <2>6, <3>3, <3>4 DEF ListParts
  <2>10. CASE ~(entries \subseteq seen) /\ noNewPages' = 0
    <3>1. Floor'
      <4>1. CASE Whole(entries)
        BY <2>7, <4>1 DEF Floor
      <4>2. CASE ~Whole(entries)
        <5>1. NoFurther(entries) /\ ~Whole({})
          BY <1>2, <4>2 DEF Good, Whole
        <5>2. ASSUME NEW s \in seen', newestFirst
              PROVE  atStart < s + At(page')
          <6>1. CASE s \in entries
            BY <2>1, <5>1, <5>2, <6>1 DEF NoFurther
          <6>2. CASE s \in seen
            <7>1. atStart + At(noNewPages) < s + At(page)
              BY <1>1, <5>1, <5>2, <6>2 DEF ListParts, Floor
            <7>2. s \in Nat /\ At(noNewPages) \in Nat
              BY <6>2, Numbers, AtFacts DEF TypeOK, Shots
            <7> QED
              BY <2>8, <7>1, <7>2, Numbers, AtFacts
          <6> QED
            BY <1>1, <6>1, <6>2
        <5>3. ASSUME NEW s \in seen', ~newestFirst
              PROVE  s <= At(page')
          <6>1. CASE s \in entries
            BY <2>1, <5>1, <5>3, <6>1 DEF NoFurther
          <6>2. CASE s \in seen
            <7>1. s + At(noNewPages) <= At(page)
              BY <1>1, <5>1, <5>3, <6>2 DEF ListParts, Floor
            <7>2. s \in Nat /\ At(noNewPages) \in Nat
              BY <6>2, Numbers, AtFacts DEF TypeOK, Shots
            <7> QED
              BY <2>8, <7>1, <7>2, AtFacts
          <6> QED
            BY <1>1, <6>1, <6>2
        <5>4. \A s \in seen' : s \in Nat
          BY <1>1 DEF TypeOK, Shots
        <5>5. At(noNewPages') = 0
          BY <2>10, AtFacts
        <5>6. \A s \in seen' : IF newestFirst THEN atStart + At(noNewPages') < s + At(page')
                                              ELSE s + At(noNewPages') <= At(page')
          BY <5>2, <5>3, <5>4, <5>5, Numbers
        <5> QED
          BY <1>1, <5>6 DEF Floor
      <4> QED
        BY <4>1, <4>2
    <3>2. PastTheEnd'
      <4> SUFFICES ASSUME count = atStart
                   PROVE  PastTheEnd'
        BY <1>1 DEF PastTheEnd
      <4>1. At(page) < atStart
        <5> SUFFICES ASSUME atStart <= At(page)
                     PROVE  FALSE
          BY Numbers
        <5>1. Whole({})
          BY <1>1, PastIsWhole, Numbers DEF ListParts, Reached
        <5>2. entries \subseteq Old
          BY <1>2 DEF Good, Old
        <5> QED
          BY <2>10, <5>1, <5>2 DEF Whole
      <4>2. At(page') < atStart + PageSize
        BY <2>8, <4>1, Numbers, AtFacts
      <4> QED
        BY <1>1, <2>8, <2>10, <4>2, Numbers, AtFacts DEF PastTheEnd
    <3> QED
      BY <1>3, <2>2, <2>3, <2>4, <2>6, <3>1, <3>2 DEF ListParts
  <2> QED
    BY <1>1, CountNews, <2>9, <2>10
<1> QED
  BY <1>4, <1>5

LEMMA ListStep == TypeInv /\ ListInv /\ [Next]_vars => ListInv'
<1> SUFFICES ASSUME TypeInv, ListInv, [Next]_vars, late' = 0
             PROVE  ListParts'
  BY DEF ListInv
<1>1. late = 0
  <2>1. late' = late \/ late' = late + 1
    BY DEF Next, Listing, Request, Receive, WindowCloses, EmptyPage, RepeatedPage, AppendPage,
       Shoot, Returned, networkVars, vars
  <2> QED
    BY <2>1, Numbers DEF TypeInv
<1>2. ListParts
  BY <1>1 DEF ListInv
<1>3. CASE UNCHANGED vars
  <2>1. UNCHANGED <<cameraVars, networkVars, pageVars, listVars, pc>>
    BY <1>3 DEF vars
  <2>2. GoodEntries' = GoodEntries /\ GoodReplies' = GoodReplies
    BY <2>1 DEF GoodEntries, GoodReplies, Good, Completes, LeavesNoHole, ListedBefore, Whole,
       NoFurther, ToTheEnd, Listed, Old, cameraVars, networkVars, pageVars, listVars
  <2> QED
    BY <1>2, <2>1, <2>2 DEF ListParts, Reached, OnTime, Closed, Answered, Tried, Repeats, Floor,
       Relisted, PastTheEnd, Listed, Old, ListedBefore, Whole, cameraVars, networkVars,
       pageVars, listVars
<1>4. CASE Next
  BY <1>1, <1>2, <1>3, <1>4, RequestStep, ReceiveStep, WindowStep, EmptyStep, RepeatStep,
     AppendStep, ShootStep DEF Next, Listing, Returned
<1> QED
  BY <1>3, <1>4

LEMMA Listings == Spec => [](TypeInv /\ ListInv)
BY Bounded, ListInit, ListStep, PTL DEF Spec

-----------------------------------------------------------------------------
\* Whatever is lost and shot meanwhile, and however the camera numbers its pages,
\* the listing has the shots the camera lists first, if no reply misses its window.
THEOREM ListingHasNoHole == Spec => []NoHole
<1>1. ListInv => NoHole
  BY DEF ListInv, ListParts, Closed, NoHole, Old
<1> QED
  BY <1>1, Listings, PTL

\* A listing that stops before the cap is the whole card, if fewer messages are
\* lost than a page has requests and fewer shots taken than two pages hold.
THEOREM ListingIsFull == Spec => []FullRelist
<1>1. At(2) = 2 * PageSize
  BY DEF At
<1>2. ListInv => FullRelist
  BY <1>1 DEF ListInv, ListParts, Relisted, FullRelist, Whole, Old
<1> QED
  BY <1>2, Listings, PTL

\* The listing asks for at most two pages past the end of a card that stays as
\* it is, for any size of page and number of pages.
THEOREM ListingStops == Spec => []StopsAfterTheEnd
<1>1. At(2) = 2 * PageSize /\ At(page) = page * PageSize
  BY DEF At
<1>2. ListInv => StopsAfterTheEnd
  BY <1>1 DEF ListInv, ListParts, PastTheEnd, StopsAfterTheEnd
<1> QED
  BY <1>2, Listings, PTL
=============================================================================
