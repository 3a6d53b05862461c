---------------------------- MODULE MediaListing ----------------------------
(***************************************************************************)
(* src/command/list_media_all_command.py and fetch_media_list_page in      *)
(* src/flows/media_list.py: the paged listing of one camera's SD card over *)
(* UDP, the only thing verify has to go by before the card is formatted.   *)
(*                                                                         *)
(* A page is asked for up to Retries times; each time the client collects, *)
(* for the length of a window, whatever entries arrive, from whichever     *)
(* request.  A page reply is one message (its fragments are joined before  *)
(* they are decrypted, so it counts whole or not at all), and a reply that *)
(* reports an error is one without entries.                                *)
(*                                                                         *)
(* Media keys are numbered in the order they were shot: the card holds     *)
(* 1..count.  The camera may shoot while it is listed.  From which end it  *)
(* lists its card and what it answers past the end are not known from the  *)
(* repository, and both are left open.                                     *)
(***************************************************************************)
EXTENDS Naturals

CONSTANTS
    NItems,         \* shots on the card when the listing starts, at most
    MaxShots,       \* shots the camera takes meanwhile, at most
    PageSize,       \* page_item_cnt
    MaxPages,       \* list_max_pages
    Retries,        \* requests for one page
    MaxLost,        \* requests or replies the network loses, at most
    MaxLate         \* windows that close before a reply under way, at most

ASSUME ConstantsAssumption ==
    /\ {NItems, MaxShots, MaxLost, MaxLate} \subseteq Nat
    /\ {PageSize, MaxPages, Retries} \subseteq Nat \ {0}

Shots == 1..(NItems + MaxShots)

VARIABLES
    \* the camera
    count,          \* its card holds the shots 1..count
    atStart,        \* as many as were on it when the listing began
    newestFirst,    \* it lists the newest shot first, or the oldest
    repeatsLast,    \* past the end it answers with its last page, or with none
    \* the network
    replies,        \* replies under way
    lost, late,     \* replies lost, and windows that missed a reply, so far
    \* fetch_media_list_page
    attempt,        \* requests made for this page
    entries,        \* shots collected for this page
    \* ListMediaAllCommand.run
    page,           \* page_no
    seen,           \* the shots listed so far (all_entries)
    lastPageKeys, repeatPages, noNewPages,
    pc, reason      \* where the listing is, and why it has stopped

cameraVars  == <<count, atStart, newestFirst, repeatsLast>>
networkVars == <<replies, lost, late>>
pageVars    == <<attempt, entries>>
listVars    == <<page, seen, lastPageKeys, repeatPages, noNewPages, reason>>
vars        == <<cameraVars, networkVars, pageVars, listVars, pc>>

NoPage == {0}       \* last_page_keys is None: no page has this set of keys

-----------------------------------------------------------------------------
(* The camera.                                                             *)

\* The i-th shot of the camera's listing, and its page p, counted from 0.
Nth(i) == IF newestFirst THEN count + 1 - i ELSE i

PageAt(p) == {Nth(i) : i \in {j \in 1..count : p * PageSize < j /\ j <= (p + 1) * PageSize}}

LastPage == {Nth(i) : i \in {j \in 1..count : \E p \in 0..count :
                 p * PageSize < j /\ p * PageSize < count /\ count <= (p + 1) * PageSize}}

Answer(p) == IF repeatsLast /\ p * PageSize >= count THEN LastPage ELSE PageAt(p)

Shoot ==
    /\ pc # "done"
    /\ count < atStart + MaxShots
    /\ count' = count + 1
    /\ UNCHANGED <<atStart, newestFirst, repeatsLast, networkVars, pageVars, listVars, pc>>

-----------------------------------------------------------------------------
Init ==
    /\ atStart \in 0..NItems
    /\ count = atStart
    /\ newestFirst \in BOOLEAN
    /\ repeatsLast \in BOOLEAN
    /\ replies = {} /\ lost = 0 /\ late = 0
    /\ attempt = 0 /\ entries = {}
    /\ page = 0 /\ seen = {} /\ lastPageKeys = NoPage
    /\ repeatPages = 0 /\ noNewPages = 0
    /\ pc = "ask" /\ reason = "none"

(* fetch_media_list_page.                                                  *)

\* The page is asked for; the request or its reply may be lost.
Request ==
    /\ pc = "ask"
    /\ attempt' = attempt + 1
    /\ \/ /\ replies' = replies \cup
                 {[page |-> page, attempt |-> attempt', entries |-> Answer(page)]}
          /\ UNCHANGED lost
       \/ lost < MaxLost /\ lost' = lost + 1 /\ UNCHANGED replies
    /\ pc' = "window"
    /\ UNCHANGED <<cameraVars, late, entries, listVars>>

\* A reply arrives in the window: nothing in it is compared with the request.
Receive(r) ==
    /\ pc = "window"
    /\ r \in replies
    /\ replies' = replies \ {r}
    /\ entries' = entries \cup r.entries
    /\ UNCHANGED <<cameraVars, lost, late, attempt, listVars, pc>>

\* Mutant: one request fewer than the code makes.
WindowClosesTooSoon ==
    /\ pc = "window"
    /\ \/ replies = {} /\ UNCHANGED late
       \/ replies # {} /\ late < MaxLate /\ late' = late + 1
    /\ pc' = IF entries = {} /\ attempt + 1 < Retries THEN "ask" ELSE "page"
    /\ UNCHANGED <<cameraVars, replies, lost, pageVars, listVars>>

\* Mutant: an empty window is not counted as an attempt.
WindowClosesUncounted ==
    /\ pc = "window"
    /\ \/ replies = {} /\ UNCHANGED late
       \/ replies # {} /\ late < MaxLate /\ late' = late + 1
    /\ pc' = IF entries = {} THEN "ask" ELSE "page"
    /\ attempt' = IF entries = {} THEN attempt - 1 ELSE attempt
    /\ UNCHANGED <<cameraVars, replies, lost, entries, listVars>>

\* The window is over, with a reply still under way only if it is late.
WindowCloses ==
    /\ pc = "window"
    /\ \/ replies = {} /\ UNCHANGED late
       \/ replies # {} /\ late < MaxLate /\ late' = late + 1
    /\ pc' = IF entries = {} /\ attempt < Retries THEN "ask" ELSE "page"
    /\ UNCHANGED <<cameraVars, replies, lost, pageVars, listVars>>

(* ListMediaAllCommand.run.                                                *)

Stop(why) ==
    /\ reason' = why
    /\ pc' = "done"

\* Mutant: a page without entries is passed over.
EmptyPagePassedOver ==
    /\ pc = "page"
    /\ entries = {}
    /\ IF page + 1 = MaxPages
         THEN Stop("cap") /\ UNCHANGED page
         ELSE page' = page + 1 /\ pc' = "ask" /\ UNCHANGED reason
    /\ attempt' = 0
    /\ UNCHANGED <<cameraVars, networkVars, entries, seen, lastPageKeys,
                   repeatPages, noNewPages>>

\* A page without entries is taken for the end of the card.
EmptyPage ==
    /\ pc = "page"
    /\ entries = {}
    /\ Stop("empty")
    /\ UNCHANGED <<cameraVars, networkVars, pageVars,
                   page, seen, lastPageKeys, repeatPages, noNewPages>>

\* Mutant: a page is not compared with the ones before it.
CountPageForgetful ==
    /\ noNewPages' = 0
    /\ repeatPages' = 0
    /\ lastPageKeys' = entries

\* How the page compares with the ones before it.
CountPage ==
    /\ noNewPages' = IF entries \subseteq seen THEN noNewPages + 1 ELSE 0
    /\ repeatPages' = IF entries = lastPageKeys THEN repeatPages + 1 ELSE 0
    /\ lastPageKeys' = entries

\* The third page with the same shots, or the second without a new one.
RepeatedPage ==
    /\ pc = "page"
    /\ entries # {}
    /\ CountPage
    /\ repeatPages' >= 2 \/ noNewPages' >= 2
    /\ Stop("repeat")
    /\ UNCHANGED <<cameraVars, networkVars, pageVars, page, seen>>

\* The page's new shots are appended and the next page is asked for, unless
\* the pages are used up.
AppendPage ==
    /\ pc = "page"
    /\ entries # {}
    /\ CountPage
    /\ repeatPages' < 2 /\ noNewPages' < 2
    /\ seen' = seen \cup entries
    /\ IF page + 1 = MaxPages
         THEN Stop("cap") /\ UNCHANGED <<page, pageVars>>
         ELSE /\ page' = page + 1
              /\ attempt' = 0
              /\ entries' = {}
              /\ pc' = "ask"
              /\ UNCHANGED reason
    /\ UNCHANGED <<cameraVars, networkVars>>

-----------------------------------------------------------------------------
Listing ==
    \/ Request \/ WindowCloses \/ EmptyPage \/ RepeatedPage \/ AppendPage
    \/ \E r \in replies : Receive(r)

\* The listing has returned.
Returned == pc = "done" /\ UNCHANGED vars

Next == Listing \/ Shoot \/ Returned

Spec == Init /\ [][Next]_vars

\* The client's loop runs and its windows close on their own.
FairSpec == Spec /\ WF_vars(Listing)

-----------------------------------------------------------------------------
(* Correctness.                                                            *)

Reply == [page : 0..MaxPages, attempt : 1..Retries, entries : SUBSET Shots]

TypeOK ==
    /\ atStart \in 0..NItems
    /\ count \in atStart..(atStart + MaxShots)
    /\ newestFirst \in BOOLEAN /\ repeatsLast \in BOOLEAN
    /\ replies \subseteq Reply
    /\ lost \in 0..MaxLost /\ late \in 0..MaxLate
    /\ attempt \in 0..Retries /\ entries \subseteq Shots
    /\ page \in 0..(MaxPages - 1) /\ seen \subseteq Shots
    /\ lastPageKeys = NoPage \/ lastPageKeys \subseteq Shots
    /\ repeatPages \in 0..2 /\ noNewPages \in 0..2
    /\ pc \in {"ask", "window", "page", "done"}
    /\ reason \in {"none", "empty", "repeat", "cap"}

ListedBefore(i, j) == IF newestFirst THEN i > j ELSE i < j

\* Whatever is lost, and although the camera shoots meanwhile and the pages
\* shift, the listing never has a hole: of the shots on the card at the start it
\* has those the camera lists first, up to where it stopped.  A reply that misses
\* its window breaks this: it is taken for the next page.
NoHole ==
    late = 0 =>
        \A i, j \in 1..atStart : j \in seen /\ ListedBefore(i, j) => i \in seen

\* A listing that stops before the cap has every shot that was on the card when
\* it began ("full relist"), unless as many messages were lost as one page has
\* requests, a reply missed its window, or the camera meanwhile took two pages
\* full of shots: its pages may then shift so far that two bring nothing new.
FullRelist ==
    /\ pc = "done" /\ reason # "cap"
    /\ lost < Retries /\ late = 0
    /\ count < atStart + 2 * PageSize
    => 1..atStart \subseteq seen

\* A camera that answers a page past the end with its last page is asked for at
\* most two such pages before the listing stops, unless it took a shot meanwhile
\* or a reply missed its window.
StopsAfterTheEnd ==
    late = 0 /\ count = atStart => page * PageSize < atStart + 2 * PageSize

\* Every listing ends.
ListingEnds == <>(pc = "done")
=============================================================================
