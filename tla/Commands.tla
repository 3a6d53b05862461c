------------------------------ MODULE Commands ------------------------------
(***************************************************************************)
(* src/command/: the commands a person runs through client_runner.py, once *)
(* there is a session: one item (DownloadSingleCommand), one page of them  *)
(* (DownloadMediaPageCommand), or the names on one page                    *)
(* (ListMediaPageCommand).                                                 *)
(*                                                                         *)
(* The camera may go on shooting; where it lists its newest items first,   *)
(* this moves items to later pages while a command is looking through      *)
(* them.  A page is asked for and answered several times, and whatever     *)
(* comes within its window is taken for the page: a reply that comes late  *)
(* counts for a later one.  Entries are a set: their order on a page is    *)
(* left out.                                                               *)
(***************************************************************************)
EXTENDS Integers, Sequences, FiniteSets, SequencesExt

CONSTANTS
    OldCard,        \* the card's items at the start, as listed: [dir, media, type]
    NewItems,       \* the items shot meanwhile, in this order
    WantedItems,    \* what is asked for: [dir, media]
    PerPage,        \* page_item_cnt
    PageLimit,      \* list_max_pages, which may forbid every page
    MaxReplies      \* replies under way at a time, at most

Items == ToSet(OldCard) \cup ToSet(NewItems)

ASSUME CardAssumption ==
    /\ OldCard \in Seq(Items) /\ NewItems \in Seq(Items)
    /\ PerPage \in Nat \ {0}
    /\ PageLimit \in Int
    /\ MaxReplies \in Nat

Photo == 0
Video == 1

VARIABLES
    cmd,            \* the command
    want,           \* cfg.dir_num and cfg.media_num
    card,           \* the items on the card, as the camera lists them
    newestFirst,    \* it lists what it shot last first, or last
    pageNo,         \* the page that is asked for
    pageReplies,    \* replies under way: the page each is for, and what is on it
    entries,        \* the entries collected for this page
    todo,           \* the items still to be downloaded
    files,          \* the items written below staging
    missed,         \* a page with the item that is asked for was lost
    step            \* where the command is

commandsVars ==
    <<cmd, want, newestFirst, card, pageNo, pageReplies, entries, todo, files, missed, step>>

CommandsInit ==
    /\ cmd \in {"single", "page", "list"}
    /\ want \in WantedItems
    /\ card = OldCard /\ newestFirst \in BOOLEAN
    /\ pageNo = 0 /\ pageReplies = {} /\ entries = {}
    /\ todo = {} /\ files = {}
    /\ missed = FALSE
    /\ step = "asking"

-----------------------------------------------------------------------------
\* The camera shoots.
Shoot ==
    /\ Len(card) < Len(OldCard) + Len(NewItems)
    /\ LET item == NewItems[Len(card) - Len(OldCard) + 1]
       IN  card' = IF newestFirst THEN <<item>> \o card ELSE Append(card, item)
    /\ UNCHANGED <<cmd, want, newestFirst, pageNo, pageReplies, entries, todo, files, missed, step>>

OnPage(n) ==
    {card[i] : i \in {j \in 1..Len(card) : n * PerPage < j /\ j <= n * PerPage + PerPage}}

IsWanted(e) == e.dir = want.dir /\ e.media = want.media

HasWanted(items) == \E e \in items : IsWanted(e)

\* Mutants: one page too many; the search ends at the first empty page, as a
\* listing does.
PageLeftLate == pageNo <= PageLimit

NextPageEmpty == IF entries = {} THEN PageLimit ELSE pageNo + 1

\* range(0, max_pages): an empty page does not end the search.
PageLeft == pageNo < PageLimit

NextPage == pageNo + 1

\* fetch_media_list_page: up to three requests for a page, each with a window of
\* its own; the first window with an entry in it is the last.  How many there are
\* is left out, and so are lost requests: the camera need not answer.
Listening == step = "asking" /\ (cmd = "single" => PageLeft)

PageAnswered ==
    /\ Listening /\ Cardinality(pageReplies) < MaxReplies
    /\ pageReplies' = pageReplies \cup {[page |-> pageNo, items |-> OnPage(pageNo)]}
    /\ UNCHANGED <<cmd, want, newestFirst, card, pageNo, entries, todo, files, missed, step>>

\* A reply is lost: for good where its page is no longer asked for.
PageLost(r) ==
    /\ pageReplies' = pageReplies \ {r}
    /\ missed' = (missed \/ (r.page < pageNo /\ HasWanted(r.items)))
    /\ UNCHANGED <<cmd, want, newestFirst, card, pageNo, entries, todo, files, step>>

\* It is not compared with the page that was asked for.
PageArrives(r) ==
    /\ Listening
    /\ pageReplies' = pageReplies \ {r}
    /\ entries' = entries \cup r.items
    /\ UNCHANGED <<cmd, want, newestFirst, card, pageNo, todo, files, missed, step>>

\* _find_entry: an entry with these numbers, of whatever type.
Found ==
    /\ cmd = "single" /\ Listening
    /\ \E e \in entries : IsWanted(e) /\ todo' = {e}
    /\ step' = "loading"
    /\ UNCHANGED <<cmd, want, newestFirst, card, pageNo, pageReplies, entries, files, missed>>

\* The next page, even after one that looked empty.
PageWithout ==
    /\ cmd = "single" /\ Listening
    /\ ~HasWanted(entries)
    /\ pageNo' = NextPage /\ entries' = {}
    /\ missed' = \/ missed
                 \/ HasWanted(OnPage(pageNo)) /\ ~\E r \in pageReplies : HasWanted(r.items)
    /\ UNCHANGED <<cmd, want, newestFirst, card, pageReplies, todo, files, step>>

\* The pages are used up, or there were none to ask for.
NotFound ==
    /\ cmd = "single" /\ step = "asking" /\ ~PageLeft
    /\ step' = "unfound"
    /\ UNCHANGED <<cmd, want, newestFirst, card, pageNo, pageReplies, entries, todo, files, missed>>

\* One page is listed; of its items the photos and the videos are downloaded.
AskPage ==
    /\ cmd \in {"page", "list"} /\ step = "asking"
    /\ todo' = {e \in entries : cmd = "page" /\ e.type \in {Photo, Video}}
    /\ step' = IF cmd = "page" THEN "loading" ELSE "returned"
    /\ UNCHANGED <<cmd, want, newestFirst, card, pageNo, pageReplies, entries, files, missed>>

\* A photo that fails is reported without a path; the next one follows.
LoadPhoto ==
    /\ step = "loading"
    /\ \E e \in todo :
         /\ e.type = Photo
         /\ files' \in {files, files \cup {e}}
         /\ todo' = todo \ {e}
    /\ UNCHANGED <<cmd, want, newestFirst, card, pageNo, pageReplies, entries, missed, step>>

\* The videos come after the photos.  One that fails ends the command: what was
\* done is not reported.
LoadVideo ==
    /\ step = "loading"
    /\ \E e \in todo :
         /\ e.type = Video /\ \A f \in todo : f.type # Photo
         /\ \/ files' = files \cup {e} /\ todo' = todo \ {e} /\ UNCHANGED step
            \/ step' = "raised" /\ UNCHANGED <<files, todo>>
    /\ UNCHANGED <<cmd, want, newestFirst, card, pageNo, pageReplies, entries, missed>>

\* An item of another type cannot be downloaded.
UnknownType ==
    /\ step = "loading"
    /\ \E e \in todo : e.type \notin {Photo, Video}
    /\ step' = "raised"
    /\ UNCHANGED <<cmd, want, newestFirst, card, pageNo, pageReplies, entries, todo, files, missed>>

Return ==
    /\ step = "loading" /\ todo = {}
    /\ step' = "returned"
    /\ UNCHANGED <<cmd, want, newestFirst, card, pageNo, pageReplies, entries, todo, files, missed>>

CommandOver == step \in {"returned", "raised", "unfound"} /\ UNCHANGED commandsVars

CommandsNext ==
    \/ Shoot \/ PageAnswered \/ \E r \in pageReplies : PageLost(r) \/ PageArrives(r)
    \/ Found \/ PageWithout \/ NotFound \/ AskPage
    \/ LoadPhoto \/ LoadVideo \/ UnknownType \/ Return \/ CommandOver

CommandsSpec == CommandsInit /\ [][CommandsNext]_commandsVars

-----------------------------------------------------------------------------
CommandsTypeOK ==
    /\ cmd \in {"single", "page", "list"} /\ want \in WantedItems
    /\ card \in Seq(Items) /\ newestFirst \in BOOLEAN
    /\ pageNo = 0 \/ pageNo \in 1..PageLimit
    /\ pageReplies \subseteq [page : 0..pageNo, items : SUBSET Items]
    /\ entries \subseteq Items /\ todo \subseteq Items /\ files \subseteq Items
    /\ missed \in BOOLEAN
    /\ step \in {"asking", "loading", "returned", "raised", "unfound"}

\* An item that was on the card within the pages that are looked through is
\* found, although the camera shoots, replies come in the window of a later page
\* and pages before it get lost.  It is left out only where every reply with it
\* was lost, or comes when the last window is over, or where shots push it past
\* the last page.
FoundIfListed ==
    step = "unfound" =>
        \/ missed \/ \E r \in pageReplies : HasWanted(r.items)
        \/ \A n \in 1..Len(OldCard) :
             IsWanted(OldCard[n]) => n + Len(card) - Len(OldCard) > PerPage * PageLimit
=============================================================================
