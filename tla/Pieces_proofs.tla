------------------------ MODULE Pieces_proofs ------------------------
(***************************************************************************)
(* Proofs about what runs beside the transfers.                            *)
(*                                                                         *)
(* WeekBucket, for every weekday and hour of the rollover and for all      *)
(* time: a time t is hour h of weekday k of week w, and everything follows *)
(* from the label being w, or w + 1 from the boundary hour to the end of   *)
(* the boundary day; on a Sunday, where that day ends the ISO week, this   *)
(* is the number of rollovers so far.                                      *)
(*                                                                         *)
(* Startup, for any configurations, command lines and controllers.         *)
(* Commands, for any card, shots, page size and number of pages.           *)
(* LayoutTools, for any files, sizes, offset and interruptions.  At the    *)
(* end, their composition.                                                 *)
(***************************************************************************)
EXTENDS MCPieces, PhotoTransfer_proofs

-----------------------------------------------------------------------------
(* WeekBucket.                                                             *)

WeekOf(t) == (t \div 24) \div 7

\* A time in hours, weekdays and weeks.
LEMMA Split ==
    ASSUME NEW t \in Nat
    PROVE  /\ WeekOf(t) \in Nat /\ WeekdayOf(t) \in 0..6 /\ HourOf(t) \in 0..23
           /\ t = 168 * WeekOf(t) + 24 * WeekdayOf(t) + HourOf(t)
<1> DEFINE d == t \div 24
           h == t % 24
           w == d \div 7
           k == d % 7
<1>1. d \in Nat /\ h \in 0..23 /\ t = 24 * d + h
  BY SMT
<1>2. w \in Nat /\ k \in 0..6 /\ d = 7 * w + k
  BY <1>1, SMT
<1>3. WeekOf(t) = w /\ WeekdayOf(t) = k /\ HourOf(t) = h
  BY DEF WeekOf, WeekdayOf, HourOf
<1> HIDE DEF d, h, w, k
<1> QED BY <1>1, <1>2, <1>3, SMT

\* The ISO week, and the shift to the next Monday that gives the next one.
LEMMA LabelOf ==
    ASSUME weekday \in 0..6, hour \in 0..23, NEW t \in Nat
    PROVE  /\ IsoWeek(t) = WeekOf(t)
           /\ Label(t) = WeekOf(t) + (IF PastRollover(t) THEN 1 ELSE 0)
<1> DEFINE w == WeekOf(t)
           k == WeekdayOf(t)
           h == HourOf(t)
<1>1. w \in Nat /\ k \in 0..6 /\ h \in 0..23 /\ t = 168 * w + 24 * k + h
  BY Split
<1>2. DaysToNextMonday(t) = 7 - WeekdayOf(t)
  <2>1. WeekdayOf(t) \in 0..6
    BY Split
  <2> HIDE DEF k
  <2> QED BY <2>1, SMT DEF DaysToNextMonday
<1> HIDE DEF w, k, h
<1>3. t \div 168 = w /\ (t + 24 * (7 - k)) \div 168 = w + 1
  BY <1>1, SMT
<1> QED BY <1>2, <1>3 DEF Label, IsoWeek, w, k

\* The reference says the same in terms of w, k and h.
LEMMA RolloversUpTo ==
    ASSUME weekday \in 0..6, hour \in 0..23, NEW t \in Nat
    PROVE  WeekSinceRollover(t) =
             WeekOf(t) + (IF 24 * WeekdayOf(t) + HourOf(t) >= 24 * weekday + hour THEN 1 ELSE 0)
<1> DEFINE w == WeekOf(t)
           r == 24 * weekday + hour
           o == 24 * WeekdayOf(t) + HourOf(t)
<1>1. w \in Nat /\ r \in 0..167 /\ o \in 0..167 /\ t = 168 * w + o
  <2> DEFINE k == WeekdayOf(t)
             h == HourOf(t)
  <2>1. w \in Nat /\ k \in 0..6 /\ h \in 0..23 /\ t = 168 * w + 24 * k + h
    BY Split
  <2>2. r = 24 * weekday + hour /\ o = 24 * k + h
    OBVIOUS
  <2> HIDE DEF w, k, h, r, o
  <2>3. r \in 0..167
    BY <2>2, SMTT(20)
  <2> QED
    BY <2>1, <2>2, <2>3, SMTT(20)
<1> HIDE DEF w, r, o
<1>2. (t + 168 - r) \div 168 = w + (IF o >= r THEN 1 ELSE 0)
  BY <1>1, SMT
<1> QED BY <1>2 DEF WeekSinceRollover, w, r, o

\* An hour makes a difference of at most one rollover, and never backwards.
LEMMA OneHourLater ==
    ASSUME weekday \in 0..6, hour \in 0..23, NEW t \in Nat
    PROVE  WeekSinceRollover(t + 1) \in {WeekSinceRollover(t), WeekSinceRollover(t) + 1}
BY SMT DEF WeekSinceRollover

\* From Sunday being the last day of an ISO week.
LEMMA SundayLabel ==
    ASSUME weekday = Sunday, hour \in 0..23, NEW t \in Nat
    PROVE  Label(t) = WeekSinceRollover(t)
<1>1. weekday \in 0..6 /\ WeekdayOf(t) \in 0..6 /\ HourOf(t) \in 0..23
  BY Split DEF Sunday
<1>2. PastRollover(t) <=> 24 * WeekdayOf(t) + HourOf(t) >= 24 * weekday + hour
  BY <1>1, SMT DEF PastRollover, Sunday
<1> QED BY <1>1, <1>2, LabelOf, RolloversUpTo

-----------------------------------------------------------------------------
ClockInv == weekday \in 0..6 /\ hour \in 0..23 /\ now \in Nat

LEMMA ClockInit == WeekInit => ClockInv
  BY WeekAssumption DEF WeekInit, ClockInv

LEMMA ClockStep == ClockInv /\ [WeekNext]_weekVars => ClockInv'
  BY SMT DEF ClockInv, WeekNext, Tick, Stop, weekVars

\* The configuration does not change while the clock runs.
LEMMA ClockStays == WeekSpec => []ClockInv
  BY ClockInit, ClockStep, PTL DEF WeekSpec

\* With the rollover on a Sunday, at whatever hour, a file's label is the number
\* of rollovers before it was taken.
THEOREM SundayLabelIsWeek == WeekSpec => []LabelIsWeekSinceRollover
<1>1. ClockInv => LabelIsWeekSinceRollover
  BY SundayLabel DEF ClockInv, LabelIsWeekSinceRollover
<1> QED BY <1>1, ClockStays, PTL

\* With the rollover on a Sunday a later shot is never filed under an earlier
\* week.
THEOREM SundayNeverBack == WeekSpec => NeverBack
<1>1. ClockInv /\ [WeekNext]_weekVars
        => [weekday = Sunday => Label(now') \in {Label(now), Label(now) + 1}]_weekVars
  <2> SUFFICES ASSUME ClockInv, WeekNext, weekVars' # weekVars, weekday = Sunday
               PROVE  Label(now') \in {Label(now), Label(now) + 1}
    OBVIOUS
  <2>1. now' = now + 1 /\ now \in Nat /\ hour \in 0..23 /\ weekday \in 0..6
    BY SMT DEF WeekNext, Tick, Stop, weekVars, ClockInv
  <2>2. Label(now) = WeekSinceRollover(now) /\ Label(now + 1) = WeekSinceRollover(now + 1)
    <3>1. now + 1 \in Nat
      BY <2>1, SMT
    <3> QED BY <2>1, <3>1, SundayLabel
  <2>3. WeekSinceRollover(now + 1) \in {WeekSinceRollover(now), WeekSinceRollover(now) + 1}
    BY <2>1, OneHourLater
  <2> QED BY <2>1, <2>2, <2>3
<1> QED BY <1>1, ClockStays, PTL DEF WeekSpec, NeverBack

\* On any weekday a file is filed under the ISO week of its day or, after the
\* rollover, under the next; it lags behind the rollovers by one week at most.
THEOREM NeverFarAhead == WeekSpec => []AtMostOneWeekAhead
<1>1. ASSUME ClockInv
      PROVE  AtMostOneWeekAhead
  <2>1. weekday \in 0..6 /\ hour \in 0..23 /\ now \in Nat
    BY <1>1 DEF ClockInv
  <2>2. WeekOf(now) \in Nat /\ WeekdayOf(now) \in 0..6 /\ HourOf(now) \in 0..23
    BY <2>1, Split
  <2>3. PastRollover(now) => 24 * WeekdayOf(now) + HourOf(now) >= 24 * weekday + hour
    BY <2>1, <2>2, SMT DEF PastRollover
  <2>4. Label(now) = IsoWeek(now) + (IF PastRollover(now) THEN 1 ELSE 0)
    BY <2>1, LabelOf
  <2>5. WeekSinceRollover(now) - Label(now) \in {0, 1}
    BY <2>1, <2>2, <2>3, LabelOf, RolloversUpTo, SMT
  <2> QED BY <2>4, <2>5 DEF AtMostOneWeekAhead
<1> QED BY <1>1, ClockStays, PTL

-----------------------------------------------------------------------------
(* Startup.                                                                *)

\* A camera is woken only with a configuration, and after the adapter was there;
\* what is refused late is what the parser does not look at.
StartupInv ==
    /\ StartupTypeOK
    /\ stage \notin {"started", "status", "refused"} => settings # Absent
    /\ stage \notin {"started", "configured", "status", "refused"} => BluetoothThere(hciconfig, sysfs)
    /\ stage = "unresolved" => settings.adapter \in Addrs /\ \A n \in Names : ~HasIt(atWake, n)
    /\ RefusedBeforeConnect

\* What is counted or compared is a number.
LEMMA PageNumbers ==
  ASSUME StartupTypeOK, settings # Absent
  PROVE  PageItems(program) \in Int /\ MaxPages \in Int
<1>1. {settings.items, settings.pages, options.items, options.pages} \subseteq Int \cup {Absent}
  BY StartupAssumption DEF StartupTypeOK
<1> QED
  BY <1>1 DEF PageItems, MaxPages, Given, DefaultPageItems, MaxPageItems

\* The parser clamps the page size of the commands it knows to ask for pages.
LEMMA Clamped ==
  ASSUME StartupTypeOK, settings # Absent, options.op \in PageOps
  PROVE  PageItems(program) < MaxPageItems
<1> DEFINE n == IF program = "sync" THEN Given(Absent, settings.items, DefaultPageItems)
                                    ELSE Given(options.items, settings.items, DefaultPageItems)
<1>1. {settings.items, options.items} \subseteq Int \cup {Absent}
  BY StartupAssumption DEF StartupTypeOK
<1>2. n \in Int
  BY <1>1 DEF Given, DefaultPageItems
<1>3. PageItems(program) = IF n >= MaxPageItems THEN DefaultPageItems ELSE n
  BY DEF PageItems
<1> HIDE DEF n
<1> QED
  BY <1>2, <1>3 DEF DefaultPageItems, MaxPageItems

LEMMA StartupTypes == StartupTypeOK /\ [StartupNext]_startupVars => StartupTypeOK'
  BY DEF StartupTypeOK, StartupNext, startupVars, Configure, Check, Resolve, NoLookup, Command, Over, Reaches

LEMMA StartupStep ==
  ASSUME StartupInv, [StartupNext]_startupVars
  PROVE  StartupInv'
<1>0. StartupTypeOK /\ StartupTypeOK'
  BY StartupTypes DEF StartupInv
<1>1. CASE Configure
  <2>1. /\ UNCHANGED <<program, settings, options>>
        /\ stage' \in {"status", "refused", "configured"}
        /\ stage' = "configured" => settings # Absent
    BY <1>1 DEF Configure, Reaches, Wellformed
  <2> QED
    BY <1>0, <2>1 DEF StartupInv, RefusedBeforeConnect
<1>2. CASE Check
  <2>1. /\ stage = "configured" /\ UNCHANGED <<program, settings, options>>
        /\ stage' \in {"refused", "checked"}
        /\ stage' = "checked" => BluetoothThere(hciconfig', sysfs')
    BY <1>2 DEF Check, Reaches
  <2>2. BluetoothThere(hciconfig', sysfs') => BluetoothThere(hciconfig, sysfs)'
    BY <2>1 DEF BluetoothThere, Controllers, Shown
  <2> QED
    BY <1>0, <2>1, <2>2 DEF StartupInv, RefusedBeforeConnect
<1>3. CASE UNCHANGED <<program, settings, options, hciconfig, sysfs>> /\ stage \in {"checked", "connected"}
           /\ stage' \in {"unresolved", "connected", "running", "refused late", "no token"}
           /\ (stage' = "unresolved" => settings.adapter \in Addrs /\ \A n \in Names : ~HasIt(atWake, n)')
           /\ (stage' = "refused late" => \E token \in Nat \ {0} : ~Valid(token))
  <2>1. BluetoothThere(hciconfig, sysfs)' = BluetoothThere(hciconfig, sysfs)
    BY <1>3 DEF BluetoothThere, Controllers, Shown
  <2>2. ASSUME stage' = "refused late"
        PROVE  \/ options.op \in {"download_single", "sync"} /\ PageItems(program) >= MaxPageItems
               \/ options.op \in {"list_media_all", "sync"} /\ MaxPages <= 0
               \/ options.op = "download_page" /\ DirectoryEmpty
    <3>1. PICK token \in Nat \ {0} : ~Valid(token)
      BY <1>3, <2>2
    <3>2. settings # Absent
      BY <1>3 DEF StartupInv
    <3>3. PageItems(program) \in Int /\ MaxPages \in Int
      BY <1>0, <3>2, PageNumbers
    <3>4. options.op \in PageOps => PageItems(program) < MaxPageItems
      BY <1>0, <3>2, Clamped
    <3>5. \/ options.op \in PageOps \cup {"download_single", "sync"} /\ ~(PageItems(program) < MaxPageItems)
          \/ options.op \in {"list_media_all", "sync"} /\ ~(MaxPages > 0)
          \/ options.op = "download_page" /\ DirectoryEmpty
      BY <3>1 DEF Valid
    <3> QED
      BY <3>3, <3>4, <3>5 DEF MaxPageItems
  <2>3. RefusedBeforeConnect'
    BY <1>3, <2>2 DEF RefusedBeforeConnect, PageItems, MaxPages, DirectoryEmpty, Given
  <2> QED
    BY <1>0, <1>3, <2>1, <2>3 DEF StartupInv
<1>4. CASE UNCHANGED startupVars
  BY <1>0, <1>4
     DEF StartupInv, startupVars, BluetoothThere, Controllers, HasIt, Shown, RefusedBeforeConnect,
         PageItems, MaxPages, DirectoryEmpty, Given
<1>5. CASE Resolve \/ NoLookup
  BY <1>3, <1>5 DEF Resolve, NoLookup, HasIt, Reaches
<1>6. CASE Command
  <2>1. stage' = "refused late" => \E token \in Nat \ {0} : ~Valid(token)
    <3>1. PICK token \in 0..1 :
             stage' = IF options.op = "login_only" \/ Valid(token) THEN "running"
                      ELSE IF token > 0 THEN "refused late" ELSE "no token"
      BY <1>6 DEF Command, Reaches
    <3>2. stage' = "refused late" => token > 0 /\ ~Valid(token)
      BY <3>1
    <3>3. token > 0 => token \in Nat \ {0}
      OBVIOUS
    <3> QED
      BY <3>2, <3>3
  <2> QED
    BY <1>3, <1>6, <2>1 DEF Command, Reaches
<1> QED
  BY <1>1, <1>2, <1>4, <1>5, <1>6 DEF StartupNext, Over

LEMMA StartupInitial == StartupInit => StartupInv
  BY DEF StartupInit, StartupInv, StartupTypeOK, RefusedBeforeConnect, Tables

LEMMA StartupAlways == StartupSpec => []StartupInv
<1>1. StartupInv /\ [StartupNext]_startupVars => StartupInv'
  BY StartupStep
<1> QED
  BY StartupInitial, <1>1, PTL DEF StartupSpec

\* Every program gets as far as one of the stages, in a state of its type.
THEOREM StartupTyped == StartupSpec => []StartupTypeOK
<1>1. StartupInv => StartupTypeOK
  BY DEF StartupInv
<1> QED
  BY <1>1, StartupAlways, PTL

\* A run that its own settings forbid stops before a camera is woken, but for the
\* page size and number of pages of the commands the parser does not know and for
\* an empty directory of a page's download.
THEOREM ForbiddenRunsStopEarly == StartupSpec => []RefusedBeforeConnect
<1>1. StartupInv => RefusedBeforeConnect
  BY DEF StartupInv
<1> QED
  BY <1>1, StartupAlways, PTL

\* A controller that was there at the check is found at the wake, unless hciconfig
\* does not know it or does not show it any more: for any controllers, addresses
\* and configurations.
THEOREM FoundAgain == StartupSpec => []CheckedIsResolved
<1>1. StartupInv => CheckedIsResolved
  <2> SUFFICES ASSUME StartupInv, stage = "unresolved"
               PROVE  CheckedIsResolved
    BY DEF CheckedIsResolved
  <2> DEFINE shown == Shown(hciconfig)
             known == Controllers(hciconfig, sysfs)
  <2>1. settings.adapter \in Addrs /\ \A n \in Names : ~HasIt(atWake, n)
    BY DEF StartupInv
  <2>2. /\ known = [n \in DOMAIN shown \cup DOMAIN sysfs |-> IF n \in DOMAIN shown THEN shown[n] ELSE sysfs[n]]
        /\ DOMAIN known = DOMAIN shown \cup DOMAIN sysfs
    BY DEF Controllers
  <2>3. DOMAIN shown \subseteq Names /\ DOMAIN sysfs \subseteq Names
    <3>1. \A t \in Tables : DOMAIN t \subseteq Names
      BY DEF Tables
    <3>2. DOMAIN <<>> = {}
      OBVIOUS
    <3> QED
      BY <3>1, <3>2 DEF StartupInv, StartupTypeOK, Shown
  <2>4. settings.adapter \notin Names /\ settings.adapter # Absent
    BY <2>1, StartupAssumption
  <2>5. PICK n \in DOMAIN known : known[n] = settings.adapter
    BY <2>2, <2>3, <2>4 DEF StartupInv, BluetoothThere
  <2>6. CASE n \in DOMAIN shown
    <3>1. n \in Names /\ HasIt(hciconfig, n) /\ ~HasIt(atWake, n)
      BY <2>1, <2>2, <2>3, <2>5, <2>6 DEF HasIt
    <3> QED
      BY <3>1 DEF CheckedIsResolved
  <2>7. CASE n \notin DOMAIN shown
    <3>1. n \in DOMAIN sysfs \ DOMAIN shown /\ sysfs[n] = settings.adapter
      BY <2>2, <2>5, <2>7
    <3> QED
      BY <3>1 DEF CheckedIsResolved
  <2> QED
    BY <2>6, <2>7
<1> QED
  BY <1>1, StartupAlways, PTL

-----------------------------------------------------------------------------
(* Commands.                                                               *)

OldCount == Len(OldCard)

\* Where the n-th item of the card at the start stands now.
Place(n) == n + (IF newestFirst THEN Len(card) - OldCount ELSE 0)

PlaceNext(n) == n + (IF newestFirst' THEN Len(card') - OldCount ELSE 0)

\* Pages looked at so far, in items.
Seen == pageNo * PerPage

CardTypes ==
    /\ cmd \in {"single", "page", "list"} /\ want \in WantedItems
    /\ card \in Seq(Items) /\ newestFirst \in BOOLEAN
    /\ Len(card) - OldCount \in 0..Len(NewItems)
    /\ pageNo \in Nat /\ missed \in BOOLEAN

\* A reply for an earlier page is under way that has what is asked for.
LateWith == \E r \in pageReplies : r.page < pageNo /\ HasWanted(r.items)

\* The search stops behind the last page, with nothing collected for another.
\* Until it has collected what is asked for, or a late reply is still to bring it,
\* and unless such a reply was lost, every item of the start that is asked for
\* lies behind the pages that were looked at.
FindInv ==
    /\ CardTypes
    /\ \A r \in pageReplies : r.page \in Nat /\ r.page <= pageNo
    /\ \A n \in 1..OldCount : card[Place(n)] = OldCard[n]
    /\ step = "unfound" => cmd = "single" /\ ~PageLeft
    /\ cmd = "single" /\ step \in {"asking", "unfound"} /\ ~PageLeft => entries = {}
    /\ cmd = "single" /\ step \in {"asking", "unfound"} =>
         \/ missed \/ HasWanted(entries) \/ LateWith
         \/ \A n \in 1..OldCount : IsWanted(OldCard[n]) => Place(n) > Seen

LEMMA Lengths ==
  OldCard \in Seq(Items) /\ NewItems \in Seq(Items) /\ OldCount \in Nat /\ Len(NewItems) \in Nat /\ PerPage \in Nat /\ PerPage >= 1 /\ PageLimit \in Int
  BY CardAssumption DEF OldCount

LEMMA SeenType ==
  ASSUME pageNo \in Nat
  PROVE  Seen \in Nat /\ Seen = pageNo * PerPage
  BY Lengths DEF Seen

LEMMA ItemOf ==
  ASSUME NEW seq \in Seq(Items), NEW i \in 1..Len(seq)
  PROVE  seq[i] \in Items
  OBVIOUS

LEMMA PlaceType ==
  ASSUME CardTypes, NEW n \in 1..OldCount
  PROVE  Place(n) \in 1..Len(card) /\ Place(n) <= n + Len(card) - OldCount
  BY Lengths DEF CardTypes, Place

\* A page that does not hold what is asked for moves the search past it.
LEMMA PageSearched ==
  ASSUME FindInv, NEW n \in 1..OldCount, IsWanted(OldCard[n]), Place(n) > Seen,
         ~HasWanted(OnPage(pageNo))
  PROVE  Place(n) > Seen + PerPage
<1>1. Place(n) \in 1..Len(card) /\ pageNo \in Nat /\ Seen \in Nat /\ card[Place(n)] = OldCard[n]
  BY PlaceType, SeenType DEF FindInv, CardTypes
<1>2. SUFFICES ASSUME Place(n) <= Seen + PerPage PROVE FALSE
  BY <1>1, Lengths
<1>3. card[Place(n)] \in OnPage(pageNo)
  BY <1>1, <1>2 DEF OnPage, Seen
<1> QED
  BY <1>1, <1>3 DEF HasWanted

LEMMA FindInit == CommandsInit => FindInv
<1> SUFFICES ASSUME CommandsInit PROVE FindInv
  OBVIOUS
<1>1. Seen = 0 /\ card = OldCard /\ \A n \in 1..OldCount : Place(n) = n
  BY Lengths DEF CommandsInit, Seen, Place, OldCount
<1>2. CardTypes
  <2>1. /\ cmd \in {"single", "page", "list"} /\ want \in WantedItems
        /\ newestFirst \in BOOLEAN /\ missed \in BOOLEAN
    BY DEF CommandsInit
  <2>2. card \in Seq(Items) /\ Len(card) = OldCount
    BY <1>1, CardAssumption DEF OldCount
  <2>3. Len(card) - OldCount \in 0..Len(NewItems)
    BY <2>2, Lengths
  <2>4. pageNo \in Nat
    BY DEF CommandsInit
  <2> QED
    BY <2>1, <2>2, <2>3, <2>4 DEF CardTypes
<1>3. pageReplies = {} /\ entries = {} /\ step = "asking"
  BY DEF CommandsInit
<1>4. \A n \in 1..OldCount : card[Place(n)] = OldCard[n] /\ Place(n) > Seen
  BY <1>1
<1> QED
  BY <1>2, <1>3, <1>4 DEF FindInv

LEMMA FindStep ==
  ASSUME FindInv, [CommandsNext]_commandsVars
  PROVE  FindInv'
<1> USE DEF FindInv
<1>w. want' = want /\ cmd' = cmd /\ newestFirst' = newestFirst
  BY DEF CommandsNext, Shoot, PageAnswered, PageLost, PageArrives, Found, PageWithout, NotFound,
         AskPage, LoadPhoto, LoadVideo, UnknownType, Return, CommandOver, commandsVars
<1>i. \A e : IsWanted(e)' = IsWanted(e)
  BY <1>w DEF IsWanted
<1>h. HasWanted(entries)' = HasWanted(entries') /\ \A r : HasWanted(r.items)' = HasWanted(r.items)
  BY <1>i DEF HasWanted
<1>1. CASE Shoot
  <2> DEFINE item == NewItems[Len(card) - OldCount + 1]
  <2>1. /\ Len(card) - OldCount + 1 \in 1..Len(NewItems) /\ card \in Seq(Items)
        /\ UNCHANGED <<pageNo, missed, step, pageReplies, entries>>
        /\ card' = IF newestFirst THEN <<item>> \o card ELSE Append(card, item)
    BY <1>1, Lengths DEF Shoot, CardTypes, OldCount
  <2>2. item \in Items
    BY <2>1, ItemOf, CardAssumption
  <2> HIDE DEF item
  <2>3. /\ card' \in Seq(Items) /\ Len(card') = Len(card) + 1
        /\ newestFirst => \A p \in 1..Len(card) : card'[p + 1] = card[p]
        /\ ~newestFirst => \A p \in 1..Len(card) : card'[p] = card[p]
    BY <2>1, <2>2 DEF CardTypes
  <2>4. CardTypes'
    BY <1>w, <2>1, <2>3, Lengths DEF CardTypes
  <2>5. \A n \in 1..OldCount : /\ PlaceNext(n) = IF newestFirst THEN Place(n) + 1 ELSE Place(n)
                              /\ Place(n) \in 1..Len(card)
    <3> TAKE n \in 1..OldCount
    <3>1. Place(n) \in 1..Len(card)
      BY PlaceType
    <3>2. Len(card) \in Nat /\ OldCount \in Nat /\ Len(card') = Len(card) + 1
      BY <2>1, <2>3, Lengths
    <3>3. CASE newestFirst
      <4>1. newestFirst'
        BY <1>w, <3>3
      <4>2. PlaceNext(n) = n + (Len(card') - OldCount) /\ Place(n) = n + (Len(card) - OldCount)
        BY <3>3, <4>1 DEF Place, PlaceNext
      <4>3. PlaceNext(n) = Place(n) + 1
        BY <3>2, <4>2
      <4> QED
        BY <3>1, <3>3, <4>3
    <3>4. CASE ~newestFirst
      <4>1. ~newestFirst'
        BY <1>w, <3>4
      <4>2. PlaceNext(n) = n + 0 /\ Place(n) = n + 0
        BY <3>4, <4>1 DEF Place, PlaceNext
      <4>3. PlaceNext(n) = Place(n)
        BY <4>2
      <4> QED
        BY <3>1, <3>4, <4>3
    <3> QED
      BY <3>1, <3>3, <3>4
  <2>6. \A n \in 1..OldCount : card'[PlaceNext(n)] = OldCard[n]
    BY <2>3, <2>5
  <2>7. Seen \in Nat /\ Seen' = Seen
    BY <2>1, SeenType DEF Seen, CardTypes
  <2>8. \A n \in 1..OldCount : Place(n) > Seen => PlaceNext(n) > Seen
    BY <2>5, <2>7
  <2>9. \A n \in 1..OldCount : Place(n)' = PlaceNext(n)
    BY <1>w DEF Place, PlaceNext, OldCount
  <2>10. HasWanted(entries)' = HasWanted(entries) /\ LateWith' = LateWith /\ PageLeft' = PageLeft
    BY <1>h, <2>1 DEF LateWith, PageLeft
  <2> QED
    BY <1>w, <1>i, <2>1, <2>4, <2>6, <2>7, <2>8, <2>9, <2>10
<1>2. ASSUME UNCHANGED card
      PROVE  /\ \A n \in 1..OldCount : Place(n)' = Place(n)
             /\ \A n \in 1..OldCount : card'[Place(n)'] = OldCard[n]
  BY <1>w, <1>2 DEF Place
<1>3. CASE PageAnswered
  <2>1. /\ UNCHANGED <<card, pageNo, missed, step, entries>>
        /\ pageReplies' = pageReplies \cup {[page |-> pageNo, items |-> OnPage(pageNo)]}
    BY <1>3 DEF PageAnswered
  <2>2. CardTypes' /\ Seen' = Seen /\ PageLeft' = PageLeft /\ HasWanted(entries)' = HasWanted(entries)
    BY <1>w, <1>h, <2>1 DEF CardTypes, Seen, PageLeft
  <2>3. \A r \in pageReplies' : r.page \in Nat /\ r.page <= pageNo'
    BY <2>1 DEF CardTypes
  <2>4. LateWith => LateWith'
    BY <1>h, <2>1 DEF LateWith
  <2> QED
    BY <1>w, <1>i, <1>2, <2>1, <2>2, <2>3, <2>4
<1>4. ASSUME NEW r \in pageReplies, PageLost(r)
      PROVE  FindInv'
  <2>1. /\ UNCHANGED <<card, pageNo, step, entries>> /\ pageReplies' = pageReplies \ {r}
        /\ missed' = (missed \/ (r.page < pageNo /\ HasWanted(r.items)))
    BY <1>4 DEF PageLost
  <2>2. CardTypes' /\ Seen' = Seen /\ PageLeft' = PageLeft /\ HasWanted(entries)' = HasWanted(entries)
    BY <1>w, <1>h, <2>1 DEF CardTypes, Seen, PageLeft
  <2>3. LateWith => LateWith' \/ missed'
    BY <1>h, <2>1 DEF LateWith
  <2> QED
    BY <1>w, <1>i, <1>2, <2>1, <2>2, <2>3
<1>5. ASSUME NEW r \in pageReplies, PageArrives(r)
      PROVE  FindInv'
  <2>1. /\ UNCHANGED <<card, pageNo, step, missed>> /\ pageReplies' = pageReplies \ {r}
        /\ entries' = entries \cup r.items /\ Listening
    BY <1>5 DEF PageArrives
  <2>2. CardTypes' /\ Seen' = Seen /\ PageLeft' = PageLeft
    BY <1>w, <2>1 DEF CardTypes, Seen, PageLeft
  <2>3. /\ LateWith => LateWith' \/ HasWanted(entries)'
        /\ HasWanted(entries) => HasWanted(entries)'
    BY <1>i, <1>h, <2>1 DEF LateWith, HasWanted
  <2>4. step = "asking" /\ (cmd = "single" => PageLeft)
    BY <2>1 DEF Listening
  <2> QED
    BY <1>w, <1>i, <1>2, <2>1, <2>2, <2>3, <2>4
<1>6. CASE PageWithout
  <2>1. /\ cmd = "single" /\ step = "asking" /\ UNCHANGED <<card, step, pageReplies>>
        /\ pageNo' = pageNo + 1 /\ entries' = {} /\ ~HasWanted(entries)
        /\ missed' = \/ missed
                     \/ HasWanted(OnPage(pageNo)) /\ ~\E r \in pageReplies : HasWanted(r.items)
    BY <1>6 DEF PageWithout, Listening, NextPage
  <2>2. CardTypes'
    BY <1>w, <2>1 DEF CardTypes
  <2>3. Seen' = Seen + PerPage
    BY <2>1, Lengths DEF Seen, CardTypes
  <2>4. \A r \in pageReplies : r.page \in Nat /\ r.page <= pageNo' /\ r.page < pageNo'
    BY <2>1 DEF CardTypes
  <2>5. (\E r \in pageReplies : HasWanted(r.items)) => LateWith'
    BY <1>h, <2>1, <2>4 DEF LateWith
  <2>6. LateWith => \E r \in pageReplies : HasWanted(r.items)
    BY DEF LateWith
  <2>7. \/ missed' \/ LateWith'
        \/ \A n \in 1..OldCount : IsWanted(OldCard[n]) => Place(n) > Seen'
    BY <2>1, <2>3, <2>5, <2>6, PageSearched
  <2> QED
    BY <1>w, <1>i, <1>2, <2>1, <2>2, <2>4, <2>7
<1>7. CASE /\ UNCHANGED <<card, pageNo, missed, pageReplies, entries>>
           /\ step' = step \/ (NotFound /\ step' = "unfound") \/ step' \notin {"asking", "unfound"}
  <2>1. CardTypes' /\ Seen' = Seen /\ PageLeft' = PageLeft
    BY <1>w, <1>7 DEF CardTypes, Seen, PageLeft
  <2>2. HasWanted(entries)' = HasWanted(entries) /\ LateWith' = LateWith
    BY <1>h, <1>7 DEF LateWith
  <2> QED
    BY <1>w, <1>i, <1>2, <1>7, <2>1, <2>2 DEF NotFound
<1>8. CASE \/ Found \/ NotFound \/ AskPage \/ LoadPhoto \/ LoadVideo \/ UnknownType \/ Return
           \/ UNCHANGED commandsVars
  <2>1. /\ UNCHANGED <<card, pageNo, missed, pageReplies, entries>>
        /\ step' = step \/ (NotFound /\ step' = "unfound") \/ step' \notin {"asking", "unfound"}
    BY <1>8 DEF Found, NotFound, AskPage, LoadPhoto, LoadVideo, UnknownType, Return, commandsVars
  <2> QED
    BY <1>7, <2>1
<1> QED
  BY <1>1, <1>3, <1>4, <1>5, <1>6, <1>8 DEF CommandsNext, CommandOver

\* The search for one item misses it only where the replies that had it were
\* lost or come after its last window, or where new shots push it past the last
\* page: for any card, page size and number of pages, whatever the order in which
\* replies come.
THEOREM SearchFinds == CommandsSpec => []FoundIfListed
<1>1. FindInv /\ [CommandsNext]_commandsVars => FindInv'
  BY FindStep
<1>2. FindInv => FoundIfListed
  <2> SUFFICES ASSUME FindInv, step = "unfound", ~missed, ~\E r \in pageReplies : HasWanted(r.items),
                      NEW n \in 1..OldCount, IsWanted(OldCard[n])
               PROVE  n + Len(card) - OldCount > PerPage * PageLimit
    BY DEF FoundIfListed, OldCount
  <2>0. ~HasWanted(entries) /\ ~LateWith
    BY DEF FindInv, HasWanted, LateWith
  <2>1. Place(n) > Seen /\ pageNo \in Nat /\ ~(pageNo < PageLimit)
    BY <2>0 DEF FindInv, CardTypes, PageLeft
  <2>2. Place(n) \in Nat /\ Place(n) <= n + Len(card) - OldCount /\ Len(card) \in Nat
    BY PlaceType DEF FindInv, CardTypes
  <2>3. Seen \in Nat /\ PerPage * PageLimit \in Int /\ PerPage * PageLimit <= Seen
    <3>1. pageNo \in Nat /\ PageLimit \in Int /\ PerPage \in Nat /\ PageLimit <= pageNo
      BY <2>1, Lengths
    <3>2. PICK gap \in Nat : pageNo = PageLimit + gap
      <4>1. pageNo - PageLimit \in Nat /\ pageNo = PageLimit + (pageNo - PageLimit)
        BY <3>1
      <4> QED
        BY <4>1
    <3>3. Seen = PageLimit * PerPage + gap * PerPage
      BY ONLY <3>1, <3>2 DEF Seen
    <3>4. PageLimit * PerPage = PerPage * PageLimit /\ PageLimit * PerPage \in Int /\ gap * PerPage \in Nat
      BY ONLY <3>1, <3>2
    <3>5. Seen \in Nat
      BY ONLY <3>1, SeenType
    <3> QED
      BY <3>3, <3>4, <3>5
  <2> QED
    BY <2>1, <2>2, <2>3, Lengths
<1> QED
  BY FindInit, <1>1, <1>2, PTL DEF CommandsSpec

LEMMA CommandTypesStep ==
  ASSUME CommandsTypeOK, FindInv, [CommandsNext]_commandsVars
  PROVE  CommandsTypeOK'
<1>0. /\ card' \in Seq(Items) /\ pageNo \in Nat /\ card \in Seq(Items)
      /\ \A i \in 1..Len(card) : card[i] \in Items
  BY FindStep, ItemOf DEF FindInv, CardTypes
<1>p. OnPage(pageNo) \subseteq Items
  BY <1>0 DEF OnPage
<1>1. CASE Shoot
  BY <1>0, <1>1 DEF Shoot, CommandsTypeOK
<1>2. CASE PageAnswered
  <2>1. [page |-> pageNo, items |-> OnPage(pageNo)] \in [page : 0..pageNo, items : SUBSET Items]
    BY <1>0, <1>p
  <2> QED
    BY <1>0, <1>2, <2>1 DEF PageAnswered, CommandsTypeOK
<1>3. ASSUME NEW r \in pageReplies, PageLost(r) \/ PageArrives(r)
      PROVE  CommandsTypeOK'
  <2>1. r.items \subseteq Items
    BY DEF CommandsTypeOK
  <2> QED
    BY <1>0, <1>3, <2>1 DEF PageLost, PageArrives, CommandsTypeOK
<1>4. CASE PageWithout
  <2>1. /\ pageNo' = pageNo + 1 /\ pageNo < PageLimit /\ pageReplies' = pageReplies
        /\ missed' \in BOOLEAN /\ entries' = {}
        /\ UNCHANGED <<cmd, want, newestFirst, card, todo, files, step>>
    BY <1>4 DEF PageWithout, Listening, PageLeft, NextPage, CommandsTypeOK
  <2>2. pageNo' \in 1..PageLimit /\ 0..pageNo \subseteq 0..pageNo'
    BY <1>0, <2>1, Lengths
  <2>3. pageReplies' \subseteq [page : 0..pageNo', items : SUBSET Items]
    BY <2>1, <2>2 DEF CommandsTypeOK
  <2> QED
    BY <1>0, <2>1, <2>2, <2>3 DEF CommandsTypeOK
<1>5. CASE Found \/ AskPage
  BY <1>0, <1>5 DEF Found, AskPage, CommandsTypeOK
<1>6. CASE LoadPhoto \/ LoadVideo
  BY <1>0, <1>6 DEF LoadPhoto, LoadVideo, CommandsTypeOK
<1>7. CASE NotFound \/ UnknownType \/ Return \/ UNCHANGED commandsVars
  BY <1>7 DEF NotFound, UnknownType, Return, commandsVars, CommandsTypeOK
<1> QED
  BY <1>1, <1>2, <1>3, <1>4, <1>5, <1>6, <1>7 DEF CommandsNext, CommandOver

LEMMA CommandTypesInit == CommandsInit => CommandsTypeOK
<1> SUFFICES ASSUME CommandsInit PROVE CommandsTypeOK
  OBVIOUS
<1>1. /\ cmd \in {"single", "page", "list"} /\ want \in WantedItems
      /\ newestFirst \in BOOLEAN /\ missed \in BOOLEAN
      /\ step \in {"asking", "loading", "returned", "raised", "unfound"}
  BY DEF CommandsInit
<1>2. card \in Seq(Items) /\ pageNo = 0
  BY CardAssumption DEF CommandsInit
<1>3. pageReplies = {} /\ entries = {} /\ todo = {} /\ files = {}
  BY DEF CommandsInit
<1> QED
  BY <1>1, <1>2, <1>3 DEF CommandsTypeOK

-----------------------------------------------------------------------------
(* LayoutTools.                                                            *)

\* A set of natural numbers has a least one.
LEMMA SmallestNumber ==
  ASSUME NEW N \in SUBSET Nat, N # {}
  PROVE  \E n \in N : \A m \in N : n <= m
<1> DEFINE R == {ss \in Nat \X Nat : ss[1] < ss[2]}
<1>1. IsWellFoundedOn(R, Nat)
  BY ONLY NatLessThanWellFounded DEF OpToRel
<1>2. PICK n \in N : \A m \in N : ~ <<m, n>> \in R
  <2> HIDE DEF R
  <2> QED
    BY <1>1, WFMin
<1>3. \A m \in N : ~(m < n)
  BY <1>2
<1> QED
  BY <1>3

\* Of finitely many files one is at least as large as the others: the one with
\* the most smaller files.
LEMMA LargestFile ==
  ASSUME NEW F \in SUBSET OldNames, F # {}
  PROVE  \E f \in F : \A g \in F : SizeOf[g] <= SizeOf[f]
<1> DEFINE Smaller(f) == {g \in F : SizeOf[g] < SizeOf[f]}
           others == [f \in F |-> Cardinality(F) - Cardinality(Smaller(f))]
<1>1. IsFiniteSet(F) /\ Cardinality(F) \in Nat /\ \A f \in F : SizeOf[f] \in Nat
  BY LayoutAssumption, FS_Subset, FS_CardinalityType
<1>2. \A f \in F : /\ IsFiniteSet(Smaller(f))
                   /\ Cardinality(Smaller(f)) \in Nat
                   /\ Cardinality(Smaller(f)) <= Cardinality(F)
  <2> TAKE f \in F
  <2>1. Smaller(f) \in SUBSET F
    OBVIOUS
  <2> HIDE DEF Smaller
  <2> QED
    BY <1>1, <2>1, FS_Subset, FS_CardinalityType
<1>3. \A f \in F : others[f] = Cardinality(F) - Cardinality(Smaller(f)) /\ others[f] \in Nat
  BY <1>1, <1>2
<1>4. PICK f \in F : \A g \in F : others[f] <= others[g]
  <2> HIDE DEF others
  <2>1. {others[g] : g \in F} \in SUBSET Nat /\ {others[g] : g \in F} # {}
    BY <1>3
  <2>2. PICK n \in {others[g] : g \in F} : \A m \in {others[g] : g \in F} : n <= m
    BY <2>1, SmallestNumber
  <2> QED
    BY <2>2
<1>5. ASSUME NEW g \in F, SizeOf[f] < SizeOf[g] PROVE FALSE
  <2>1. Smaller(f) \in SUBSET Smaller(g) /\ f \in Smaller(g) /\ f \notin Smaller(f)
    BY <1>1, <1>5
  <2>2. Cardinality(Smaller(f)) <= Cardinality(Smaller(g)) /\ Cardinality(Smaller(f)) # Cardinality(Smaller(g))
    <3> HIDE DEF Smaller
    <3> QED
      BY <1>2, <2>1, FS_Subset
  <2>3. others[f] <= others[g]
    BY <1>4
  <2> HIDE DEF others, Smaller
  <2> QED
    BY <1>1, <1>2, <1>3, <2>2, <2>3
<1>6. \A g \in F : SizeOf[g] <= SizeOf[f]
  BY <1>1, <1>5
<1> QED
  BY <1>6

\* What the migration relies on: the file under a new name belongs there, and the
\* one that replaces a rival just unlinked has its place free.
MigrateInv ==
    /\ \A n \in NewNames : new[n] # Gone => NewName[new[n]] = n
    /\ replacing # Gone => replacing \in old /\ new[NewName[replacing]] = Gone

\* Names in the archive are unique, and so are the files there; what a run of the
\* repair has not visited has not been shifted in this run.
RepairInv ==
    /\ \A f \in archive : f = [ts |-> f.ts, item |-> f.item, id |-> f.id]
    /\ \A f, g \in archive : NameOf(f) = NameOf(g) => f = g
    /\ \A f, g \in archive : f.id = g.id => f = g
    /\ \A f \in Archived : \E g \in archive : g.id = f
    /\ stops = 0 => \A f \in archive : f.ts \in {f.id.ts, f.id.ts - offset}
    /\ stops = 0 => \A n \in snapshot : \E f \in archive : NameOf(f) = n /\ f.ts = f.id.ts

LEMMA LayoutTypesInit == LayoutInit => LayoutTypeOK
<1> SUFFICES ASSUME LayoutInit PROVE LayoutTypeOK
  OBVIOUS
<1>1. \A f \in archive : f.ts \in Int /\ f.id \in Archived
  BY LayoutAssumption DEF LayoutInit
<1>2. new \in [NewNames -> OldNames \cup {Gone}]
  BY DEF LayoutInit
<1>3. /\ tool \in {"migrate", "repair"} /\ offset \in Offsets
      /\ old = OldNames /\ visited = {} /\ replacing = Gone
      /\ done \in BOOLEAN
  BY DEF LayoutInit
<1>4. stops \in 0..MaxStops
  BY LayoutAssumption DEF LayoutInit
<1> QED
  BY <1>1, <1>2, <1>3, <1>4 DEF LayoutTypeOK

LEMMA RenameFacts ==
  ASSUME LayoutTypeOK, RepairInv, NEW f \in archive, Rename(f)
  PROVE  \/ archive' = archive /\ snapshot' = snapshot \ {NameOf(f)}
         \/ \E moved :
              /\ moved = [ts |-> f.ts - offset, item |-> f.item, id |-> f.id]
              /\ f.ts - offset \in Int
              /\ NameOf(moved) \notin AllNames(archive)
              /\ archive' = (archive \ {f}) \cup {moved}
              /\ snapshot' = snapshot \ {NameOf(f)}
<1> DEFINE moved == [f EXCEPT !.ts = @ - offset]
<1>1. moved = [ts |-> f.ts - offset, item |-> f.item, id |-> f.id]
  BY DEF RepairInv
<1>2. f.ts \in Int /\ offset \in Int
  BY LayoutAssumption DEF LayoutTypeOK
<1>3. /\ snapshot' = snapshot \ {NameOf(f)}
      /\ archive' = IF NameOf(moved) \in AllNames(archive) THEN archive
                                                           ELSE (archive \ {f}) \cup {moved}
  BY DEF Rename, Leave
<1> HIDE DEF moved
<1> QED
  BY <1>1, <1>2, <1>3

LEMMA LayoutTypesStep == LayoutTypeOK /\ RepairInv /\ [LayoutNext]_layoutVars => LayoutTypeOK'
<1> SUFFICES ASSUME LayoutTypeOK, RepairInv, [LayoutNext]_layoutVars PROVE LayoutTypeOK'
  OBVIOUS
<1> USE LayoutAssumption DEF LayoutTypeOK, repairVars, migrateVars
<1>1. ASSUME NEW f \in OldNames, MoveOver(f) PROVE LayoutTypeOK'
  BY <1>1 DEF MoveOver, Migrating, Visit, NewNames
<1>2. ASSUME NEW f \in OldNames, Unlink(f) PROVE LayoutTypeOK'
  BY <1>2 DEF Unlink
<1>3. ASSUME NEW f \in OldNames, Replace(f) PROVE LayoutTypeOK'
  BY <1>3 DEF Replace, Visit
<1>4. ASSUME NEW f \in OldNames, Discard(f) PROVE LayoutTypeOK'
  BY <1>4 DEF Discard, Visit
<1>5. ASSUME NEW f \in archive, Rename(f) PROVE LayoutTypeOK'
  <2>1. \A g \in archive' : g.ts \in Int /\ g.id \in Archived
    BY <1>5, RenameFacts
  <2> QED
    BY <1>5, <2>1 DEF Rename
<1>6. CASE Interrupted
  BY <1>6 DEF Interrupted
<1>7. CASE End
  BY <1>7 DEF End
<1>8. CASE UNCHANGED layoutVars
  BY <1>8 DEF layoutVars
<1> QED
  BY <1>1, <1>2, <1>3, <1>4, <1>5, <1>6, <1>7, <1>8 DEF LayoutNext, LayoutOver

LEMMA RepairInit == LayoutInit => RepairInv
<1> SUFFICES ASSUME LayoutInit PROVE RepairInv
  OBVIOUS
<1>1. archive = {[ts |-> f.ts, item |-> f.item, id |-> f] : f \in Archived} /\ snapshot = Archived
  BY DEF LayoutInit
<1>2. \A g \in archive : /\ g = [ts |-> g.ts, item |-> g.item, id |-> g.id]
                         /\ g.id \in Archived /\ g.ts = g.id.ts /\ NameOf(g) = g.id
  <2> SUFFICES ASSUME NEW f \in Archived
               PROVE  LET g == [ts |-> f.ts, item |-> f.item, id |-> f]
                      IN  /\ g = [ts |-> g.ts, item |-> g.item, id |-> g.id]
                          /\ g.id \in Archived /\ g.ts = g.id.ts /\ NameOf(g) = g.id
    BY <1>1
  <2> QED
    BY LayoutAssumption DEF NameOf
<1>3. \A f \in Archived : \E g \in archive : g.id = f
  <2> TAKE f \in Archived
  <2> DEFINE g == [ts |-> f.ts, item |-> f.item, id |-> f]
  <2>1. g \in archive /\ g.id = f
    BY <1>1
  <2> QED
    BY <2>1
<1>4. \A f, g \in archive : f.id = g.id => f = g
  BY <1>1
<1> QED
  BY <1>1, <1>2, <1>3, <1>4 DEF RepairInv

LEMMA RepairStep ==
  ASSUME LayoutTypeOK, RepairInv, [LayoutNext]_layoutVars
  PROVE  RepairInv'
<1>1. ASSUME NEW f \in archive, Rename(f) PROVE RepairInv'
  <2>1. stops' = stops /\ offset' = offset
    BY <1>1 DEF Rename
  <2>2. CASE archive' = archive /\ snapshot' = snapshot \ {NameOf(f)}
    BY <2>1, <2>2 DEF RepairInv
  <2>3. ASSUME NEW moved,
               moved = [ts |-> f.ts - offset, item |-> f.item, id |-> f.id],
               NameOf(moved) \notin AllNames(archive),
               archive' = (archive \ {f}) \cup {moved},
               snapshot' = snapshot \ {NameOf(f)}
        PROVE  RepairInv'
    <3>1. moved.ts = f.ts - offset /\ moved.item = f.item /\ moved.id = f.id
      BY <2>3
    <3>2. \A g \in archive : NameOf(g) # NameOf(moved)
      BY <2>3 DEF AllNames
    <3>3. /\ \A g \in archive' : g = [ts |-> g.ts, item |-> g.item, id |-> g.id]
          /\ \A g, h \in archive' : NameOf(g) = NameOf(h) => g = h
          /\ \A g, h \in archive' : g.id = h.id => g = h
          /\ \A g \in Archived : \E h \in archive' : h.id = g
      BY <2>3, <3>1, <3>2 DEF RepairInv
    <3>4. stops = 0 => f.ts = f.id.ts
      <4>1. NameOf(f) \in snapshot
        BY <1>1 DEF Rename
      <4> QED
        BY <4>1 DEF RepairInv
    <3>5. stops = 0 => \A g \in archive' : g.ts \in {g.id.ts, g.id.ts - offset}
      BY <2>3, <3>1, <3>4 DEF RepairInv
    <3>6. stops = 0 => \A n \in snapshot' : \E g \in archive' : NameOf(g) = n /\ g.ts = g.id.ts
      <4> SUFFICES ASSUME stops = 0, NEW n \in snapshot, n # NameOf(f)
                   PROVE  \E g \in archive' : NameOf(g) = n /\ g.ts = g.id.ts
        BY <2>3
      <4>1. PICK g \in archive : NameOf(g) = n /\ g.ts = g.id.ts
        BY DEF RepairInv
      <4>2. g \in archive'
        BY <2>3, <4>1
      <4> QED
        BY <4>1, <4>2
    <3> QED
      BY <2>1, <3>3, <3>5, <3>6 DEF RepairInv, NameOf
  <2> QED
    BY <1>1, <2>2, <2>3, RenameFacts
<1>2. CASE Interrupted
  <2>1. archive' = archive /\ stops' # 0
    BY <1>2, LayoutAssumption DEF Interrupted, LayoutTypeOK
  <2> QED
    BY <2>1 DEF RepairInv
<1>3. CASE UNCHANGED <<archive, snapshot, stops, offset>>
  BY <1>3 DEF RepairInv
<1>4. \/ \E f \in archive : Rename(f)
      \/ Interrupted
      \/ UNCHANGED <<archive, snapshot, stops, offset>>
  BY DEF LayoutNext, MoveOver, Unlink, Replace, Discard, End, LayoutOver, layoutVars, repairVars
<1> QED
  BY <1>1, <1>2, <1>3, <1>4

LEMMA LayoutAlways == LayoutSpec => [](LayoutTypeOK /\ RepairInv)
<1>1. LayoutTypeOK /\ RepairInv /\ [LayoutNext]_layoutVars => (LayoutTypeOK /\ RepairInv)'
  BY LayoutTypesStep, RepairStep
<1> QED
  BY LayoutTypesInit, RepairInit, <1>1, PTL DEF LayoutSpec

\* Whatever is interrupted, both tools leave a state of its type.
THEOREM LayoutTyped == LayoutSpec => []LayoutTypeOK
  BY LayoutAlways, PTL

\* No archived file is lost or doubled by the repair, and a run that follows no
\* interrupted one shifts none of them twice, although a file may get the very name
\* that another one has just left.
THEOREM NoneShiftedTwice == LayoutSpec => []ShiftedOnce
<1>1. LayoutTypeOK /\ RepairInv => ShiftedOnce
  <2> SUFFICES ASSUME LayoutTypeOK, RepairInv, NEW f \in Archived
               PROVE  Cardinality({g \in archive : g.id = f}) = 1
    BY DEF ShiftedOnce, RepairInv
  <2>1. PICK g \in archive : g.id = f
    BY DEF RepairInv
  <2>2. {h \in archive : h.id = f} = {g}
    BY <2>1 DEF RepairInv
  <2> QED
    BY <2>2, FS_Singleton
<1> QED
  BY <1>1, LayoutAlways, PTL

LEMMA MigrateInit == LayoutInit => MigrateInv /\ LargestKept
<1> SUFFICES ASSUME LayoutInit PROVE MigrateInv /\ LargestKept
  OBVIOUS
<1>1. MigrateInv
  BY DEF LayoutInit, MigrateInv
<1>2. LargestKept
  <2> SUFFICES ASSUME NEW n \in NewNames
               PROVE  \E f \in old \cup {new[n]} :
                        /\ f # Gone /\ NewName[f] = n
                        /\ \A g \in OldNames : NewName[g] = n => SizeOf[g] <= SizeOf[f]
    BY DEF LargestKept
  <2> DEFINE F == {f \in OldNames : NewName[f] = n}
  <2>1. F \in SUBSET OldNames /\ F # {}
    BY DEF NewNames
  <2>2. PICK f \in F : \A g \in F : SizeOf[g] <= SizeOf[f]
    <3> HIDE DEF F
    <3> QED
      BY <2>1, LargestFile
  <2> QED
    BY <2>2, LayoutAssumption DEF LayoutInit
<1> QED
  BY <1>1, <1>2

LEMMA MigrateStep ==
  ASSUME LayoutTypeOK, MigrateInv, LargestKept, [LayoutNext]_layoutVars
  PROVE  MigrateInv' /\ LargestKept'
<1> DEFINE Largest(f, n) == /\ f # Gone /\ NewName[f] = n
                            /\ \A g \in OldNames : NewName[g] = n => SizeOf[g] <= SizeOf[f]
<1>a. \A n \in NewNames : \E f \in old \cup {new[n]} : Largest(f, n)
  BY DEF LargestKept
<1>b. ASSUME \A n \in NewNames : \E f \in old' \cup {new'[n]} : Largest(f, n) PROVE LargestKept'
  BY <1>b DEF LargestKept
<1>t. /\ old \subseteq OldNames /\ new \in [NewNames -> OldNames \cup {Gone}] /\ Gone \notin OldNames
      /\ \A f \in OldNames : SizeOf[f] \in Nat /\ NewName[f] \in NewNames
  BY LayoutAssumption DEF LayoutTypeOK, NewNames
<1>1. ASSUME NEW f \in OldNames, f \in old, new[NewName[f]] = Gone,
             old' = old \ {f}, new' = [new EXCEPT ![NewName[f]] = f], replacing' = Gone
      PROVE  MigrateInv' /\ LargestKept'
  <2>1. MigrateInv'
    BY <1>1, <1>t DEF MigrateInv
  <2>2. ASSUME NEW n \in NewNames PROVE \E g \in old' \cup {new'[n]} : Largest(g, n)
    <3>1. PICK g \in old \cup {new[n]} : Largest(g, n)
      BY <1>a
    <3>2. g \in old' \cup {new'[n]}
      BY <1>1, <1>t, <3>1
    <3> QED
      BY <3>1, <3>2
  <2> QED
    BY <1>b, <2>1, <2>2
<1>2. ASSUME NEW f \in OldNames, MoveOver(f) PROVE MigrateInv' /\ LargestKept'
  BY <1>1, <1>2 DEF MoveOver, Migrating, Due
<1>3. ASSUME NEW f \in OldNames, Replace(f) PROVE MigrateInv' /\ LargestKept'
  <2>1. replacing = f /\ f \in old /\ new[NewName[f]] = Gone
    BY <1>3 DEF Replace, MigrateInv
  <2>2. CASE UNCHANGED <<old, new>>
    BY <1>3, <2>2, <1>a, <1>b DEF Replace, MigrateInv
  <2> QED
    BY <1>1, <1>3, <2>1, <2>2 DEF Replace
<1>4. ASSUME NEW f \in OldNames, Unlink(f) PROVE MigrateInv' /\ LargestKept'
  <2>1. /\ f \in old /\ new[NewName[f]] # Gone /\ Larger(f) /\ old' = old
        /\ new' = [new EXCEPT ![NewName[f]] = Gone] /\ replacing' = f
    BY <1>4 DEF Unlink, Migrating, Due
  <2>2. MigrateInv'
    BY <2>1, <1>t DEF MigrateInv
  <2>3. ASSUME NEW n \in NewNames PROVE \E g \in old' \cup {new'[n]} : Largest(g, n)
    <3>1. PICK g \in old \cup {new[n]} : Largest(g, n)
      BY <1>a
    <3>2. CASE n # NewName[f]
      BY <2>1, <3>1, <3>2, <1>t
    <3>3. CASE n = NewName[f]
      <4>1. SizeOf[f] <= SizeOf[g] /\ SizeOf[f] \in Nat /\ g \in OldNames
        BY <3>1, <3>3, <1>t
      <4>2. SizeOf[f] > SizeOf[new[n]] /\ SizeOf[g] \in Nat
        BY <2>1, <3>3, <4>1, <1>t DEF Larger
      <4>3. g # new[n]
        BY <4>1, <4>2
      <4> QED
        BY <2>1, <3>1, <4>3
    <3> QED
      BY <3>2, <3>3
  <2> QED
    BY <1>b, <2>2, <2>3
<1>5. ASSUME NEW f \in OldNames, Discard(f) PROVE MigrateInv' /\ LargestKept'
  <2>1. /\ f \in old /\ new[NewName[f]] # Gone /\ ~Larger(f) /\ replacing = Gone
        /\ old' = old \ {f} /\ new' = new /\ replacing' = replacing
    BY <1>5 DEF Discard, Migrating, Due
  <2>2. MigrateInv'
    BY <2>1 DEF MigrateInv
  <2>3. ASSUME NEW n \in NewNames PROVE \E g \in old' \cup {new'[n]} : Largest(g, n)
    <3>1. PICK g \in old \cup {new[n]} : Largest(g, n)
      BY <1>a
    <3>2. CASE g # f \/ g = new[n]
      BY <2>1, <3>1, <3>2
    <3>3. CASE g = f
      <4>1. n = NewName[f] /\ new[n] \in OldNames /\ NewName[new[n]] = n
        BY <2>1, <3>1, <3>3, <1>t DEF MigrateInv
      <4>2. ~(SizeOf[f] > SizeOf[new[n]]) /\ SizeOf[f] \in Nat /\ SizeOf[new[n]] \in Nat
        BY <2>1, <4>1, <1>t DEF Larger
      <4>3. \A h \in OldNames : NewName[h] = n => SizeOf[h] <= SizeOf[new[n]]
        <5> SUFFICES ASSUME NEW h \in OldNames, NewName[h] = n PROVE SizeOf[h] <= SizeOf[new[n]]
          OBVIOUS
        <5>1. SizeOf[h] <= SizeOf[f] /\ SizeOf[h] \in Nat
          BY <3>1, <3>3, <1>t
        <5> QED
          BY <4>2, <5>1
      <4> QED
        BY <2>1, <4>1, <4>3, <1>t
    <3> QED
      BY <3>2, <3>3
  <2> QED
    BY <1>b, <2>2, <2>3
<1>6. CASE UNCHANGED <<old, new>> /\ (replacing' = replacing \/ replacing' = Gone)
  BY <1>6, <1>a, <1>b DEF MigrateInv
<1> QED
  BY <1>2, <1>3, <1>4, <1>5, <1>6
     DEF LayoutNext, Rename, Interrupted, End, LayoutOver, layoutVars, migrateVars

\* Of the files for one new name a largest one is there at any time, also between
\* the unlink and the move, when the move fails, and when the tool is interrupted.
THEOREM LargestSurvives == LayoutSpec => []LargestKept
<1>1. LayoutTypeOK /\ RepairInv /\ MigrateInv /\ LargestKept /\ [LayoutNext]_layoutVars
        => MigrateInv' /\ LargestKept'
  BY MigrateStep
<1> QED
  BY MigrateInit, <1>1, LayoutAlways, PTL DEF LayoutSpec

-----------------------------------------------------------------------------
(* The composition.                                                        *)

\* The components' invariants, side by side.
PiecesInv ==
    /\ PhotoInv
    /\ ClockInv
    /\ StartupInv
    /\ CommandsTypeOK /\ FindInv
    /\ LayoutTypeOK /\ RepairInv

LEMMA PiecesInitial == PiecesInit => PiecesInv
  BY PhotoInit, ClockInit, StartupInitial, CommandTypesInit, FindInit, LayoutTypesInit, RepairInit
     DEF PiecesInit, PiecesInv

\* A step of the composition is one of a component, or leaves it alone.
LEMMA PiecesStep ==
  ASSUME PiecesInv, [PiecesNext]_piecesVars
  PROVE  PiecesInv'
<1>1. /\ [Next]_vars /\ [WeekNext]_weekVars /\ [StartupNext]_startupVars
      /\ [CommandsNext]_commandsVars /\ [LayoutNext]_layoutVars
  BY DEF PiecesNext, piecesVars
<1>2. PhotoInv'
  BY <1>1, PhotoStep DEF PiecesInv
<1> QED
  BY <1>1, <1>2, ClockStep, StartupStep, CommandTypesStep, FindStep, LayoutTypesStep, RepairStep
     DEF PiecesInv

\* The states of all five have their types, whatever the constants.
THEOREM PiecesTyped == PiecesSpec => []PiecesTypesOK
<1>1. PiecesInv /\ [PiecesNext]_piecesVars => PiecesInv'
  BY PiecesStep
<1>2. PiecesInv => PiecesTypesOK
  BY PhotoTypes DEF PiecesInv, PiecesTypesOK, ClockInv, WeekTypeOK, StartupInv
<1> QED
  BY PiecesInitial, <1>1, <1>2, PTL DEF PiecesSpec
=============================================================================
