--------------------------- MODULE Preflight_proofs ---------------------------
(***************************************************************************)
(* The safety properties of Preflight, for any lists of models, any number *)
(* of pages and cursors, and any contents of the executable's path.        *)
(***************************************************************************)
EXTENDS Preflight, TLAPS

Elements(s) == {s[i] : i \in DOMAIN s}

\* A step of the launch, before the account is read.
Launching == {"environment", "revalidate", "version", "home", "fill", "recheck", "spawn",
              "initialize"}

\* Nothing has been listed before the list is read.
UnlistedInv ==
  pc \in Launching \cup {"account"} =>
    /\ told.asked = <<>> /\ told.offers = <<>> /\ told.models = {}
    /\ remaining = MaxPages /\ cursor = None /\ seen = {} /\ available = {}

\* While the list is read: the budget accounts for the pages asked for; `seen`
\* is what was offered, each cursor once; the page about to be asked for was not
\* asked for before.
ListInv ==
  pc = "list" =>
    /\ Managed(told.account)
    /\ Len(told.asked) = MaxPages - remaining
    /\ Len(told.offers) = Len(told.asked)
    /\ Distinct(told.asked) /\ Distinct(told.offers)
    /\ Elements(told.offers) = seen
    /\ Elements(told.asked) \subseteq Optional(seen)
    /\ cursor \in Optional(seen) /\ cursor \notin Elements(told.asked)

\* When the list has been read, what was collected is what the account may use.
CompareInv ==
  pc = "compare" =>
    /\ Managed(told.account) /\ told.list = "read"
    /\ Len(told.asked) <= MaxPages /\ Distinct(told.asked)

AvailableInv == pc # "ended" => available = told.models /\ available \subseteq entitled

\* What exists is owned, and the process started was the pinned release.
LaunchInv ==
  /\ pc # "ended" => outcome = None
  /\ (pc # "ended" /\ home # "absent") \/ pc = "fill" => owner # None
  /\ pc = "ended" => child.state # "running" /\ (home # "absent" => warned)
  /\ child.lists = "account"
  /\ pc \in {"environment", "revalidate", "version", "home", "fill", "recheck", "spawn"} =>
       child.state = "absent"
  /\ pc = "spawn" => PinnedCodex(file) \/ told.replaced = "late"
  /\ child.state # "absent" => child.file = "pinned" \/ told.replaced = "late"

IInv == TypeOK /\ UnlistedInv /\ ListInv /\ CompareInv /\ AvailableInv /\ LaunchInv
          /\ VerdictIsJustified

-----------------------------------------------------------------------------
\* Append adds its element at the end and nothing else.
LEMMA AppendElements ==
  ASSUME NEW S, NEW s \in Seq(S), NEW e \in S
  PROVE  Elements(Append(s, e)) = Elements(s) \cup {e}
<1>1. /\ DOMAIN Append(s, e) = 1..(Len(s) + 1) /\ DOMAIN s = 1..Len(s) /\ Len(s) \in Nat
      /\ \A i \in 1..Len(s) : Append(s, e)[i] = s[i]
      /\ Append(s, e)[Len(s) + 1] = e
  OBVIOUS
<1> QED  BY <1>1 DEF Elements

\* A new element keeps a sequence free of repetitions; an old one does not.
LEMMA AppendDistinct ==
  ASSUME NEW S, NEW s \in Seq(S), NEW e \in S
  PROVE  /\ Distinct(s) /\ e \notin Elements(s) => Distinct(Append(s, e))
         /\ e \in Elements(s) => ~Distinct(Append(s, e))
<1>1. /\ DOMAIN Append(s, e) = 1..(Len(s) + 1) /\ DOMAIN s = 1..Len(s) /\ Len(s) \in Nat
      /\ \A i \in 1..Len(s) : Append(s, e)[i] = s[i]
      /\ Append(s, e)[Len(s) + 1] = e
  OBVIOUS
<1>2. ASSUME Distinct(s), e \notin Elements(s)
      PROVE  Distinct(Append(s, e))
  <2> SUFFICES ASSUME NEW i \in 1..(Len(s) + 1), NEW j \in 1..(Len(s) + 1),
                      Append(s, e)[i] = Append(s, e)[j]
               PROVE  i = j
    BY <1>1 DEF Distinct
  <2>1. CASE i \in 1..Len(s) /\ j \in 1..Len(s)
    BY <1>1, <1>2, <2>1 DEF Distinct
  <2>2. CASE i = Len(s) + 1 \/ j = Len(s) + 1
    BY <1>1, <1>2, <2>2 DEF Elements
  <2> QED  BY <1>1, <2>1, <2>2
<1>3. ASSUME e \in Elements(s)
      PROVE  ~Distinct(Append(s, e))
  <2>1. PICK i \in 1..Len(s) : s[i] = e
    BY <1>1, <1>3 DEF Elements
  <2>2. Append(s, e)[i] = Append(s, e)[Len(s) + 1] /\ i # Len(s) + 1
    BY <1>1, <2>1
  <2> QED  BY <1>1, <2>1, <2>2 DEF Distinct
<1> QED  BY <1>2, <1>3

-----------------------------------------------------------------------------
\* The empty sequence is a sequence over any set.
LEMMA EmptySequence == ASSUME NEW S PROVE <<>> \in Seq(S)
  OBVIOUS

\* The page budget is a positive number, and no cursor is the absent one.
LEMMA Budget == MaxPages \in Nat /\ MaxPages > 0 /\ None \notin Cursors
  BY PreflightAssumption

\* Appending keeps the type of a sequence.
LEMMA AppendType == ASSUME NEW S, NEW s \in Seq(S), NEW e \in S PROVE Append(s, e) \in Seq(S)
  OBVIOUS

\* The budget goes down by one, and not below zero.
LEMMA Decrement == ASSUME NEW m \in Nat, NEW r \in 0..m, r > 0 PROVE r - 1 \in 0..m
  OBVIOUS

\* The invariant holds of every initial state.
LEMMA InitHolds == Init => IInv
<1> SUFFICES ASSUME Init PROVE IInv
  OBVIOUS
<1>1. told \in History
  BY EmptySequence DEF Init, History, Optional
<1>2. remaining = MaxPages /\ MaxPages \in 0..MaxPages
  <2>1. MaxPages \in 0..MaxPages
    BY Budget
  <2> QED  BY <2>1 DEF Init
<1>3. child \in Children
  BY DEF Init, NoChild, Children
<1>4. TypeOK
  BY <1>1, <1>2, <1>3 DEF Init, TypeOK, None, Homes, Optional
<1>5. UnlistedInv /\ ListInv /\ CompareInv /\ AvailableInv
  BY DEF Init, UnlistedInv, ListInv, CompareInv, AvailableInv
<1>6. LaunchInv /\ VerdictIsJustified
  BY DEF Init, NoChild, LaunchInv, VerdictIsJustified, ReportIsEarned, RefusalIsJustified, None
<1> QED  BY <1>4, <1>5, <1>6 DEF IInv

-----------------------------------------------------------------------------
\* What a page adds is among the models, and among those the account may use.
LEMMA PageLists ==
  ASSUME LaunchInv, NEW entries \in Pages, WellFormed(entries)
  PROVE  PageModels(entries) \subseteq Models /\ PageModels(entries) \subseteq entitled
<1>1. \A e \in entries : e.model \in Models /\ e.id = e.model /\ e.id \in entitled
  BY DEF Pages, WellFormed, LaunchInv, Listable, Optional
<1> QED  BY <1>1 DEF PageModels

\* The steps that leave the history alone.
LEMMA Silent ==
  ASSUME ReadEnvironment \/ LocalLaunch \/ CheckVersion \/ Initialize \/ PageLimit \/ Compare
  PROVE  UNCHANGED <<told, entitled, remaining, cursor, seen, available>>
  BY DEF LocalLaunch, ReadEnvironment, Revalidate, CheckVersion, CreateHome, FillHome, Recheck, Spawn,
         Initialize, PageLimit, Compare, listVars

\* The history keeps its type.
LEMMA HistoryKept ==
  ASSUME TypeOK, LaunchInv, [Next]_vars
  PROVE  told' \in History
<1>1. /\ told \in History /\ told.asked \in Seq(Optional(Cursors)) /\ told.offers \in Seq(Cursors)
      /\ told.models \subseteq Models
  BY DEF TypeOK, History
<1>2. Append(told.asked, cursor) \in Seq(Optional(Cursors))
  BY <1>1, AppendType DEF TypeOK
<1>3. CASE Replace
  BY <1>1, <1>3 DEF Replace, History
<1>4. CASE ReadAccount
  BY <1>1, <1>4 DEF ReadAccount, History
<1>5. CASE RpcFails \/ ReadBadPage
  BY <1>1, <1>2, <1>5 DEF RpcFails, ReadBadPage, History
<1>6. CASE ReadPage
  <2>1. PICK entries \in Pages, next \in Optional(Cursors) :
          /\ WellFormed(entries)
          /\ told' = [told EXCEPT !.asked = Append(@, cursor), !.models = @ \cup PageModels(entries),
                                  !.offers = IF next = None THEN @ ELSE Append(@, next),
                                  !.list = IF next = None THEN "read" ELSE @]
    BY <1>6 DEF ReadPage
  <2>2. (IF next = None THEN told.offers ELSE Append(told.offers, next)) \in Seq(Cursors)
    BY <1>1, AppendType DEF Optional
  <2>3. told.models \cup PageModels(entries) \subseteq Models
    BY <1>1, <2>1, PageLists
  <2> QED  BY <1>1, <1>2, <2>1, <2>2, <2>3 DEF History
<1>7. CASE UNCHANGED told
  BY <1>1, <1>7
<1> QED
  BY <1>3, <1>4, <1>5, <1>6, <1>7, Silent DEF Next, LocalStep, ReplyStep, ChildDies, vars, Ended

\* The end of the command.
LEMMA EndTypes ==
  ASSUME TypeOK, NEW result, End(result)
  PROVE  /\ pc' = "ended" /\ outcome' = result
         /\ owner' = None /\ home' \in Homes /\ warned' \in BOOLEAN /\ child' \in Children
<1>1. child \in Children => child' \in Children
  BY DEF End, Children
<1> QED  BY <1>1 DEF End, DropHome, TypeOK, Homes

\* Every step keeps the types.
LEMMA TypeKept ==
  ASSUME TypeOK, LaunchInv, [Next]_vars
  PROVE  TypeOK'
<1>h. told' \in History
  BY HistoryKept
<1> USE <1>h, EndTypes DEF TypeOK, launchVars, listVars, None, Homes
<1>1. CASE ReadEnvironment \/ Revalidate \/ CheckVersion \/ Recheck \/ Initialize
  BY <1>1 DEF ReadEnvironment, Revalidate, CheckVersion, Recheck, Initialize, Proceed
<1>2. CASE CreateHome \/ FillHome
  BY <1>2 DEF CreateHome, FillHome, Proceed
<1>3. CASE Spawn
  <2>1. Launched("account") \in Children
    BY DEF Launched, Children
  <2> QED  BY <1>3, <2>1 DEF Spawn, Proceed
<1>4. CASE Replace
  BY <1>4 DEF Replace
<1>5. CASE ReadAccount
  BY <1>5 DEF ReadAccount, Proceed
<1>6. CASE PageLimit \/ Compare
  BY <1>6 DEF PageLimit, Compare
<1>7. CASE RpcFails \/ ReadBadPage
  <2>1. ReadBadPage => remaining' \in 0..MaxPages
    BY Budget, Decrement DEF ReadBadPage
  <2> QED  BY <1>7, <2>1 DEF RpcFails, ReadBadPage
<1>8. CASE ReadPage
  <2>1. PICK entries \in Pages, next \in Optional(Cursors) :
          WellFormed(entries) /\ available' = available \cup PageModels(entries) /\ Advance(next)
    BY <1>8 DEF ReadPage
  <2>2. available' \subseteq Models
    BY <2>1, PageLists
  <2>3. remaining' \in 0..MaxPages
    BY <1>8, Budget, Decrement DEF ReadPage
  <2>4. cursor' \in Optional(Cursors) /\ seen' \subseteq Cursors
    BY <2>1 DEF Advance, Optional
  <2>5. /\ pc' \in {"list", "compare", "ended"} /\ outcome' \in {outcome, "repeated cursor"}
        /\ home' \in Homes /\ owner' \in {"none", "connection"}
        /\ warned' \in BOOLEAN /\ child' \in Children
    BY <2>1 DEF Advance, Proceed
  <2> QED  BY <1>8, <2>2, <2>3, <2>4, <2>5 DEF ReadPage
<1>9. CASE Ended \/ UNCHANGED vars
  BY <1>9 DEF Ended, vars
<1>10. CASE ChildDies
  BY <1>10 DEF ChildDies, Children
<1> QED
  BY <1>1, <1>2, <1>3, <1>4, <1>5, <1>6, <1>7, <1>8, <1>9, <1>10
     DEF Next, LocalStep, LocalLaunch, ReplyStep

\* Ownership, and the file that is started.
LEMMA LaunchKept ==
  ASSUME TypeOK, LaunchInv, [Next]_vars
  PROVE  LaunchInv'
<1>e. ASSUME NEW result, End(result)
      PROVE  /\ pc' = "ended" /\ child'.state # "running" /\ (home' # "absent" => warned')
             /\ child'.lists = child.lists /\ child'.file = child.file
             /\ (child.state = "absent" => child'.state = "absent")
  BY <1>e DEF End, DropHome, TypeOK, Children, LaunchInv
<1>h. told'.replaced = told.replaced \/ Replace
  <2>1. told \in History
    BY DEF TypeOK
  <2> QED
    BY <2>1, Silent DEF Next, LocalStep, ReplyStep, ChildDies, vars, Ended, RpcFails, ReadAccount, ReadPage,
       ReadBadPage, History
<1> USE <1>e DEF LaunchInv, launchVars, listVars, None
<1>1. CASE ReadEnvironment \/ Revalidate \/ CheckVersion \/ Recheck \/ Initialize
  BY <1>1 DEF ReadEnvironment, Revalidate, CheckVersion, Recheck, Initialize, Proceed
<1>2. CASE CreateHome \/ FillHome
  BY <1>2 DEF CreateHome, FillHome, Proceed
<1>3. CASE Spawn
  BY <1>3 DEF Spawn, Proceed, Launched
<1>4. CASE Replace
  <2>1. told'.replaced = IF pc = "spawn" THEN "late" ELSE told.replaced
    BY <1>4 DEF Replace, TypeOK, History
  <2> QED  BY <1>4, <2>1 DEF Replace
<1>5. CASE ReadAccount
  BY <1>5, <1>h DEF ReadAccount, Proceed, Replace
<1>6. CASE PageLimit \/ Compare
  BY <1>6 DEF PageLimit, Compare
<1>7. CASE RpcFails \/ ReadBadPage
  <2>1. told'.replaced = told.replaced
    BY <1>7 DEF RpcFails, ReadBadPage, TypeOK, History
  <2> QED  BY <1>7, <2>1 DEF RpcFails, ReadBadPage
<1>8. CASE ReadPage
  <2>1. pc \in {"list"} /\ \E next \in Optional(Cursors) : Advance(next)
    BY <1>8 DEF ReadPage
  <2>2. \/ /\ pc' = "ended" /\ child'.state # "running" /\ (home' # "absent" => warned')
           /\ child'.lists = child.lists /\ child'.file = child.file
           /\ (child.state = "absent" => child'.state = "absent")
        \/ pc' \in {"list", "compare"} /\ UNCHANGED <<outcome, home, owner, warned, child>>
    BY <2>1 DEF Advance, Proceed
  <2> QED  BY <1>8, <1>h, <2>1, <2>2 DEF ReadPage, Replace
<1>9. CASE Ended \/ UNCHANGED vars
  BY <1>9 DEF Ended, vars
<1>10. CASE ChildDies
  BY <1>10 DEF ChildDies, Children
<1> QED
  BY <1>1, <1>2, <1>3, <1>4, <1>5, <1>6, <1>7, <1>8, <1>9, <1>10
     DEF Next, LocalStep, LocalLaunch, ReplyStep

-----------------------------------------------------------------------------
(* The list.                                                               *)

ListPart == UnlistedInv /\ ListInv /\ CompareInv /\ AvailableInv /\ VerdictIsJustified

\* An end that does not come out of the list.
Plain == {"configuration", "unavailable", "protocol", "wrong account"}

\* Such an end says nothing about the list.
LEMMA PlainEnd ==
  ASSUME NEW result \in Plain, End(result)
  PROVE  ListPart'
<1> USE DEF End, Plain
<1>1. UnlistedInv' /\ ListInv' /\ CompareInv' /\ AvailableInv'
  BY DEF UnlistedInv, ListInv, CompareInv, AvailableInv, Launching
<1>2. VerdictIsJustified'
  BY DEF VerdictIsJustified, ReportIsEarned, RefusalIsJustified
<1> QED  BY <1>1, <1>2 DEF ListPart

\* A step of the launch leaves the list as it was: unread.
LEMMA LaunchLeavesList ==
  ASSUME ListPart, LaunchInv, pc \in Launching, pc' \in Launching \cup {"account"},
         UNCHANGED <<outcome, entitled, listVars>>,
         told'.asked = told.asked, told'.offers = told.offers, told'.models = told.models
  PROVE  ListPart'
<1> USE DEF ListPart, Launching, listVars
<1>1. UnlistedInv' /\ ListInv' /\ CompareInv' /\ AvailableInv'
  BY DEF UnlistedInv, ListInv, CompareInv, AvailableInv
<1>2. VerdictIsJustified'
  BY DEF LaunchInv, VerdictIsJustified, ReportIsEarned, RefusalIsJustified, None
<1> QED  BY <1>1, <1>2

\* The account is the subscription's, and the list is opened, or the command ends.
LEMMA AccountKeepsList ==
  ASSUME TypeOK, LaunchInv, ListPart, ReadAccount
  PROVE  ListPart'
<1>1. PICK account \in Optional(Accounts) :
        /\ told' = [told EXCEPT !.account = account]
        /\ CASE ~AccountIsNamed(account) -> End("protocol")
             [] AccountIsNamed(account) /\ ~Managed(account) -> End("wrong account")
             [] Managed(account) -> Proceed("list") /\ UNCHANGED launchVars
  BY DEF ReadAccount
<1>2. CASE ~Managed(account)
  BY <1>1, <1>2, PlainEnd DEF AccountIsNamed, Plain
<1>3. CASE Managed(account)
  <2>1. pc' = "list" /\ outcome' = None /\ UNCHANGED <<entitled, listVars>>
    BY <1>1, <1>3 DEF ReadAccount, AccountIsNamed, Managed, None, Proceed, LaunchInv
  <2>2. /\ told'.account = account /\ told'.asked = <<>> /\ told'.offers = <<>> /\ told'.models = {}
        /\ remaining = MaxPages /\ cursor = None /\ seen = {} /\ available = {}
    BY <1>1 DEF ListPart, UnlistedInv, ReadAccount, TypeOK, History
  <2>3. Distinct(<<>>) /\ Elements(<<>>) = {} /\ Len(<<>>) = 0 /\ MaxPages - MaxPages = 0
    BY Budget DEF Distinct, Elements
  <2>4. ListInv'
    BY <1>3, <2>1, <2>2, <2>3 DEF ListInv, listVars, Optional, Managed
  <2>5. UnlistedInv' /\ CompareInv' /\ AvailableInv' /\ VerdictIsJustified'
    BY <2>1, <2>2 DEF UnlistedInv, CompareInv, AvailableInv, VerdictIsJustified, ReportIsEarned,
       RefusalIsJustified, Launching, listVars, None
  <2> QED  BY <2>4, <2>5 DEF ListPart
<1> QED  BY <1>2, <1>3

\* The budget was used up by pages that each offered another cursor.
LEMMA LimitKeepsList ==
  ASSUME TypeOK, ListPart, PageLimit
  PROVE  ListPart'
<1>1. /\ pc' = "ended" /\ outcome' = "page limit" /\ told' = told
      /\ Len(told.asked) = MaxPages /\ Len(told.offers) = MaxPages /\ Distinct(told.offers)
  <2>1. MaxPages - 0 = MaxPages
    BY Budget
  <2> QED  BY <2>1 DEF PageLimit, End, ListPart, ListInv
<1> QED
  BY <1>1 DEF ListPart, UnlistedInv, ListInv, CompareInv, AvailableInv, Launching,
     VerdictIsJustified, ReportIsEarned, RefusalIsJustified

\* The comparison is made with what the account may use.
LEMMA CompareKeepsList ==
  ASSUME TypeOK, ListPart, Compare
  PROVE  ListPart'
<1>1. /\ pc' = "ended" /\ told' = told /\ entitled' = entitled
      /\ outcome' = IF Everything \subseteq available THEN "report" ELSE "unavailable model"
  BY DEF Compare, End, Everything
<1>2. /\ Managed(told.account) /\ told.list = "read" /\ available = told.models
      /\ available \subseteq entitled /\ Len(told.asked) <= MaxPages /\ Distinct(told.asked)
  BY DEF ListPart, CompareInv, AvailableInv, Compare
<1>3. VerdictIsJustified'
  BY <1>1, <1>2 DEF VerdictIsJustified, ReportIsEarned, RefusalIsJustified
<1> QED
  BY <1>1, <1>3 DEF ListPart, UnlistedInv, ListInv, CompareInv, AvailableInv, Launching

\* A page that is read: the next one is new, was offered before, or is absent.
LEMMA PageKeepsList ==
  ASSUME TypeOK, LaunchInv, ListPart, ReadPage
  PROVE  ListPart'
<1>1. PICK entries \in Pages, next \in Optional(Cursors) :
        /\ WellFormed(entries)
        /\ available' = available \cup PageModels(entries)
        /\ Advance(next)
        /\ told' = [told EXCEPT !.asked = Append(@, cursor), !.models = @ \cup PageModels(entries),
                                !.offers = IF next = None THEN @ ELSE Append(@, next),
                                !.list = IF next = None THEN "read" ELSE @]
  BY DEF ReadPage
<1>2. /\ pc = "list" /\ remaining' = remaining - 1 /\ entitled' = entitled /\ outcome = None
      /\ remaining \in 0..MaxPages
  BY DEF ReadPage, TypeOK, LaunchInv
<1>3. /\ Managed(told.account) /\ Len(told.asked) = MaxPages - remaining
      /\ Len(told.offers) = Len(told.asked)
      /\ Distinct(told.asked) /\ Distinct(told.offers)
      /\ Elements(told.offers) = seen /\ Elements(told.asked) \subseteq Optional(seen)
      /\ cursor \in Optional(seen) /\ cursor \notin Elements(told.asked)
      /\ available = told.models /\ available \subseteq entitled
  BY <1>2 DEF ListPart, ListInv, AvailableInv
<1>4. /\ told.asked \in Seq(Optional(Cursors)) /\ told.offers \in Seq(Cursors)
      /\ cursor \in Optional(Cursors) /\ seen \subseteq Cursors
  BY DEF TypeOK, History
<1>5. /\ told'.account = told.account /\ told'.asked = Append(told.asked, cursor)
      /\ told'.models = told.models \cup PageModels(entries)
      /\ told'.offers = IF next = None THEN told.offers ELSE Append(told.offers, next)
      /\ told'.list = IF next = None THEN "read" ELSE told.list
  BY <1>1 DEF TypeOK, History
<1>6. AvailableInv'
  BY <1>1, <1>2, <1>3, <1>5, PageLists DEF AvailableInv
<1>7. /\ Len(Append(told.asked, cursor)) = Len(told.asked) + 1
      /\ Distinct(Append(told.asked, cursor))
      /\ Elements(Append(told.asked, cursor)) = Elements(told.asked) \cup {cursor}
  BY <1>3, <1>4, AppendDistinct, AppendElements
<1>8. Len(told'.asked) = MaxPages - remaining' /\ Len(told'.asked) <= MaxPages
  <2>1. remaining - 1 \in 0..MaxPages
    BY <1>2, Budget, Decrement DEF ReadPage
  <2> QED  BY <1>2, <1>3, <1>5, <1>7, <2>1, Budget
<1>9. CASE next = None
  <2>1. pc' = "compare" /\ outcome' = None /\ told'.list = "read"
    BY <1>1, <1>2, <1>5, <1>9 DEF Advance, Proceed
  <2> QED
    BY <1>3, <1>5, <1>6, <1>7, <1>8, <2>1 DEF ListPart, UnlistedInv, ListInv, CompareInv, Launching,
       VerdictIsJustified, ReportIsEarned, RefusalIsJustified, None, Managed
<1>10. CASE next # None /\ next \in seen
  <2>1. pc' = "ended" /\ outcome' = "repeated cursor"
    BY <1>1, <1>10 DEF Advance, End
  <2>2. ~Distinct(told'.offers)
    BY <1>3, <1>4, <1>5, <1>10, AppendDistinct
  <2> QED
    BY <1>6, <2>1, <2>2 DEF ListPart, UnlistedInv, ListInv, CompareInv, Launching,
       VerdictIsJustified, ReportIsEarned, RefusalIsJustified
<1>11. CASE next # None /\ next \notin seen
  <2>1. pc' = "list" /\ outcome' = None /\ cursor' = next /\ seen' = seen \cup {next}
    BY <1>1, <1>2, <1>11 DEF Advance, Proceed
  <2>2. next \in Cursors /\ told'.offers = Append(told.offers, next)
    BY <1>5, <1>11 DEF Optional
  <2>3. /\ Len(told'.offers) = Len(told.offers) + 1 /\ Distinct(told'.offers)
        /\ Elements(told'.offers) = seen'
    BY <1>3, <1>4, <1>11, <2>1, <2>2, AppendDistinct, AppendElements
  <2>4. Elements(told'.asked) \subseteq Optional(seen') /\ cursor' \notin Elements(told'.asked)
    BY <1>3, <1>5, <1>7, <1>11, <2>1 DEF Optional
  <2>5. ListInv'
    BY <1>3, <1>5, <1>7, <1>8, <2>1, <2>3, <2>4 DEF ListInv, Optional, Managed
  <2> QED
    BY <1>6, <2>1, <2>5 DEF ListPart, UnlistedInv, CompareInv, Launching,
       VerdictIsJustified, ReportIsEarned, RefusalIsJustified, None
<1> QED  BY <1>9, <1>10, <1>11

\* Every step keeps what is known of the list.
LEMMA ListKept ==
  ASSUME TypeOK, LaunchInv, ListPart, [Next]_vars
  PROVE  ListPart'
<1> USE DEF Plain, Launching
<1>1. CASE ReadEnvironment \/ CheckVersion \/ Initialize
  <2>1. UNCHANGED <<told, entitled, remaining, cursor, seen, available>>
    BY <1>1, Silent
  <2> QED
    BY <1>1, <2>1, PlainEnd, LaunchLeavesList
       DEF ReadEnvironment, CheckVersion, Initialize, Proceed, listVars
<1>2. CASE LocalLaunch
  <2>1. UNCHANGED <<told, entitled, remaining, cursor, seen, available>>
    BY <1>2, Silent
  <2> QED
    BY <1>2, <2>1, PlainEnd, LaunchLeavesList
       DEF LocalLaunch, Revalidate, CreateHome, FillHome, Recheck, Spawn, Proceed, listVars
<1>3. CASE Replace
  <2>1. /\ told'.asked = told.asked /\ told'.offers = told.offers /\ told'.models = told.models
    BY <1>3 DEF Replace, TypeOK, History
  <2> QED  BY <1>3, <2>1, LaunchLeavesList DEF Replace, listVars, TypeOK
<1>4. CASE RpcFails \/ ReadBadPage
  BY <1>4, PlainEnd DEF RpcFails, ReadBadPage
<1>5. CASE ReadAccount \/ PageLimit \/ Compare \/ ReadPage
  BY <1>5, AccountKeepsList, LimitKeepsList, CompareKeepsList, PageKeepsList
<1>6. CASE Ended \/ ChildDies \/ UNCHANGED vars
  BY <1>6 DEF Ended, ChildDies, listVars, vars, ListPart, UnlistedInv, ListInv, CompareInv, AvailableInv,
     VerdictIsJustified, ReportIsEarned, RefusalIsJustified
<1> QED
  BY <1>1, <1>2, <1>3, <1>4, <1>5, <1>6 DEF Next, LocalStep, ReplyStep

-----------------------------------------------------------------------------
\* Preflight keeps its inductive invariant, for any constants.
THEOREM Invariant == Spec => []IInv
<1>1. IInv /\ [Next]_vars => IInv'
  BY TypeKept, LaunchKept, ListKept DEF IInv, ListPart
<1> QED  BY <1>1, InitHolds, PTL DEF Spec

\* The state has its types; in particular the page budget is never exceeded.
THEOREM TypeCorrect == Spec => []TypeOK
<1>1. IInv => TypeOK
  BY DEF IInv
<1> QED  BY <1>1, Invariant, PTL

\* A report is earned and a refusal of the list has its reason (runtime.rs preflight).
THEOREM VerdictIsRight == Spec => []VerdictIsJustified
<1>1. IInv => VerdictIsJustified
  BY DEF IInv
<1> QED  BY <1>1, Invariant, PTL

\* However the command ends, an App Server that was started has been sent its
\* kill, and a home is only left if its removal failed and was warned about.
THEOREM NothingIsLeft == Spec => []NothingLeftBehind
<1>1. IInv => NothingLeftBehind
  BY DEF IInv, LaunchInv, NothingLeftBehind
<1> QED  BY <1>1, Invariant, PTL

\* Only a replacement after the last revalidation can start another file.
THEOREM ReplacementIsNoticed == Spec => []PinnedUnlessReplacedLate
<1>1. IInv => PinnedUnlessReplacedLate
  BY DEF IInv, LaunchInv, PinnedUnlessReplacedLate
<1> QED  BY <1>1, Invariant, PTL
=============================================================================
