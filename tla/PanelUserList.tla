--------------------------- MODULE PanelUserList ---------------------------
(***************************************************************************)
(* The user list as internal/server/server.go answers it to a token that   *)
(* is not privileged.  A panel session gets a page of the users it owns:   *)
(* handlePanelRestrictedUserList reads the panel's own pages one after the *)
(* other, filters what it collected and cuts out the page the browser      *)
(* asked for.  A raw token gets one page of the panel, filtered.           *)
(*                                                                         *)
(* The query goes to the panel with its filters and its sorting, so the    *)
(* panel's list changes between two pages in every way: users enter it,    *)
(* leave it, change place in it, and move in or out of the token's reach.  *)
(* The numbers of a query are those of a Go int, of which there are        *)
(* 2 * HalfInts; a page is computed modulo that number.                    *)
(***************************************************************************)
EXTENDS Integers, Sequences, SequencesExt

CONSTANTS Users,      \* user uuids
          PageSize,   \* upstreamPageSize
          MaxScan,    \* maxPanelUserScan
          HalfInts,   \* 2^63: an int lies in -HalfInts..HalfInts-1
          Queries,    \* numeric parameters a browser may send
          InitialPanels, \* the panel's list when the first request arrives
          MaxChanges  \* bound: changes to the panel

ASSUME ListAssumption ==
    /\ {PageSize, MaxScan, HalfInts} \subseteq Nat \ {0}
    /\ MaxScan % PageSize = 0
    /\ MaxChanges \in Nat
    /\ \A s \in InitialPanels : s \in Seq(Users) /\ IsInjective(s)

\* A query gives some of these parameters a decimal number.
Params == {"size", "limit", "start", "offset", "page"}

ASSUME QueriesAssumption ==
    \A q \in Queries : DOMAIN q \subseteq Params /\ \A key \in DOMAIN q : q[key] \in Int

VARIABLES
    panel,      \* the users the query's filters select, as its sorting orders them
    owned,      \* users the token owns
    counts,     \* the panel's answers carry a total
    changes,    \* changes to the panel so far
    pc, query, start,   \* the list request: next step, parameters, next page
    combined,   \* the users read so far, with what ownership was at the time
    answer,     \* what the client was answered
    shifted,    \* since the scan began: users that entered or changed place
    gone,       \* users that left the list or went to a later place in it
    kept        \* users owned and in the list all the time, none of these

panelVars == <<panel, owned, counts, changes>>
scanVars  == <<pc, query, start, combined, answer>>
histVars  == <<shifted, gone, kept>>
vars == <<panelVars, scanVars, histVars>>

Statuses == {"none", "ok", "upstream", "502", "aborted"}

NoAnswer(status) == [status |-> status, users |-> <<>>, total |-> 0]

-----------------------------------------------------------------------------
(* Page arithmetic. *)

MaxInt == HalfInts - 1

Wrap(n) == ((n + HalfInts) % (2 * HalfInts)) - HalfInts

\* strconv.Atoi accepts what fits an int.
Atoi(q, key) == key \in DOMAIN q /\ q[key] \in (-MaxInt - 1)..MaxInt

\* The first of the keys whose value is a number of at least low, else 0.
FirstInt(q, keys, low) ==
    LET good == {i \in DOMAIN keys : Atoi(q, keys[i]) /\ q[keys[i]] >= low}
    IN  IF good = {} THEN 0 ELSE q[keys[Min(good)]]

firstPositiveInt(q, keys) == FirstInt(q, keys, 1)

firstNonNegativeInt(q, keys) == FirstInt(q, keys, 0)

\* Size 0 stands for the nil page: the whole list.
panelResponsePage_ZeroBased(q) ==
    LET size  == firstPositiveInt(q, <<"size", "limit">>)
        given == firstNonNegativeInt(q, <<"start", "offset">>)
        page  == firstPositiveInt(q, <<"page">>)
    IN  [size |-> size,
         start |-> IF size > 0 /\ given = 0 /\ page > 1 THEN Wrap(page * size) ELSE given]

panelResponsePage(q) ==
    LET size  == firstPositiveInt(q, <<"size", "limit">>)
        given == firstNonNegativeInt(q, <<"start", "offset">>)
        page  == firstPositiveInt(q, <<"page">>)
    IN  [size |-> size,
         start |-> IF size > 0 /\ given = 0 /\ page > 1 THEN Wrap((page - 1) * size) ELSE given]

PageEnd(items, page) == Min({Wrap(page.start + page.size), Len(items)})

\* The slice expression panics; net/http then drops the connection.
SlicePanics(items, page) ==
    /\ page.size > 0
    /\ page.start < Len(items)
    /\ page.start < 0 \/ PageEnd(items, page) < page.start

slicePage(items, page) ==
    CASE page.size = 0                                -> items
      [] page.size > 0 /\ page.start >= Len(items)    -> <<>>
      [] OTHER -> SubSeq(items, page.start + 1, PageEnd(items, page))

-----------------------------------------------------------------------------
(* Filtering. *)

\* The elements of s at the positions P, in their order.
Keep(s, P) ==
    [n \in 1..Cardinality(P) |-> s[CHOOSE i \in P : Cardinality({j \in P : j <= i}) = n]]

Visible(items) == Keep(items, {i \in DOMAIN items : items[i].owned})

Uuids(items) == [i \in DOMAIN items |-> items[i].uuid]

\* Users the token does not own are dropped, then the page is cut out; the
\* total becomes the number of users before the cut.
filterJSONListPaged(items, page) ==
    IF SlicePanics(Visible(items), page) THEN NoAnswer("aborted")
    ELSE [status |-> "ok",
          users  |-> Uuids(slicePage(Visible(items), page)),
          total  |-> Len(Visible(items))]

-----------------------------------------------------------------------------
(* The list request. *)

\* An upstream answer to a page query, as it is decoded.
PanelPage(from, size) ==
    [i \in 1..Min({size, Len(panel) - from}) |->
        [uuid |-> panel[from + i], owned |-> panel[from + i] \in owned]]

UpstreamPage == IF start < Len(panel) THEN PanelPage(start, PageSize) ELSE <<>>

\* Without a total in the answer the page counts for the whole list.
Total == IF counts THEN Len(panel) ELSE Len(UpstreamPage)

LastPage_OffByOne == Len(UpstreamPage) < PageSize \/ start + PageSize + 1 >= Total

LastPage == Len(UpstreamPage) < PageSize \/ start + PageSize >= Total

NextStart_Overlapping == start + PageSize - 1

NextStart == start + PageSize

Ask(q) ==
    /\ pc = "idle"
    /\ pc' = "scan"
    /\ query' = q
    /\ start' = 0
    /\ combined' = <<>>
    /\ answer' = NoAnswer("none")
    /\ shifted' = {}
    /\ gone' = {}
    /\ kept' = owned \cap ToSet(panel)
    /\ UNCHANGED panelVars

ReadPage_NoScanLimit ==
    /\ pc = "scan"
    /\ combined' = combined \o UpstreamPage
    /\ start' = NextStart
    /\ pc' = IF LastPage THEN "filter" ELSE "scan"
    /\ UNCHANGED <<panelVars, histVars, query, answer>>

ReadPage ==
    /\ pc = "scan"
    /\ combined' = combined \o UpstreamPage
    /\ start' = NextStart
    /\ pc' = IF LastPage \/ NextStart >= MaxScan THEN "filter" ELSE "scan"
    /\ UNCHANGED <<panelVars, histVars, query, answer>>

\* The panel cannot be reached or answers what cannot be decoded (502), or with
\* a status of its own, which goes to the browser: the pages read are dropped.
PageFails ==
    /\ pc = "scan"
    /\ pc' = "idle"
    /\ \E status \in {"502", "upstream"} : answer' = NoAnswer(status)
    /\ UNCHANGED <<panelVars, histVars, query, start, combined>>

Answer ==
    /\ pc = "filter"
    /\ pc' = "idle"
    /\ answer' = filterJSONListPaged(combined, panelResponsePage(query))
    /\ UNCHANGED <<panelVars, histVars, query, start, combined>>

\* A raw token: the query goes to the panel as it is, and the page that comes
\* back, whichever it is, is filtered and not cut again.
ListRaw ==
    /\ pc = "idle"
    /\ \E from \in 0..Len(panel), size \in {PageSize, Len(panel)} :
          combined' = PanelPage(from, size)
    /\ query' = <<>>
    /\ answer' = filterJSONListPaged(combined', [start |-> 0, size |-> 0])
    /\ UNCHANGED <<panelVars, histVars, pc, start>>

-----------------------------------------------------------------------------
(* The panel, changed by others. *)

Scanning == pc # "idle"

\* Only what happens under a request matters: between two of them the panel may
\* become anything, as in Init.
Change ==
    /\ Scanning
    /\ changes < MaxChanges
    /\ changes' = changes + 1
    /\ UNCHANGED <<counts, scanVars>>

\* A user is created, or an update makes the filters select it.
Enter(u, i) ==
    /\ Change
    /\ u \notin ToSet(panel)
    /\ panel' = InsertAt(panel, i, u)
    /\ shifted' = shifted \cup {u}
    /\ UNCHANGED <<owned, gone, kept>>

\* A user is deleted, or an update makes the filters drop it.
Leave(u) ==
    /\ Change
    /\ \E i \in DOMAIN panel : panel[i] = u /\ panel' = RemoveAt(panel, i)
    /\ gone' = gone \cup {u}
    /\ kept' = kept \ {u}
    /\ UNCHANGED <<owned, shifted>>

\* An update changes what the list is sorted by: the user goes from place j to i.
Move(u, i) ==
    /\ Change
    /\ \E j \in DOMAIN panel :
          /\ panel[j] = u
          /\ i # j
          /\ panel' = InsertAt(RemoveAt(panel, j), i, u)
          /\ gone' = IF i > j THEN gone \cup {u} ELSE gone
    /\ shifted' = shifted \cup {u}
    /\ kept' = kept \ {u}
    /\ UNCHANGED owned

\* An update gives the user to the token or takes it away, in its place.
Reassign(u) ==
    /\ Change
    /\ owned' = IF u \in owned THEN owned \ {u} ELSE owned \cup {u}
    /\ kept' = kept \ {u}
    /\ UNCHANGED <<panel, shifted, gone>>

-----------------------------------------------------------------------------
Init ==
    /\ panel \in InitialPanels
    /\ owned \in SUBSET Users
    /\ counts \in BOOLEAN
    /\ changes = 0
    /\ pc = "idle"
    /\ query = <<>>
    /\ start = 0
    /\ combined = <<>>
    /\ answer = NoAnswer("none")
    /\ shifted = {}
    /\ gone = {}
    /\ kept = {}

Next ==
    \/ \E q \in Queries : Ask(q)
    \/ ReadPage \/ PageFails \/ Answer \/ ListRaw
    \/ \E u \in Users :
          \/ Leave(u) \/ Reassign(u)
          \/ \E i \in 1..(Len(panel) + 1) : Enter(u, i)
          \/ \E i \in DOMAIN panel : Move(u, i)

Spec == Init /\ [][Next]_vars

-----------------------------------------------------------------------------
(* Properties *)

Items == Seq([uuid : Users, owned : BOOLEAN])

\* Every variable has its type; a list is put together from MaxScan users at
\* most, however fast the panel grows under the scan.
TypeOK ==
    /\ panel \in Seq(Users) /\ IsInjective(panel)
    /\ owned \subseteq Users
    /\ counts \in BOOLEAN
    /\ changes \in 0..MaxChanges
    /\ pc \in {"idle", "scan", "filter"}
    /\ start \in 0..MaxScan
    /\ combined \in Items /\ (Scanning => Len(combined) <= MaxScan)
    /\ answer.status \in Statuses /\ answer.users \in Seq(Users) /\ answer.total \in Nat
    /\ {shifted, gone, kept} \subseteq SUBSET Users

\* Pages are read one after the other while the list changes.  When every page
\* carries the total (counts), nobody leaves the list or goes to a later place
\* in it, and the list fits the scan, every user that the token owned throughout
\* and that kept its place is in the answer: users that others push to later
\* pages are read there, and the scan does not stop before them.
NobodyMissed ==
    pc = "filter" /\ counts /\ gone = {} /\ Len(panel) <= MaxScan =>
        kept \subseteq ToSet(Uuids(Visible(combined)))

\* As long as nobody enters the list or changes place in it, no user is in the
\* answer twice, however many leave, so the total is a number of users.
NobodyTwice == pc = "filter" /\ shifted = {} => IsInjective(Uuids(combined))

\* What the query asks for in unbounded numbers: the offset, and the size.
Asked(q, keys, low, default) ==
    LET good == {i \in DOMAIN keys : keys[i] \in DOMAIN q /\ q[keys[i]] >= low}
    IN  IF good = {} THEN default ELSE q[keys[Min(good)]]

AskedSize(q) == Asked(q, <<"size", "limit">>, 1, 0)

AskedStart(q) ==
    IF Asked(q, <<"start", "offset">>, 0, 0) > 0 THEN Asked(q, <<"start", "offset">>, 0, 0)
    ELSE (Asked(q, <<"page">>, 1, 1) - 1) * AskedSize(q)

Fits(q) ==
    /\ \A key \in DOMAIN q : q[key] <= MaxInt
    /\ AskedStart(q) + AskedSize(q) <= MaxInt

\* A browser whose numbers stay within an int is shown exactly the users of its
\* page among those it owned when they were read, and the total of them: user i
\* of the list is on the page iff AskedStart < i <= AskedStart + AskedSize.
\* Beyond an int the page wraps around or the request is dropped.
PageExact ==
    pc = "idle" /\ answer.status \in {"ok", "aborted"} /\ Fits(query) =>
        LET mine  == {i \in DOMAIN combined : combined[i].owned}
            Rank(i) == Cardinality({j \in mine : j <= i})
            onPage == {i \in mine :
                         AskedSize(query) > 0 =>
                            /\ Rank(i) > AskedStart(query)
                            /\ Rank(i) <= AskedStart(query) + AskedSize(query)}
        IN  /\ answer.total = Cardinality(mine)
            /\ Len(answer.users) = Cardinality(onPage)
            /\ \A i \in onPage :
                  answer.users[Cardinality({j \in onPage : j <= i})] = combined[i].uuid

=============================================================================
