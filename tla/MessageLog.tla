----------------------------- MODULE MessageLog -----------------------------
(***************************************************************************)
(* The rows of one channel buffer in a tab: the live batcher, the pages of *)
(* history, the optimistic rows of the user's own sends, and the           *)
(* redactions, edits and reactions that name a row which may not be there  *)
(* yet (ircStore.svelte.ts, messageBatcher.ts, messageHandler.ts).         *)
(*                                                                         *)
(* The server's events of the buffer are the sequence `log`; an event's    *)
(* place in it is its eid, its msgid and its time.  The live stream hands  *)
(* the tab every event after the first `base`, once and in order.          *)
(***************************************************************************)
EXTENDS Integers, Sequences, FiniteSets

CONSTANTS
  Base,          \* events stored before the tab is opened
  MaxLog,        \* bound on the events of the buffer
  MaxSends,      \* bound on the lines sent in this tab
  PageSize,      \* rows the server returns for one history request
  MaxPages,      \* bound on the requests for older history
  CacheGap,      \* bound on the events since sessionStorage was written
  Settings       \* the settings considered, see Setting

Kinds == {"redact", "edit", "react"}

\* labels: the IRC server labels the echo of a send.  tag: the engine marks the
\* user's own messages (`se`).  renames: the user's nick may change.  same: the
\* user writes one text again and again within thirty seconds.  sends, items:
\* how many lines are sent, and which items occur.
Setting == [labels : BOOLEAN, tag : BOOLEAN, renames : BOOLEAN, same : BOOLEAN,
            sends : 0..MaxSends, items : SUBSET Kinds]

ASSUME ConstantsAssumption ==
  /\ Base \in Nat /\ MaxLog \in Nat /\ MaxSends \in Nat
  /\ PageSize \in Nat \ {0} /\ MaxPages \in Nat /\ CacheGap \in 0..Base
  /\ Settings # {} /\ Settings \subseteq Setting

VARIABLES
  setting,    \* the server and the user of this behaviour (never changes)
  log,        \* the server's events of this buffer
  handled,    \* how many of them processIrcEvent has seen
  wire,       \* labels of the sends on their way to the server
  sends,      \* how many lines the user has written (also the last label)
  nick,       \* the user's nick as the tab knows it
  list,       \* ircState.messages[key]
  optimistic, \* ircState.optimisticMessages: the pending sends, oldest first
  stash,      \* pendingRedactions, pendingEdits, pendingReactions: eids of items
  queue,      \* the batcher's live queue: eids
  backfill,   \* the batcher's backfill queue: eids
  timer,      \* a flush timer of the batcher is armed
  history,    \* the request loadBufferHistory makes when the buffer is opened
  older,      \* the request of handleLoadMore
  pages,      \* how many requests handleLoadMore has made
  gap         \* history: stored events after a cached row that no request asks for

vars == <<setting, log, handled, wire, sends, nick, list, optimistic, stash, queue,
          backfill, timer, history, older, pages, gap>>

serverVars == <<setting, log, wire>>
rowVars    == <<list, optimistic, stash>>
batchVars  == <<queue, backfill, timer>>
fetchVars  == <<history, older, pages, gap>>

Other == "other"
OwnNicks == {"me", "me_"}

-----------------------------------------------------------------------------
(* Events and rows *)

NoRequest == [state |-> "none", rows |-> {}]

\* The text of the user's n-th message; 0 stands for the text they repeat.
Body(n) == IF setting.same THEN 0 ELSE n

Message(who, n, label) ==
  [kind |-> "msg", nick |-> who, body |-> n, label |-> label, of |-> 0, add |-> TRUE]
Item(kind, of, add) ==
  [kind |-> kind, nick |-> Other, body |-> 0, label |-> 0, of |-> of, add |-> add]
NickChange(who) ==
  [kind |-> "nick", nick |-> who, body |-> 0, label |-> 0, of |-> 0, add |-> TRUE]

Messages(eids) == {e \in eids : log[e].kind = "msg"}
Items(eids)    == {e \in eids : log[e].kind \in Kinds}

\* A row as unpackEvent makes it from a live event ...
LiveRow(e) ==
  [eid |-> e, t |-> 2 * e, label |-> IF setting.labels THEN log[e].label ELSE 0,
   nick |-> log[e].nick, body |-> log[e].body, edit |-> 0,
   redacted |-> FALSE, reacted |-> FALSE]

\* ... and as normalizeMessage makes it from a stored one, which has no label.
PageRow(e) == [LiveRow(e) EXCEPT !.label = 0]

\* The optimistic row of a send: no eid, the tab's own clock.
OptimisticRow(label) ==
  [eid |-> 0, t |-> 2 * Len(log) + 1, label |-> label, nick |-> nick,
   body |-> Body(label), edit |-> 0, redacted |-> FALSE, reacted |-> FALSE]

Eids(rows) == {rows[k].eid : k \in DOMAIN rows} \ {0}

\* The least and the greatest element of a set of positive numbers, 0 if it is empty.
First(S) == IF S = {} THEN 0 ELSE CHOOSE k \in S : \A j \in S : k <= j
Last(S)  == IF S = {} THEN 0 ELSE CHOOSE k \in S : \A j \in S : j <= k

\* A finite set of numbers as a sequence, and the elements of a sequence at the
\* places in a set.
Ascending(S) ==
  [i \in 1..Cardinality(S) |-> CHOOSE e \in S : Cardinality({f \in S : f <= e}) = i]
At(seq, places) == [i \in 1..Cardinality(places) |-> seq[Ascending(places)[i]]]

\* Array.sort by compareMessages, which is stable: rows of one time have no eids
\* to be told apart by, or the same, and keep their order.
Place(rows, k) ==
  Cardinality({j \in DOMAIN rows :
                 rows[j].t < rows[k].t \/ (rows[j].t = rows[k].t /\ j <= k)})
Sorted(rows) ==
  [i \in DOMAIN rows |-> rows[CHOOSE k \in DOMAIN rows : Place(rows, k) = i]]

PendingLike(r) == r.label # 0 /\ r.eid = 0
SameLine(a, b) ==
  a.nick = b.nick /\ a.body = b.body /\ a.edit = b.edit /\ a.redacted = b.redacted

RowOfLabel(rows, l) == First({k \in DOMAIN rows : l # 0 /\ rows[k].label = l})
RowOfEid(rows, e)   == First({k \in DOMAIN rows : rows[k].eid = e})
PendingRow(rows, m) == Last({k \in DOMAIN rows : PendingLike(rows[k]) /\ SameLine(rows[k], m)})
Without(entries, l) == At(entries, {k \in DOMAIN entries : entries[k].label # l})

-----------------------------------------------------------------------------
(* Redactions, edits and reactions *)

\* tombstoneOf, editedRow and withReaction: what an item makes of its row.
Applied(r, e) ==
  CASE log[e].kind = "redact" -> [r EXCEPT !.redacted = TRUE]
    [] log[e].kind = "edit"   -> IF r.redacted THEN r ELSE [r EXCEPT !.edit = e]
    [] log[e].kind = "react"  -> [r EXCEPT !.reacted = log[e].add]

\* foldReactions, then foldRedactions, then foldEdits, each oldest first: the last
\* reaction decides, and no edit reaches a tombstone.
Marked(r, eids) ==
  LET Of(kind) == {e \in eids : log[e].kind = kind /\ log[e].of = r.eid}
      redacted == r.redacted \/ Of("redact") # {}
  IN  [r EXCEPT !.redacted = redacted,
                !.edit = IF Of("edit") = {} \/ redacted THEN @ ELSE Last(Of("edit")),
                !.reacted = IF Of("react") = {} THEN @ ELSE log[Last(Of("react"))].add]

\* An item is folded into the first row with the msgid it names.
Folded(rows, eids) ==
  [k \in DOMAIN rows |->
     IF rows[k].eid # 0 /\ RowOfEid(rows, rows[k].eid) = k THEN Marked(rows[k], eids) ELSE rows[k]]

\* applyRedaction, applyEdit, applyReaction: in place if the row is loaded,
\* stashed if it is not.
ApplyLive(e) ==
  LET at == RowOfEid(list, log[e].of)
  IN  IF at = 0
      THEN stash' = stash \union {e} /\ UNCHANGED list
      ELSE list' = [list EXCEPT ![at] = Applied(@, e)] /\ UNCHANGED stash

-----------------------------------------------------------------------------
(* batchAppendMessages *)

\* mutant: the echo takes its row but stays in the optimistic map, and is not
\* looked up by its text.
AppendByLabelOnly(s, m) ==
  LET at == RowOfLabel(s.list, m.label)
  IN  CASE at # 0 -> [s EXCEPT !.list = [@ EXCEPT ![at] = m]]
        [] m.eid \in s.seen -> s
        [] OTHER -> [s EXCEPT !.seen = @ \union {m.eid}, !.list = Append(@, m),
                              !.pushed = Append(@, m)]

\* One message of the batch.  `s` is the list, the optimistic map and the eids
\* seen, as the loop carries them.  A repeat of a self message counts as recent.
AppendOne(s, m) ==
  LET labelled == RowOfLabel(s.list, m.label)
      left     == Without(s.opt, m.label)
      isSelf   == m.nick # Other /\ (setting.tag \/ m.nick = nick)
      sameOpt  == First({o \in DOMAIN left : isSelf /\ left[o].nick = m.nick /\ left[o].body = m.body})
      optRow   == IF sameOpt = 0 THEN 0 ELSE RowOfLabel(s.list, left[sameOpt].label)
      left2    == IF sameOpt = 0 THEN left ELSE Without(left, left[sameOpt].label)
      same     == Last({k \in DOMAIN s.list : isSelf /\ SameLine(s.list[k], m)})
      fallback == PendingRow(s.list, m)
      Inherit(k) == IF m.label = 0 THEN [m EXCEPT !.label = s.list[k].label] ELSE m
      Put(k, row, opt) ==
        [s EXCEPT !.list = [@ EXCEPT ![k] = row], !.opt = opt]
  IN  CASE labelled # 0 -> Put(labelled, m, left)
        [] labelled = 0 /\ optRow # 0 -> Put(optRow, Inherit(optRow), left2)
        [] labelled = 0 /\ optRow = 0 /\ same # 0 ->
             Put(same, Inherit(same), Without(left2, s.list[same].label))
        [] OTHER ->
             IF m.eid \in s.seen THEN [s EXCEPT !.opt = left2]
             ELSE IF fallback # 0   \* the loop forgets to put the echo in the list
             THEN [s EXCEPT !.opt = Without(left2, s.list[fallback].label),
                            !.seen = @ \union {m.eid}]
             ELSE [s EXCEPT !.opt = left2, !.seen = @ \union {m.eid},
                            !.list = Append(@, m), !.pushed = Append(@, m)]

AppendAll(s0, rows) ==
  LET after[n \in 0..Len(rows)] == IF n = 0 THEN s0 ELSE AppendOne(after[n-1], rows[n])
  IN  after[Len(rows)]

\* The whole window is sorted again, and repeats dropped, when the batch turns
\* out to be older than the row before it.
Resorted(s) ==
  LET old == Len(s.list) - Len(s.pushed)
      all == Sorted(s.list)
  IN  IF s.pushed # <<>> /\ old > 0 /\ s.pushed[1].t < s.list[old].t
      THEN At(all, {k \in DOMAIN all : all[k].eid = 0 \/ RowOfEid(all, all[k].eid) = k})
      ELSE s.list

LiveRows(eids) == [k \in 1..Cardinality(eids) |-> LiveRow(Ascending(eids)[k])]

BatchAppend(s0, eids) ==
  LET s == AppendAll([list |-> s0.list, opt |-> s0.opt, seen |-> Eids(s0.list), pushed |-> <<>>],
                     LiveRows(eids))
  IN  [list |-> Resorted(s), opt |-> s.opt, stash |-> s0.stash]

-----------------------------------------------------------------------------
(* prependMessages and setMessages *)

\* mutant: the replaced row's eid is not claimed, so the page brings it again.
ReplaceUnclaimed(s, m) ==
  LET at == PendingRow(s.list, m)
  IN  IF at = 0 THEN s
      ELSE [s EXCEPT !.list = [@ EXCEPT ![at] = [m EXCEPT !.label = s.list[at].label]],
                     !.opt = Without(@, s.list[at].label)]

\* An echo that reaches the tab in a page takes the place of its optimistic row.
ReplacePending(s, m) ==
  LET at == PendingRow(s.list, m)
  IN  IF at = 0 THEN s
      ELSE [s EXCEPT !.list = [@ EXCEPT ![at] = [m EXCEPT !.label = s.list[at].label]],
                     !.opt = Without(@, s.list[at].label),
                     !.seen = @ \union {m.eid}]

ReplaceAll(s0, rows) ==
  LET after[n \in 0..Len(rows)] == IF n = 0 THEN s0 ELSE ReplacePending(after[n-1], rows[n])
  IN  after[Len(rows)]

PageRows(eids) ==
  [k \in 1..Cardinality(Messages(eids)) |-> PageRow(Ascending(Messages(eids))[k])]

\* mutant: items that find no row are dropped.
FoldForgets(rows, items, waiting) ==
  LET hits == {e \in items \union waiting : log[e].of \in Eids(rows)}
  IN  [list |-> Folded(rows, hits), stash |-> {}]

\* Items of the page and of the stash are folded into the merged rows; those
\* that find no row (back) into the stash.
FoldAll(rows, items, waiting) ==
  LET due  == items \union waiting
      hits == {e \in due : log[e].of \in Eids(rows)}
  IN  [list |-> Folded(rows, hits), stash |-> due \ hits]

\* mutant: the page goes in front of the rows, unsorted.
PrependUnsorted(s0, eids) ==
  LET s     == ReplaceAll([list |-> s0.list, opt |-> s0.opt, seen |-> Eids(s0.list)],
                          PageRows(eids))
      fresh == Messages(eids) \ s.seen
      f     == FoldAll(PageRows(fresh) \o s.list, Items(eids), s0.stash)
  IN  [list |-> f.list, opt |-> s.opt, stash |-> f.stash]

Prepend(s0, eids) ==
  LET s     == ReplaceAll([list |-> s0.list, opt |-> s0.opt, seen |-> Eids(s0.list)],
                          PageRows(eids))
      fresh == Messages(eids) \ s.seen
      f     == FoldAll(Sorted(PageRows(fresh) \o s.list), Items(eids), s0.stash)
  IN  [list |-> f.list, opt |-> s.opt, stash |-> f.stash]

\* setMessages with the rows a previous page load left in sessionStorage.
SetMessages(eids) == FoldAll(PageRows(eids), Items(eids), stash)

-----------------------------------------------------------------------------
(* The batcher *)

\* mutant: the page replaces the rows, as setMessages would.
FlushedReplacing(live, back) ==
  LET s0 == [list |-> list, opt |-> optimistic, stash |-> stash]
      s1 == IF live = {} THEN s0 ELSE BatchAppend(s0, live)
      f  == FoldAll(PageRows(back), Items(back), stash)
  IN  IF back = {} THEN s1 ELSE [list |-> f.list, opt |-> s1.opt, stash |-> f.stash]

\* flushAll: the live queue first, then the backfill queue.
Flushed(live, back) ==
  LET s0 == [list |-> list, opt |-> optimistic, stash |-> stash]
      s1 == IF live = {} THEN s0 ELSE BatchAppend(s0, live)
  IN  IF back = {} THEN s1 ELSE Prepend(s1, back)

FlushAll(live, back) ==
  LET s == Flushed(live, back)
  IN  /\ list' = s.list /\ optimistic' = s.opt /\ stash' = s.stash
      /\ queue' = {} /\ backfill' = {} /\ timer' = FALSE

\* mutant: the live queue is cleared, not flushed, when a page is waiting.
TimerDropsLive ==
  /\ timer
  /\ FlushAll(IF backfill = {} THEN queue ELSE {}, backfill)
  /\ UNCHANGED <<serverVars, handled, sends, nick, fetchVars>>

TimerFires ==
  /\ timer
  /\ FlushAll(queue, backfill)
  /\ UNCHANGED <<serverVars, handled, sends, nick, fetchVars>>

-----------------------------------------------------------------------------
(* The user and the server *)

Room == Len(log) < MaxLog

\* sendPlainLine: the command goes out and an optimistic row goes up.
SendPlainLine ==
  /\ sends < setting.sends
  /\ sends' = sends + 1
  /\ wire' = Append(wire, [label |-> sends + 1, body |-> Body(sends + 1)])
  /\ list' = Append(list, OptimisticRow(sends + 1))
  /\ optimistic' = Append(optimistic,
       [label |-> sends + 1, nick |-> nick, body |-> Body(sends + 1)])
  /\ UNCHANGED <<setting, log, handled, nick, stash, batchVars, fetchVars>>

\* The nick the server knows is the one of the last NICK in the log.
ServerNick ==
  LET changes == {e \in DOMAIN log : log[e].kind = "nick"}
  IN  IF changes = {} THEN "me" ELSE log[CHOOSE e \in changes : \A f \in changes : f <= e].nick

\* The server takes the oldest send.
ServerEchoes ==
  /\ Room /\ wire # <<>>
  /\ log' = Append(log, Message(ServerNick, Head(wire).body, Head(wire).label))
  /\ wire' = Tail(wire)
  /\ UNCHANGED <<setting, handled, sends, nick, rowVars, batchVars, fetchVars>>

\* Somebody else writes, or the user does on another device (body MaxSends + 1).
SomebodyWrites ==
  /\ Room
  /\ \/ log' = Append(log, Message(Other, 0, 0))
     \/ log' = Append(log, Message(ServerNick, Body(MaxSends + 1), 0))
        /\ \A e \in DOMAIN log : log[e].body # MaxSends + 1
  /\ UNCHANGED <<setting, handled, wire, sends, nick, rowVars, batchVars, fetchVars>>

\* A message is redacted, edited, reacted to or unreacted.
SomebodyMarks ==
  /\ Room
  /\ \E e \in Messages(DOMAIN log), kind \in setting.items, add \in BOOLEAN :
       /\ kind = "react" \/ add
       /\ kind = "redact" => \A i \in DOMAIN log : log[i].kind = kind => log[i].of # e
       /\ log' = Append(log, Item(kind, e, add))
  /\ UNCHANGED <<setting, handled, wire, sends, nick, rowVars, batchVars, fetchVars>>

ServerRenames ==
  /\ Room /\ setting.renames /\ ServerNick = "me"
  /\ log' = Append(log, NickChange("me_"))
  /\ UNCHANGED <<setting, handled, wire, sends, nick, rowVars, batchVars, fetchVars>>

-----------------------------------------------------------------------------
(* processIrcEvent *)

\* A chat message goes through the batcher, which flushes at once when it has
\* been idle and otherwise leaves it to a timer.
EnqueueMessage(e) ==
  \/ FlushAll(queue \union {e}, backfill)
  \/ /\ queue' = queue \union {e} /\ timer' = TRUE
     /\ UNCHANGED <<backfill, rowVars>>

\* Items are applied on the spot, ahead of the messages still in the batcher.
ProcessIrcEvent ==
  LET e == handled + 1
  IN  /\ handled < Len(log)
      /\ handled' = e
      /\ \/ log[e].kind = "msg" /\ EnqueueMessage(e) /\ UNCHANGED nick
         \/ log[e].kind \in Kinds /\ ApplyLive(e) /\ UNCHANGED <<nick, optimistic, batchVars>>
         \/ log[e].kind = "nick" /\ nick' = log[e].nick /\ UNCHANGED <<rowVars, batchVars>>
      /\ UNCHANGED <<serverVars, sends, fetchVars>>

-----------------------------------------------------------------------------
(* History *)

\* loadBufferHistory: nothing to do when rows are there; otherwise the cached
\* rows go up at once and the newest page is asked for.  `c` is how much of the
\* log the cache holds.
LoadBufferHistory ==
  /\ history.state = "none"
  /\ IF list # <<>>
     THEN history' = [NoRequest EXCEPT !.state = "done"] /\ UNCHANGED <<list, stash>>
     ELSE \E c \in {0} \union (Base - CacheGap)..Base :
            LET s == SetMessages(1..c)
            IN  /\ history' = [NoRequest EXCEPT !.state = "asked"]
                /\ IF c = 0 THEN UNCHANGED <<list, stash>>
                            ELSE list' = s.list /\ stash' = s.stash
  /\ UNCHANGED <<serverVars, handled, sends, nick, optimistic, batchVars, older, pages, gap>>

\* The newest PageSize events below `cursor`.
Page(cursor) ==
  {e \in DOMAIN log : e < cursor /\ e + PageSize >= cursor}

\* The stored events that are newer than a row of the cache and older than the
\* newest page.  Nothing looks for them: loadBufferHistory merges that page with
\* the rows there are, and handleLoadMore asks below the oldest row.
Unreached ==
  {f \in (1..Base) \ (Eids(list) \union Page(Len(log) + 1)) : \E e \in Eids(list) : e < f}

HistoryServed ==
  /\ history.state = "asked"
  /\ history' = [state |-> "served", rows |-> Page(Len(log) + 1)]
  /\ gap' = Unreached
  /\ UNCHANGED <<serverVars, handled, sends, nick, rowVars, batchVars, older, pages>>

\* The page goes through the backfill queue, whose timer also flushes the live
\* one.
HistoryArrives ==
  /\ history.state = "served"
  /\ history' = [NoRequest EXCEPT !.state = "done"]
  /\ backfill' = backfill \union history.rows
  /\ timer' = (timer \/ history.rows # {})
  /\ UNCHANGED <<serverVars, handled, sends, nick, rowVars, queue, older, pages, gap>>

HistoryFails ==
  /\ history.state \in {"asked", "served"}
  /\ history' = [NoRequest EXCEPT !.state = "failed"]
  /\ UNCHANGED <<serverVars, handled, sends, nick, rowVars, batchVars, older, pages, gap>>

\* handleLoadMore: below the oldest row by time; none when all are optimistic.
HandleLoadMore ==
  /\ pages < MaxPages /\ older.state = "none"
  /\ Eids(list) # {}
  /\ LET first == CHOOSE k \in DOMAIN list : \A j \in DOMAIN list : list[k].t <= list[j].t
         cursor == (list[first].t + 1) \div 2
     IN  older' = [state |-> "asked", rows |-> Page(cursor)]
  /\ pages' = pages + 1
  /\ UNCHANGED <<serverVars, handled, sends, nick, rowVars, batchVars, history, gap>>

LoadMoreArrives ==
  /\ older.state = "asked"
  /\ older' = NoRequest
  /\ IF older.rows = {}
     THEN UNCHANGED rowVars
     ELSE LET s == Prepend([list |-> list, opt |-> optimistic, stash |-> stash], older.rows)
          IN  list' = s.list /\ optimistic' = s.opt /\ stash' = s.stash
  /\ UNCHANGED <<serverVars, handled, sends, nick, batchVars, history, pages, gap>>

-----------------------------------------------------------------------------

Init ==
  /\ setting \in Settings
  /\ log = [e \in 1..Base |-> Message(Other, 0, 0)]
  /\ handled = Base /\ wire = <<>> /\ sends = 0 /\ nick = "me"
  /\ list = <<>> /\ optimistic = <<>> /\ stash = {}
  /\ queue = {} /\ backfill = {} /\ timer = FALSE
  /\ history = NoRequest /\ older = NoRequest /\ pages = 0 /\ gap = {}

Next ==
  \/ SendPlainLine \/ ServerEchoes \/ SomebodyWrites \/ SomebodyMarks \/ ServerRenames
  \/ ProcessIrcEvent \/ TimerFires
  \/ LoadBufferHistory \/ HistoryServed \/ HistoryArrives \/ HistoryFails
  \/ HandleLoadMore \/ LoadMoreArrives

Spec == Init /\ [][Next]_vars

-----------------------------------------------------------------------------
(* Properties *)

\* No message is shown twice, however live echoes, pages of history and
\* optimistic rows for it cross (a repeated key makes the list's {#each} throw).
\* Not so once the user's nick has changed: a page does not recognise the echo
\* then, and the live echo takes the optimistic row as well.
NoDuplicateRow ==
  ServerNick = "me" => \A j, k \in DOMAIN list : list[j].eid = list[k].eid => j = k \/ list[j].eid = 0

\* Between the oldest loaded message and the newest one processed, the window
\* has every message, but for those the batcher still holds and for a page that
\* is still to come or failed: what handleLoadMore takes for the boundary is one.
\* Not so when the rows restored from sessionStorage end below the newest page:
\* the events between the two (`gap`) are never asked for (App.svelte:875-923).
NoHoles ==
  (history.state \in {"none", "done"} /\ backfill = {}) =>
    \A e \in Messages(Eids(list)), f \in Messages(1..handled) \ queue :
      e < f => f \in Eids(list) \union gap

\* Other people's messages stand in the order of the log, although pages,
\* bursts and out-of-order batches insert them from three places.
OthersInOrder ==
  \A j, k \in DOMAIN list :
    j < k /\ list[j].nick = Other /\ list[k].nick = Other => list[j].eid < list[k].eid

\* Every line the user has written is on the screen at all times, as its
\* optimistic row or as its echo.
SentStaysVisible ==
  \A l \in 1..sends : \E k \in DOMAIN list :
    \/ list[k].label = l
    \/ list[k].eid # 0 /\ log[list[k].eid].label = l

\* When the echo of a send has been processed and flushed, neither a pending row
\* nor an entry of the optimistic map is left of it.
EchoSettles ==
  \A e \in Messages(1..handled) \ queue :
    log[e].label # 0 =>
      /\ \A k \in DOMAIN list : list[k].label = log[e].label => list[k].eid # 0
      /\ \A o \in DOMAIN optimistic : optimistic[o].label # log[e].label

\* A redaction of somebody else's message, once processed, is never forgotten: its
\* row is a tombstone, or the redaction is still in the stash.
DeletionKept ==
  \A i \in Items(1..handled) :
    log[i].kind = "redact" /\ log[log[i].of].nick = Other =>
      \/ i \in stash
      \/ \E k \in DOMAIN list : list[k].eid = log[i].of /\ list[k].redacted

\* What tombstoneOf's and applyRedaction's comments promise: once the batcher is
\* empty, a message whose redaction has been processed is not readable.
DeletedIsHidden ==
  queue = {} /\ backfill = {} =>
    \A i \in Items(1..handled), k \in DOMAIN list :
      log[i].kind = "redact" /\ log[i].of = list[k].eid => list[k].redacted

=============================================================================
