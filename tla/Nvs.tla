-------------------------------- MODULE Nvs --------------------------------
(***************************************************************************)
(* The non-volatile storage library (components/nvs_flash): items are      *)
(* appended to a log of flash pages, a new value is written before the old *)
(* one is erased, a page is freed by copying its items to a new one, and   *)
(* every mount repairs what a power loss interrupted.                      *)
(*                                                                         *)
(* Every flash write and every sector erase is one step, and the power may *)
(* fail before, in the middle of and after it.  The steps of an operation  *)
(* are the sequence todo of flash writes it still has to make.             *)
(***************************************************************************)
EXTENDS Naturals, Sequences, FiniteSets, FiniteSetsExt

CONSTANTS Pages,          \* the sectors of the partition
          ENTRY_COUNT,    \* entries of a page (126)
          WORD_ENTRIES,   \* entries whose states share a table word (16)
          Keys,           \* (namespace, type, key) triples
          Vals,           \* values
          Whole,          \* [Keys -> Nat]: whole data entries of an item
          Rest,           \* [Keys -> {0, 1}]: entries of its remaining bytes
          Hash,           \* [Keys -> hashes]: the 24 bit hash of an item
          Absent, NoPage, NoCall, Off,
          Blank, Half, Erased

Entries == 1 .. ENTRY_COUNT
Span(k) == 1 + Whole[k] + Rest[k]

(* A page has room for every item (BLOB_MAX_SIZE), and a partition has a  *)
(* page to copy into besides the ones it uses.                             *)
ASSUME NvsAssumption ==
    /\ ENTRY_COUNT \in Nat \ {0} /\ WORD_ENTRIES \in Nat \ {0}
    /\ IsFiniteSet(Pages) /\ Cardinality(Pages) >= 2
    /\ Whole \in [Keys -> Nat] /\ Rest \in [Keys -> {0, 1}]
    /\ \A k \in Keys : Span(k) <= ENTRY_COUNT
    /\ Absent \notin Vals /\ NoPage \notin Pages

VARIABLES pages,     \* flash: state and entries of every page
          order,     \* flash: the initialised pages by sequence number
          fresh,     \* the activated page that is not initialised yet
          pc,        \* what the library does once todo is empty
          call,      \* the call being served
          findPage,  \* the page that held the key when the call began
          todo       \* the flash writes the operation still makes

vars == <<pages, order, fresh, pc, call, findPage, todo>>

PageStates == {"UNINITIALIZED", "ACTIVE", "FULL", "FREEING", "CORRUPT"}

(***************************************************************************)
(* The entries of a page.  Blank and Half have table state EMPTY: nothing  *)
(* was written, or something was.  Erased has state ERASED; a written      *)
(* entry is the part of an item it holds, part 0 being the item's header.  *)
(***************************************************************************)
Parts == [key : Keys, val : Vals, part : 0 .. ENTRY_COUNT]
Cells == Parts \cup {Blank, Half, Erased}
AllBlank == [i \in Entries |-> Blank]

Written(pg) == {i \in Entries : pg.cells[i] \in Parts}
Heads(pg) == {i \in Written(pg) : pg.cells[i].part = 0}
HeadsOf(pg, k) == {i \in Heads(pg) : pg.cells[i].key = k}
SpanAt(pg, i) == i .. (i + Span(pg.cells[i].key) - 1)
Complete(pg, i) == SpanAt(pg, i) \subseteq Written(pg)

(* mNextFreeEntry: the first entry whose state is EMPTY. *)
NextFree(pg) ==
    Min({i \in Entries : pg.cells[i] \in {Blank, Half}} \cup {ENTRY_COUNT + 1})

(***************************************************************************)
(* Flash writes: entries, the state word, a header, or a sector erase.     *)
(***************************************************************************)
Put(p, cells) == [page |-> p, state |-> "SAME", cells |-> cells]
alterPageState(p, s) == [page |-> p, state |-> s, cells |-> <<>>]
initialize(p) == alterPageState(p, "ACTIVE")
erase(p) == [page |-> p, state |-> "UNINITIALIZED", cells |-> AllBlank]

Applied(w) ==
    [state |-> IF w.state = "SAME" THEN pages[w.page].state ELSE w.state,
     cells |-> [i \in Entries |-> IF i \in DOMAIN w.cells THEN w.cells[i]
                                  ELSE pages[w.page].cells[i]]]

(* The states of entries a .. b are written one table word at a time, the *)
(* last word first.                                                        *)
WordOf(i) == (i - 1) \div WORD_ENTRIES
alterEntryRangeState(p, a, b, new) ==
    [n \in 1 .. WordOf(b) - WordOf(a) + 1 |->
        Put(p, [i \in {j \in a .. b : WordOf(j) = WordOf(b) + 1 - n} |-> new[i]])]

eraseEntryAndSpan(p, i) ==
    LET b == i + Span(pages[p].cells[i].key) - 1
    IN  alterEntryRangeState(p, i, b, [j \in i .. b |-> Erased])

(* The content of an entry is written before its state. *)
writeEntry(p, i, c) == <<Put(p, [j \in {i} |-> Half]), Put(p, [j \in {i} |-> c])>>

writeEntryData(p, a, b, new) ==
    <<Put(p, [j \in a .. b |-> Half])>> \o alterEntryRangeState(p, a, b, new)

Page_writeItem(p, k, v) ==
    LET n == NextFree(pages[p])
        part == [j \in n .. n + Span(k) - 1 |-> [key |-> k, val |-> v, part |-> j - n]]
    IN  (IF pages[p].state = "UNINITIALIZED" THEN <<initialize(p)>> ELSE <<>>)
        \o writeEntry(p, n, part[n])
        \o (IF Whole[k] = 0 THEN <<>> ELSE writeEntryData(p, n + 1, n + Whole[k], part))
        \o (IF Rest[k] = 0 THEN <<>>
            ELSE writeEntry(p, n + Whole[k] + 1, part[n + Whole[k] + 1]))

(* The written entries of v are written to n one after the other. *)
copyItems(v, n) ==
    LET used == Written(pages[v])
        nth(j) == CHOOSE i \in used : Cardinality({x \in used : x <= i}) = j
        copy(j) == writeEntry(n, j, pages[v].cells[nth(j)])
    IN  IF used = {} THEN <<>>
        ELSE <<initialize(n)>> \o [m \in 1 .. 2 * Cardinality(used) |->
                                      copy((m + 1) \div 2)[2 - (m % 2)]]

(***************************************************************************)
(* The page manager's lists.  activatePage takes the front of the free     *)
(* list; here it takes any free page.                                      *)
(***************************************************************************)
InOrder == {order[j] : j \in DOMAIN order}
PageList == IF fresh = NoPage THEN order ELSE Append(order, fresh)
Free == Pages \ (InOrder \cup {fresh})
Current == PageList[Len(PageList)]
EraseCorrupt(p) == IF pages[p].state = "CORRUPT" THEN <<erase(p)>> ELSE <<>>

(* Storage::findItem: the first page of the list that holds the key. *)
findItem(k) ==
    LET s == {j \in DOMAIN order : HeadsOf(pages[order[j]], k) # {}}
    IN  IF s = {} THEN NoPage ELSE order[Min(s)]

(* Page::eraseItem: the first item of the page with this key. *)
Page_eraseItem(p, k) == eraseEntryAndSpan(p, Min(HeadsOf(pages[p], k)))

(* Fault: only erased entries are counted as unused. *)
UnusedErased(p) == Cardinality({i \in Entries : pages[p].cells[i] = Erased})

Fits(k) == /\ pages[Current].state # "FULL"
           /\ NextFree(pages[Current]) + Span(k) - 1 <= ENTRY_COUNT

Unused(p) == ENTRY_COUNT - Cardinality(Written(pages[p]))

(* The first page of the list with the most unused entries. *)
Victim == LET most == Max({Unused(p) : p \in InOrder})
          IN  order[Min({j \in DOMAIN order : Unused(order[j]) = most})]

Reply == /\ pc' = "idle"
         /\ call' = NoCall
         /\ findPage' = NoPage
         /\ todo' = <<>>

----------------------------------------------------------------------------
Init == /\ pages = [p \in Pages |-> [state |-> "UNINITIALIZED", cells |-> AllBlank]]
        /\ order = <<>>
        /\ fresh = NoPage
        /\ pc = "load"
        /\ call = Off
        /\ findPage = NoPage
        /\ todo = <<>>

(* The next flash write of the operation is made. *)
FlashWrite ==
    /\ todo # <<>>
    /\ LET w == Head(todo)
       IN  /\ pages' = [pages EXCEPT ![w.page] = Applied(w)]
           /\ order' = CASE w.state = "ACTIVE" -> Append(order, w.page)
                         [] w.state = "UNINITIALIZED" ->
                                SelectSeq(order, LAMBDA p : p # w.page)
                         [] OTHER -> order
           /\ fresh' = IF w.state = "ACTIVE" THEN NoPage ELSE fresh
    /\ todo' = Tail(todo)
    /\ UNCHANGED <<pc, call, findPage>>

(***************************************************************************)
(* Storage::writeItem.                                                     *)
(***************************************************************************)
WriteItem(k, v) ==
    /\ pc = "idle"
    /\ call' = [key |-> k, val |-> v]
    /\ findPage' = findItem(k)
    /\ pc' = "write"
    /\ UNCHANGED <<pages, order, fresh, todo>>

(* page.writeItem succeeds, on the first or on the second attempt. *)
WriteToPage ==
    /\ pc \in {"write", "rewrite"} /\ todo = <<>>
    /\ Fits(call.key)
    /\ todo' = Page_writeItem(Current, call.key, call.val)
    /\ pc' = "written"
    /\ UNCHANGED <<pages, order, fresh, call, findPage>>

(* ESP_ERR_NVS_PAGE_FULL: the page is marked full if it was not yet. *)
MarkFull ==
    /\ pc = "write"
    /\ ~Fits(call.key)
    /\ todo' = IF pages[Current].state = "FULL" THEN <<>>
               ELSE <<alterPageState(Current, "FULL")>>
    /\ pc' = "request"
    /\ UNCHANGED <<pages, order, fresh, call, findPage>>

(* Fault: the last free page is used up. *)
RequestLastPage ==
    /\ pc = "request" /\ todo = <<>>
    /\ \E p \in Free : /\ fresh' = p
                       /\ todo' = EraseCorrupt(p)
    /\ pc' = "rewrite"
    /\ UNCHANGED <<pages, order, call, findPage>>

(* requestNewPage with two free pages: one of them is activated. *)
RequestFreePage ==
    /\ pc = "request" /\ todo = <<>>
    /\ Cardinality(Free) >= 2
    /\ \E p \in Free : /\ fresh' = p
                       /\ todo' = EraseCorrupt(p)
    /\ pc' = "rewrite"
    /\ UNCHANGED <<pages, order, call, findPage>>

(* requestNewPage with one: the page with most room is moved into it. *)
RequestByFreeing ==
    /\ pc = "request" /\ todo = <<>>
    /\ Cardinality(Free) = 1
    /\ Unused(Victim) > 0
    /\ \E p \in Free :
          /\ fresh' = p
          /\ todo' = EraseCorrupt(p) \o <<alterPageState(Victim, "FREEING")>>
                     \o copyItems(Victim, p) \o <<erase(Victim)>>
    /\ pc' = "rewrite"
    /\ UNCHANGED <<pages, order, call, findPage>>

(* ESP_ERR_NVS_NOT_ENOUGH_SPACE: no page has an unused entry, or the page  *)
(* that was made has too few (ESP_ERR_NVS_INVALID_STATE: no page is free). *)
NotEnoughSpace ==
    /\ todo = <<>>
    /\ \/ pc = "request" /\ Cardinality(Free) <= 1 /\ (Free # {} => Unused(Victim) = 0)
       \/ pc = "rewrite" /\ ~Fits(call.key)
    /\ Reply
    /\ UNCHANGED <<pages, order, fresh>>

(* The old item is erased: looked up again if its page was freed. *)
EraseOld ==
    /\ pc = "written" /\ todo = <<>>
    /\ findPage # NoPage
    /\ LET p == IF pages[findPage].state = "UNINITIALIZED" THEN findItem(call.key)
                ELSE findPage
       IN  todo' = Page_eraseItem(p, call.key)
    /\ pc' = "return"
    /\ UNCHANGED <<pages, order, fresh, call, findPage>>

(* Storage::eraseItem of a key that is stored. *)
EraseItem(k) ==
    /\ pc = "idle"
    /\ findItem(k) # NoPage
    /\ call' = [key |-> k, val |-> Absent]
    /\ todo' = Page_eraseItem(findItem(k), k)
    /\ pc' = "return"
    /\ UNCHANGED <<pages, order, fresh, findPage>>

Return ==
    /\ todo = <<>>
    /\ pc = "return" \/ (pc = "written" /\ findPage = NoPage)
    /\ Reply
    /\ UNCHANGED <<pages, order, fresh>>

(***************************************************************************)
(* Mounting: PageManager::load.  The pages are loaded one by one; here in  *)
(* any order, each repair being decided from the page alone.               *)
(***************************************************************************)

(* ACTIVE page: from the first EMPTY entry on, every entry that does not   *)
(* read as blank was half-written.                                         *)
HalfWritten(pg) ==
    {i \in Entries : i >= NextFree(pg) /\ pg.cells[i] # Erased
        /\ \A j \in NextFree(pg) .. i : pg.cells[j] # Blank}

(* The item that mHashList.find returns for the item at i, if it is an     *)
(* earlier one: the page is searched by hash.                              *)
Duplicates(pg, i) ==
    {d \in Heads(pg) : d < i /\ Hash[pg.cells[d].key] = Hash[pg.cells[i].key]}

(* What mLoadEntryTable writes next to page p: half-written entries are    *)
(* erased, then items that were not completely written or erased and, in   *)
(* an ACTIVE page, the older of two items found to be the same.            *)
Repair(p) ==
    LET pg == pages[p]
        active == pg.state = "ACTIVE"
        wrong == {i \in Heads(pg) : ~Complete(pg, i) \/ (active /\ Duplicates(pg, i) # {})}
    IN  CASE active /\ HalfWritten(pg) # {} ->
                 LET i == Min(HalfWritten(pg)) IN alterEntryRangeState(p, i, i, [j \in {i} |-> Erased])
          [] wrong # {} ->
                 LET i == Min(wrong)
                 IN  eraseEntryAndSpan(p, IF Complete(pg, i) THEN Min(Duplicates(pg, i)) ELSE i)
          [] OTHER -> <<>>

LoadPage ==
    /\ pc = "load" /\ todo = <<>>
    /\ \E p \in InOrder : /\ Repair(p) # <<>>
                          /\ todo' = Repair(p)
    /\ UNCHANGED <<pages, order, fresh, pc, call, findPage>>

Loaded == pc = "load" /\ todo = <<>> /\ \A p \in InOrder : Repair(p) = <<>>

(* An empty partition: a page is activated. *)
LoadEmpty ==
    /\ Loaded
    /\ order = <<>>
    /\ \E p \in Pages : /\ fresh' = p
                        /\ todo' = EraseCorrupt(p)
    /\ pc' = "return"
    /\ UNCHANGED <<pages, order, call, findPage>>

(* The last item of the last page: an earlier page, not one being freed,   *)
(* may still hold the value it replaced.                                   *)
EraseDuplicate ==
    /\ Loaded
    /\ order # <<>>
    /\ LET last == pages[order[Len(order)]]
           key == last.cells[Max(Heads(last))].key
           old == {j \in 1 .. Len(order) - 1 :
                      /\ pages[order[j]].state # "FREEING"
                      /\ HeadsOf(pages[order[j]], key) # {}}
       IN  todo' = IF Heads(last) = {} \/ old = {} THEN <<>>
                   ELSE Page_eraseItem(order[Min(old)], key)
    /\ pc' = "free"
    /\ UNCHANGED <<pages, order, fresh, call, findPage>>

Freeing == {j \in DOMAIN order : pages[order[j]].state = "FREEING"}

(* The pages a copy may go to: the free ones and, once it is erased, the   *)
(* ACTIVE page that holds the interrupted copy.                            *)
Redo == {p \in {order[Len(order)]} : pages[p].state = "ACTIVE"}

(* Fault: an interrupted copy is taken for a finished one. *)
FinishWithoutCopy ==
    /\ pc = "free" /\ todo = <<>>
    /\ Freeing # {}
    /\ todo' = <<erase(order[Min(Freeing)])>>
    /\ pc' = "return"
    /\ UNCHANGED <<pages, order, fresh, call, findPage>>

(* A page was being freed: the page its items were copied to is erased and *)
(* the copy made again.                                                    *)
FinishFreeing ==
    /\ pc = "free" /\ todo = <<>>
    /\ Freeing # {}
    /\ LET v == order[Min(Freeing)]
       IN  \E p \in Free \cup Redo :
              /\ fresh' = p
              /\ todo' = (IF Redo = {} THEN <<>> ELSE <<erase(order[Len(order)])>>)
                         \o EraseCorrupt(p) \o copyItems(v, p) \o <<erase(v)>>
    /\ pc' = "return"
    /\ UNCHANGED <<pages, order, call, findPage>>

(* The mount succeeds if a page is free; it fails without one              *)
(* (ESP_ERR_NVS_NO_FREE_PAGES) and without one to copy to.                 *)
FinishMount ==
    /\ pc = "free" /\ todo = <<>>
    /\ Freeing = {} \/ Free \cup Redo = {}
    /\ pc' = IF Free # {} THEN "return" ELSE "failed"
    /\ UNCHANGED <<pages, order, fresh, call, findPage, todo>>

(***************************************************************************)
(* Power loss.  A table or state word (4 bytes) is written or not; the     *)
(* content of entries is written in order and may stop anywhere; a header  *)
(* stopped half-way fails its CRC, and so does that of a page whose        *)
(* erasure stopped half-way.                                               *)
(***************************************************************************)
Torn(w) ==
    IF w.state \in {"ACTIVE", "UNINITIALIZED"}
    THEN {[state |-> "CORRUPT", cells |-> AllBlank]}
    ELSE {Applied(Put(w.page, [i \in {j \in DOMAIN w.cells : w.cells[j] = Half /\ j <= m} |-> Half])) :
             m \in {0} \cup DOMAIN w.cells}

PowerLoss ==
    /\ pages' \in {pages} \cup (IF todo = <<>> THEN {} ELSE
          {[pages EXCEPT ![Head(todo).page] = pg] : pg \in Torn(Head(todo))})
    /\ order' = SelectSeq(order, LAMBDA p : pages'[p].state \in {"ACTIVE", "FULL", "FREEING"})
    /\ fresh' = NoPage
    /\ pc' = "load"
    /\ call' = Off
    /\ findPage' = NoPage
    /\ todo' = <<>>

Step == \/ FlashWrite \/ WriteToPage \/ MarkFull \/ RequestFreePage
        \/ RequestByFreeing \/ NotEnoughSpace \/ EraseOld \/ Return
        \/ LoadPage \/ LoadEmpty \/ EraseDuplicate \/ FinishFreeing
        \/ FinishMount

Next == \/ Step
        \/ \E k \in Keys, v \in Vals : WriteItem(k, v)
        \/ \E k \in Keys : EraseItem(k)
        \/ PowerLoss

Spec == Init /\ [][Next]_vars

----------------------------------------------------------------------------
TypeOK ==
    /\ pages \in [Pages -> [state : PageStates, cells : [Entries -> Cells]]]
    /\ InOrder = {p \in Pages : pages[p].state \in {"ACTIVE", "FULL", "FREEING"}}
    /\ Cardinality(InOrder) = Len(order)
    /\ fresh \in Pages \cup {NoPage} /\ findPage \in Pages \cup {NoPage}
    /\ pc \in {"load", "free", "failed", "idle", "write", "request", "rewrite",
               "written", "return"}
    /\ call \in [key : Keys, val : Vals \cup {Absent}] \cup {NoCall, Off}

(***************************************************************************)
(* What a reader gets.  View: the newest complete item of a key.  Read:    *)
(* what findItem and readItem return, the first item of the key in the     *)
(* first page that holds one; the two agree only without duplicates.       *)
(***************************************************************************)
Newer(x, y) == y[1] < x[1] \/ (y[1] = x[1] /\ y[2] <= x[2])
View(k) ==
    LET s == {<<j, i>> \in (DOMAIN order) \X Entries :
                 i \in HeadsOf(pages[order[j]], k) /\ Complete(pages[order[j]], i)}
        newest == CHOOSE x \in s : \A y \in s : Newer(x, y)
    IN  IF s = {} THEN Absent ELSE pages[order[newest[1]]].cells[newest[2]].val

Read(k) == LET p == findItem(k)
           IN  IF p = NoPage THEN Absent ELSE pages[p].cells[Min(HeadsOf(pages[p], k))].val

Done == \/ pc = "written" /\ todo = <<>>
        \/ pc = "return" /\ call \notin {NoCall, Off} /\ View(call.key) = call.val

Atomic == INSTANCE AtomicStore
          WITH store <- [k \in Keys |-> IF pc = "idle" THEN Read(k) ELSE View(k)],
               done <- Done

(* Every call of the library is atomic: whatever is interrupted where, a   *)
(* call takes effect at one instant or not at all, and neither a power     *)
(* loss, a mount nor a page being freed changes what is stored             *)
(* (README.rst:64).                                                        *)
CallsAreAtomic == Atomic!Spec

(* What Storage::debugCheck asserts after every mount and write: no key is *)
(* stored twice and every used entry belongs to a whole item; and a page   *)
(* is not FREEING when an API call returns (README.rst:90).                *)
ItemsWhole ==
    pc = "idle" =>
        /\ \A k \in Keys : Cardinality({<<p, i>> \in InOrder \X Entries :
                                            i \in HeadsOf(pages[p], k)}) <= 1
        /\ \A p \in InOrder : Written(pages[p]) = UNION {SpanAt(pages[p], i) : i \in Heads(pages[p])}
        /\ \A p \in Pages : pages[p].state # "FREEING"

(* At most one page is ACTIVE at any moment (README.rst:83), and it is the *)
(* one the library writes to.                                              *)
OneActivePage ==
    \A j \in DOMAIN order : pages[order[j]].state = "ACTIVE" => j = Len(order)

(* A mount always succeeds and repairs the store: a page to copy to is     *)
(* left whatever was interrupted (README.rst:64; ESP_ERR_NVS_NO_FREE_PAGES *)
(* never happens), and what Storage::debugCheck asserts then holds.        *)
MountSucceeds == TypeOK /\ pc # "failed" /\ OneActivePage /\ ItemsWhole

(* An item of one entry is refused for lack of space only when every entry *)
(* outside the free page holds live data: erased entries are never in the  *)
(* way.                                                                    *)
RefusedOnlyWhenFull ==
    [][NotEnoughSpace /\ Span(call.key) = 1 =>
          (Cardinality(Pages) - 1) * ENTRY_COUNT =
              MapThenSumSet(Span, {k \in Keys : View(k) # Absent})]_vars
============================================================================
