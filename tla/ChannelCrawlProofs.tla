--------------------------- MODULE ChannelCrawlProofs ---------------------------
(***************************************************************************)
(* Proofs about ChannelCrawl, for any list of a site, any size of its       *)
(* pages, and answers in any order.                                        *)
(***************************************************************************)
EXTENDS ChannelCrawl, SequenceTheorems, TLAPS

-------------------------------------------------------------------------------
(* The inductive invariant.                                                *)

(* What a crawl that has met n pages of the list may have asked for.        *)
Askable(n) == {ListPage(k) : k \in 1..n} \cup {Detail(e) : e \in Entries}

(* The j-th place of the list holds an entry that the crawl is to visit.    *)
ToVisit(j) ==
  list[j] \notin Fresh /\ InWindow(list[j]) /\ ~BelowOld(list[j])

(* Such entries have been asked for: all, or those of the first m places.   *)
AskedFor(j) == Detail(list[j]) \in requested
AskedAll == \A j \in DOMAIN list : ToVisit(j) => AskedFor(j)
AskedTo(m) == \A j \in DOMAIN list : j <= m /\ ToVisit(j) => AskedFor(j)

NoListLost == \A r \in lost : r.kind = "detail"

(* The n-th page is the last one that was met.  While it is under way, the  *)
(* pages before it are dealt with; after it, if none was lost, all are.    *)
Frontier(n) ==
  /\ seenPages = 1..n
  /\ requested \subseteq Askable(n)
  /\ \A r \in DOMAIN queue : r.kind = "list" => r = ListPage(n)
  /\ ~withdrawn =>
       IF ListPage(n) \in DOMAIN queue
         THEN AskedTo((n - 1) * PageSize)
         ELSE NoListLost /\ crawl # "died" => AskedAll

(* What was asked for is under way, done or lost, and when the process has  *)
(* ended nothing is under way.                                             *)
AskedIsDone ==
  /\ \A e \in Entries : Detail(e) \in requested =>
       \/ Detail(e) \in DOMAIN queue \/ Detail(e) \in lost
       \/ item[e] # "none" \/ crawl = "died"
  /\ queue \in [DOMAIN queue -> 0..RETRY_TIMES]
  /\ crawl # "running" => DOMAIN queue = {}

(* All of it.                                                              *)
IInv ==
  /\ TypeOK
  /\ \E n \in seenPages : n \in Nat /\ Frontier(n)
  /\ AskedIsDone
-------------------------------------------------------------------------------
(* Requests, the queue and the list.                                       *)

(* A request tells a page of the list from the page of an entry.           *)
LEMMA Kinds ==
  /\ \A k : ListPage(k).kind = "list" /\ ListPage(k).page = k
  /\ \A e : Detail(e).kind = "detail" /\ Detail(e).entry = e
  /\ \A k, m : ListPage(k) = ListPage(m) => k = m
  /\ \A e, f : Detail(e) = Detail(f) => e = f
  /\ \A k, e : ListPage(k) # Detail(e)
<1>1. /\ \A k : ListPage(k).kind = "list" /\ ListPage(k).page = k
      /\ \A e : Detail(e).kind = "detail" /\ Detail(e).entry = e
  BY DEF ListPage, Detail
<1>2. "list" # "detail"
  OBVIOUS
<1> QED BY ONLY <1>1, <1>2

(* The newest page met, and the shapes of queue and list.                   *)
LEMMA Newest ==
  ASSUME IInv
  PROVE  \E n \in Nat :
           /\ n >= 1 /\ n \in seenPages /\ Frontier(n)
           /\ \A r \in requested : r.kind = "list" \/ \E e \in Entries : r = Detail(e)
           /\ \A r \in DOMAIN queue :
                r = ListPage(n) \/ \E e \in Entries : r = Detail(e)
<1>1. PICK n \in seenPages : n \in Nat /\ Frontier(n)
  BY DEF IInv
<1>2. n >= 1
  BY <1>1 DEF Frontier
<1>3. /\ requested \subseteq Askable(n)
      /\ \A r \in DOMAIN queue : r.kind = "list" => r = ListPage(n)
      /\ DOMAIN queue \subseteq requested
  BY <1>1 DEF Frontier, IInv, TypeOK
<1>4. \A r \in Askable(n) : r.kind = "list" \/ \E e \in Entries : r = Detail(e)
  BY Kinds DEF Askable
<1> QED BY <1>1, <1>2, <1>3, <1>4

(* The list and its places.                                                 *)
LEMMA Places ==
  ASSUME IInv
  PROVE  /\ list \in Seq(Entries) /\ Len(list) \in Nat
         /\ DOMAIN list = 1..Len(list)
         /\ \A j \in DOMAIN list : list[j] \in Entries
BY LenProperties, ElementOfSeq DEF IInv, TypeOK

(* One request leaves the queue.                                            *)
LEMMA Leaves ==
  ASSUME IInv, NEW r
  PROVE  /\ DOMAIN Without(r) = DOMAIN queue \ {r}
         /\ Without(r) \in [DOMAIN queue \ {r} -> 0..RETRY_TIMES]
<1>1. queue \in [DOMAIN queue -> 0..RETRY_TIMES]
  BY DEF IInv, AskedIsDone
<1> QED BY <1>1 DEF Without, Restrict

(* An empty queue.                                                          *)
LEMMA Emptied == DOMAIN <<>> = {} /\ <<>> \in [{} -> 0..RETRY_TIMES]
<1>1. <<>> \in Seq(0..RETRY_TIMES) /\ Len(<<>>) = 0
  OBVIOUS
<1>2. DOMAIN <<>> = 1..0 /\ <<>> \in [1..0 -> 0..RETRY_TIMES]
  BY <1>1, LenProperties
<1> QED BY <1>2

-------------------------------------------------------------------------------
(* Steps that ask for nothing.                                             *)

(* The shapes, after a step that asks for nothing.                          *)
LEMMA ShapesKept ==
  ASSUME IInv, UNCHANGED <<requested, seenPages>>,
         list' \in Seq(Entries), DOMAIN queue' \subseteq DOMAIN queue,
         queue' \in [DOMAIN queue' -> 0..RETRY_TIMES],
         lost' \subseteq requested, item' \in [Entries -> Statuses],
         crawl' \in {"running", "closed", "died"},
         task' \in {"running", "succeeded", "partial_failed", "failed"}
  PROVE  TypeOK'
BY DEF IInv, TypeOK

(* The page of an entry left the queue, with its item or lost, or nothing   *)
(* left it.                                                                *)
LEMMA AsksNothing ==
  ASSUME IInv, UNCHANGED <<site, requested, seenPages>>,
         TypeOK', AskedIsDone', lost \subseteq lost',
         DOMAIN queue' \subseteq DOMAIN queue,
         \A k : ListPage(k) \in DOMAIN queue =>
           \/ ListPage(k) \in DOMAIN queue'
           \/ ListPage(k) \in lost'
           \/ crawl' = "died",
         crawl = "died" => crawl' = "died"
  PROVE  IInv'
<1>1. PICK n \in Nat : n \in seenPages /\ Frontier(n)
  BY Newest
<1>2. /\ \A m : AskedTo(m)' <=> AskedTo(m)
      /\ AskedAll' <=> AskedAll
  BY DEF site, AskedTo, AskedAll, ToVisit, AskedFor, BelowOld
<1>3. NoListLost' => NoListLost /\ \A k : ListPage(k) \notin lost'
  BY Kinds DEF NoListLost
<1>4. ~withdrawn =>
        IF ListPage(n) \in DOMAIN queue'
          THEN AskedTo((n - 1) * PageSize)'
          ELSE NoListLost' /\ crawl' # "died" => AskedAll'
  BY <1>1, <1>2, <1>3 DEF Frontier
<1>5. /\ seenPages' = 1..n /\ requested' \subseteq Askable(n)
      /\ \A r \in DOMAIN queue' : r.kind = "list" => r = ListPage(n)
      /\ withdrawn' = withdrawn
  BY <1>1 DEF Frontier, site
<1>6. Frontier(n)'
  BY <1>4, <1>5 DEF Frontier
<1> QED BY <1>1, <1>6 DEF IInv

(* A download is tried again.                                               *)
LEMMA RetryKeeps ==
  ASSUME IInv, NEW r, Retry(r)
  PROVE  IInv'
<1>1. queue \in [DOMAIN queue -> 0..RETRY_TIMES] /\ queue[r] < RETRY_TIMES
  BY DEF IInv, AskedIsDone, Retry, MayRetry
<1>2. /\ queue' = [queue EXCEPT ![r] = queue[r] + 1] /\ r \in DOMAIN queue
      /\ UNCHANGED <<list, lastLink, withdrawn, requested, seenPages, lost, item,
                     crawl, task>>
  BY DEF Retry, site
<1>3. queue' \in [DOMAIN queue -> 0..RETRY_TIMES]
  BY <1>1, <1>2, NumbersAssumption
<1>4. DOMAIN queue' = DOMAIN queue
  BY <1>3
<1>5. AskedIsDone'
  BY <1>2, <1>3, <1>4 DEF IInv, AskedIsDone
<1>6. TypeOK'
  BY <1>2, <1>3, <1>4, ShapesKept DEF IInv, TypeOK
<1> QED BY <1>2, <1>4, <1>5, <1>6, AsksNothing DEF site

(* A download is given up.                                                  *)
LEMMA GiveUpKeeps ==
  ASSUME IInv, NEW r, GiveUp(r)
  PROVE  IInv'
<1>1. /\ queue' = Without(r) /\ r \in DOMAIN queue /\ lost' = lost \cup {r}
      /\ UNCHANGED <<list, lastLink, withdrawn, requested, seenPages, item,
                     crawl, task>>
  BY DEF GiveUp, site
<1>2. /\ DOMAIN queue' = DOMAIN queue \ {r}
      /\ queue' \in [DOMAIN queue' -> 0..RETRY_TIMES]
  BY <1>1, Leaves
<1>3. AskedIsDone'
  BY <1>1, <1>2 DEF IInv, AskedIsDone
<1>4. TypeOK'
  BY <1>1, <1>2, ShapesKept DEF IInv, TypeOK
<1> QED BY <1>1, <1>2, <1>3, <1>4, AsksNothing DEF site

(* The page of an entry is parsed.                                          *)
LEMMA ParseDetailKeeps ==
  ASSUME IInv, NEW e \in Entries, ParseDetail(e)
  PROVE  IInv'
<1>1. PICK status \in {"succeeded", "failed"} : item' = [item EXCEPT ![e] = status]
  BY DEF ParseDetail
<1>2. /\ queue' = Without(Detail(e)) /\ Detail(e) \in DOMAIN queue
      /\ UNCHANGED <<list, lastLink, withdrawn, requested, seenPages, lost,
                     crawl, task>>
  BY DEF ParseDetail, site
<1>3. /\ DOMAIN queue' = DOMAIN queue \ {Detail(e)}
      /\ queue' \in [DOMAIN queue' -> 0..RETRY_TIMES]
  BY <1>2, Leaves
<1>4. /\ item \in [Entries -> Statuses] /\ item' \in [Entries -> Statuses]
      /\ item'[e] # "none"
      /\ \A f \in Entries : f # e => item'[f] = item[f]
  BY <1>1 DEF IInv, TypeOK, Statuses
<1>5. ASSUME NEW f \in Entries, Detail(f) \in requested
      PROVE  \/ Detail(f) \in DOMAIN queue' \/ Detail(f) \in lost
             \/ item'[f] # "none" \/ crawl = "died"
  BY <1>3, <1>4, <1>5, Kinds DEF IInv, AskedIsDone
<1>6. crawl # "running" => DOMAIN queue' = {}
  BY <1>3 DEF IInv, AskedIsDone
<1>7. AskedIsDone'
  BY <1>2, <1>3, <1>5, <1>6 DEF AskedIsDone
<1>8. TypeOK'
  BY <1>2, <1>3, <1>4, ShapesKept DEF IInv, TypeOK
<1>9. \A k : ListPage(k) \in DOMAIN queue => ListPage(k) \in DOMAIN queue'
  BY <1>3, Kinds
<1> QED BY <1>2, <1>3, <1>7, <1>8, <1>9, AsksNothing DEF site

(* The spider is closed.                                                    *)
LEMMA CloseKeeps ==
  ASSUME IInv, Close
  PROVE  IInv'
<1>1. /\ queue = <<>> /\ crawl = "running" /\ crawl' = "closed"
      /\ UNCHANGED <<list, lastLink, withdrawn, queue, requested, seenPages, lost,
                     item, task>>
  BY DEF Close, Idle, site
<1>2. DOMAIN queue = {}
  BY <1>1, Emptied
<1>3. AskedIsDone'
  BY <1>1, <1>2 DEF IInv, AskedIsDone
<1>4. TypeOK'
  BY <1>1, ShapesKept DEF IInv, TypeOK, AskedIsDone
<1> QED BY <1>1, <1>2, <1>3, <1>4, AsksNothing DEF site

(* The process dies.                                                        *)
LEMMA DieKeeps ==
  ASSUME IInv, Die
  PROVE  IInv'
<1>1. /\ queue' = <<>> /\ crawl' = "died"
      /\ UNCHANGED <<list, lastLink, withdrawn, requested, seenPages, lost,
                     item, task>>
  BY DEF Die, site
<1>2. DOMAIN queue' = {} /\ queue' \in [DOMAIN queue' -> 0..RETRY_TIMES]
  BY <1>1, Emptied
<1>3. AskedIsDone'
  BY <1>1, <1>2 DEF IInv, AskedIsDone
<1>4. TypeOK'
  BY <1>1, <1>2, ShapesKept DEF IInv, TypeOK
<1> QED BY <1>1, <1>2, <1>3, <1>4, AsksNothing DEF site

(* A task ends with one of three statuses.                                  *)
LEMMA Outcomes == Outcome \in {"succeeded", "partial_failed", "failed"}
<1> DEFINE some == With("succeeded") # {}
           none == With("failed") = {}
           closed == crawl = "closed"
<1>0. Outcome = CASE some /\ ~none -> "partial_failed"
                  [] some /\ none /\ closed -> "succeeded"
                  [] OTHER -> "failed"
  BY DEF Outcome
<1> HIDE DEF some, none, closed
<1>1. CASE some /\ ~none
  BY <1>0, <1>1
<1>2. CASE some /\ none /\ closed
  BY <1>0, <1>2
<1>3. CASE ~(some /\ ~none) /\ ~(some /\ none /\ closed)
  BY <1>0, <1>3
<1> QED BY <1>1, <1>2, <1>3

(* The task is finished.                                                    *)
LEMMA FinishKeeps ==
  ASSUME IInv, Finish
  PROVE  IInv'
<1>1. /\ task' = Outcome
      /\ UNCHANGED <<list, lastLink, withdrawn, queue, requested, seenPages, lost,
                     item, crawl>>
  BY DEF Finish, site
<1>2. AskedIsDone'
  BY <1>1 DEF IInv, AskedIsDone
<1>3. TypeOK'
  BY <1>1, Outcomes, ShapesKept DEF IInv, TypeOK, AskedIsDone
<1> QED BY <1>1, <1>2, <1>3, AsksNothing DEF site

-------------------------------------------------------------------------------
(* The site changes.                                                       *)

(* The site publishes an entry: the others move down by one place.          *)
LEMMA PublishKeeps ==
  ASSUME IInv, NEW e \in Entries, Publish(e)
  PROVE  IInv'
<1>1. /\ e \in Fresh /\ list' = <<e>> \o list
      /\ UNCHANGED <<lastLink, withdrawn, queue, requested, seenPages, lost, item,
                     crawl, task>>
  BY DEF Publish
<1>2. /\ <<e>> \in Seq(Entries) /\ Len(<<e>>) = 1 /\ <<e>>[1] = e
      /\ DOMAIN list = 1..Len(list) /\ Len(list) \in Nat /\ list \in Seq(Entries)
  BY Places
<1>3. /\ list' \in Seq(Entries) /\ Len(list') = Len(list) + 1
      /\ \A j \in 1..(Len(list) + 1) :
           list'[j] = IF j <= 1 THEN <<e>>[j] ELSE list[j - 1]
  BY <1>1, <1>2, ConcatProperties
<1>4. DOMAIN list' = 1..(Len(list) + 1)
  BY <1>3, LenProperties
<1>5. list'[1] = e /\ \A j \in DOMAIN list : list'[j + 1] = list[j]
  BY <1>2, <1>3
<1>6. \A x : BelowOld(x) => BelowOld(x)'
  <2> SUFFICES ASSUME NEW x, NEW i \in DOMAIN list, NEW j \in DOMAIN list,
                      i < j, list[j] = x, ~InWindow(list[i])
               PROVE  \E a, b \in DOMAIN list' :
                        a < b /\ list'[b] = x /\ ~InWindow(list'[a])
    BY DEF BelowOld, InWindow
  <2>1. i + 1 \in DOMAIN list' /\ j + 1 \in DOMAIN list' /\ i + 1 < j + 1
    BY <1>2, <1>4
  <2>2. list'[i + 1] = list[i] /\ list'[j + 1] = list[j]
    BY <1>5
  <2> QED BY <2>1, <2>2
<1>7. ASSUME NEW j \in DOMAIN list', ToVisit(j)'
      PROVE  \E i \in DOMAIN list : i + 1 = j /\ ToVisit(i) /\ list'[j] = list[i]
  <2>1. j # 1
    BY <1>1, <1>5, <1>7 DEF ToVisit
  <2>2. j - 1 \in DOMAIN list /\ (j - 1) + 1 = j
    BY <1>2, <1>4, <2>1
  <2>3. list'[j] = list[j - 1]
    BY <1>5, <2>2
  <2>4. ToVisit(j - 1)
    BY <1>6, <1>7, <2>3 DEF ToVisit, InWindow
  <2> QED BY <2>2, <2>3, <2>4
<1>8. /\ \A m \in Nat : AskedTo(m) => AskedTo(m)'
      /\ AskedAll => AskedAll'
  <2>1. ASSUME NEW m \in Nat, AskedTo(m), NEW j \in DOMAIN list', j <= m, ToVisit(j)'
        PROVE  Detail(list'[j]) \in requested
    <3>1. PICK i \in DOMAIN list : i + 1 = j /\ ToVisit(i) /\ list'[j] = list[i]
      BY <1>7, <2>1
    <3>2. i <= m
      BY <1>2, <2>1, <3>1
    <3> QED BY <2>1, <3>1, <3>2 DEF AskedTo, AskedFor
  <2>2. ASSUME AskedAll, NEW j \in DOMAIN list', ToVisit(j)'
        PROVE  Detail(list'[j]) \in requested
    BY <1>7, <2>2 DEF AskedAll, AskedFor
  <2> QED BY <1>1, <2>1, <2>2 DEF AskedTo, AskedAll, AskedFor
<1>9. PICK n \in Nat : n >= 1 /\ n \in seenPages /\ Frontier(n)
  BY Newest
<1>10. (n - 1) * PageSize \in Nat
  BY <1>9, NumbersAssumption
<1>11. Frontier(n)'
  BY <1>1, <1>8, <1>9, <1>10 DEF Frontier, NoListLost
<1>12. AskedIsDone'
  BY <1>1 DEF IInv, AskedIsDone
<1>13. TypeOK'
  BY <1>1, <1>3, ShapesKept DEF IInv, TypeOK, AskedIsDone
<1> QED BY <1>1, <1>9, <1>11, <1>12, <1>13 DEF IInv

(* The site withdraws an entry: the promise is off.                         *)
LEMMA WithdrawKeeps ==
  ASSUME IInv, NEW i \in DOMAIN list, Withdraw(i)
  PROVE  IInv'
<1> DEFINE a == SubSeq(list, 1, i - 1)
           b == SubSeq(list, i + 1, Len(list))
<1>1. /\ list' = a \o b /\ withdrawn' = TRUE
      /\ UNCHANGED <<lastLink, queue, requested, seenPages, lost, item, crawl, task>>
  BY DEF Withdraw
<1>2. /\ list \in Seq(Entries) /\ Len(list) \in Nat /\ i \in 1..Len(list)
      /\ \A j \in 1..Len(list) : list[j] \in Entries
  BY Places
<1>3. a \in Seq(Entries)
  <2>1. \A j \in 1..(i - 1) : list[j] \in Entries
    BY <1>2
  <2> QED BY <1>2, <2>1, SubSeqProperties
<1>4. b \in Seq(Entries)
  <2>1. \A j \in (i + 1)..Len(list) : list[j] \in Entries
    BY <1>2
  <2> QED BY <1>2, <2>1, SubSeqProperties
<1> HIDE DEF a, b
<1>5. list' \in Seq(Entries)
  BY <1>1, <1>3, <1>4, ConcatProperties
<1>6. PICK n \in Nat : n \in seenPages /\ Frontier(n)
  BY Newest
<1>7. Frontier(n)'
  BY <1>1, <1>6 DEF Frontier
<1>8. AskedIsDone'
  BY <1>1 DEF IInv, AskedIsDone
<1>9. TypeOK'
  BY <1>1, <1>5, ShapesKept DEF IInv, TypeOK, AskedIsDone
<1> QED BY <1>1, <1>6, <1>7, <1>8, <1>9 DEF IInv
-------------------------------------------------------------------------------
(* A page of the list is parsed.                                           *)

(* Where a page leads: on, as long as there is more, and not on after that. *)
LEMMA LinkLeads ==
  ASSUME IInv, NEW n \in Nat
  PROVE  /\ NextLink(n) \in {n + 1, n, 1, NoValue}
         /\ n * PageSize < Len(list) => NextLink(n) = n + 1
         /\ ~(n * PageSize < Len(list)) => NextLink(n) \in {n, 1, NoValue}
<1> DEFINE more == n * PageSize < Len(list)
           last == n * PageSize >= Len(list)
           itself == lastLink = "itself"
           first == lastLink = "first"
<1>1. NextLink(n) = CASE more -> n + 1
                      [] last /\ itself -> n
                      [] last /\ first -> 1
                      [] OTHER -> NoValue
  BY DEF NextLink
<1>2. more <=> ~last
  <2> DEFINE m == n * PageSize
  <2>1. m \in Nat /\ Len(list) \in Nat
    BY NumbersAssumption, Places
  <2> HIDE DEF m
  <2>2. m < Len(list) <=> ~(m >= Len(list))
    BY <2>1
  <2> QED BY <2>2 DEF m
<1>3. ~(itself /\ first)
  OBVIOUS
<1> HIDE DEF more, last, itself, first
<1>4. more => NextLink(n) = n + 1
  BY <1>1, <1>2
<1>5. last /\ itself => NextLink(n) = n
  BY <1>1, <1>2, <1>3
<1>6. last /\ first => NextLink(n) = 1
  BY <1>1, <1>2, <1>3
<1>7. last /\ ~itself /\ ~first => NextLink(n) = NoValue
  BY <1>1, <1>2
<1>8. ~more => NextLink(n) \in {n, 1, NoValue}
  BY <1>2, <1>5, <1>6, <1>7
<1> QED BY <1>4, <1>8 DEF more

(* The only new page a page can lead to is the next one, and with more      *)
(* entries below it, it leads there unless the window ends on it.          *)
LEMMA NextPage ==
  ASSUME IInv, NEW n \in Nat, n >= 1, seenPages = 1..n
  PROVE  /\ NextPages(n) = {} \/ NextPages(n) = {n + 1}
         /\ NextPages(n) = {} => ShouldStop(n) \/ ~(n * PageSize < Len(list))
<1>1. NextLink(n) \in {n + 1, n, 1, NoValue}
  BY LinkLeads
<1>2. n + 1 \notin seenPages \cup {n, NoValue} /\ {1, n} \subseteq seenPages
  BY NoValueAssumption
<1>3. NextPages(n) = {} \/ NextPages(n) = {n + 1}
  BY <1>1, <1>2 DEF NextPages
<1>4. ASSUME NextPages(n) = {}, ~ShouldStop(n)
      PROVE  NextLink(n) # n + 1
  BY <1>2, <1>4 DEF NextPages
<1>5. n * PageSize < Len(list) => NextLink(n) = n + 1
  BY LinkLeads
<1> QED BY <1>3, <1>4, <1>5

(* What the window reaches of the pages up to the n-th: when the first      *)
(* n - 1 are dealt with, and the entries of the n-th that are not too old   *)
(* are asked for, so are those of the first n; and of all, if the window    *)
(* ends on the n-th or the list does.                                      *)
LEMMA PageReached ==
  ASSUME IInv, NEW n \in Nat, n >= 1,
         AskedTo((n - 1) * PageSize), requested \subseteq requested', list' = list,
         \A e \in OnPage(n) : ~Old(e) => Detail(e) \in requested'
  PROVE  /\ AskedTo(n * PageSize)'
         /\ ShouldStop(n) \/ ~(n * PageSize < Len(list)) => AskedAll'
<1> DEFINE a == (n - 1) * PageSize
           b == n * PageSize
<1>1. a \in Nat /\ b \in Nat
  BY NumbersAssumption
<1>2. DOMAIN list = 1..Len(list) /\ Len(list) \in Nat
      /\ \A j \in DOMAIN list : list[j] \in Entries
  BY Places
<1>3. OnPage(n) = {list[i] : i \in {j \in DOMAIN list : a < j /\ j <= b}}
  BY DEF OnPage
<1>4. \A j \in DOMAIN list : j <= a /\ ToVisit(j) => Detail(list[j]) \in requested
  BY DEF AskedTo, AskedFor
<1>5. \A j : ToVisit(j)' <=> ToVisit(j)
  BY DEF ToVisit, BelowOld
<1>6. \A e \in Entries : InWindow(e) <=> ~Old(e)
  BY DateOfAssumption, NumbersAssumption, NoValueAssumption DEF InWindow, Old
<1> SUFFICES /\ \A j \in DOMAIN list : j <= b /\ ToVisit(j) =>
                  Detail(list[j]) \in requested'
             /\ ShouldStop(n) \/ ~(b < Len(list)) =>
                  \A j \in DOMAIN list : ToVisit(j) => Detail(list[j]) \in requested'
  BY <1>5 DEF AskedTo, AskedAll, AskedFor
<1> HIDE DEF a, b
<1>7. ASSUME NEW j \in DOMAIN list, j <= b, ToVisit(j)
      PROVE  Detail(list[j]) \in requested'
  <2>1. CASE j <= a
    BY <1>4, <1>7, <2>1
  <2>2. CASE ~(j <= a)
    <3>1. a < j
      BY <1>1, <1>2, <2>2
    <3>2. list[j] \in OnPage(n)
      BY <1>3, <1>7, <3>1
    <3>3. ~Old(list[j])
      BY <1>2, <1>6, <1>7 DEF ToVisit
    <3> QED BY <3>2, <3>3
  <2> QED BY <2>1, <2>2
<1>8. ASSUME NEW j \in DOMAIN list, ToVisit(j), ~(j <= b)
      PROVE  ~ShouldStop(n) /\ b < Len(list)
  <2>1. b < Len(list)
    BY <1>1, <1>2, <1>8
  <2>2. ASSUME ShouldStop(n)
        PROVE  FALSE
    <3>1. PICK i \in DOMAIN list : i <= b /\ Old(list[i])
      BY <1>3, <2>2 DEF ShouldStop
    <3>2. i < j
      BY <1>1, <1>2, <1>8, <3>1
    <3>3. ~InWindow(list[i])
      BY <1>2, <1>6, <3>1
    <3>4. BelowOld(list[j])
      BY <3>2, <3>3 DEF BelowOld
    <3> QED BY <1>8, <3>4 DEF ToVisit
  <2> QED BY <2>1, <2>2
<1> QED BY <1>7, <1>8

(* A page of the list is parsed.                                            *)
LEMMA ParseListKeeps ==
  ASSUME IInv, NEW k, ParseList(k)
  PROVE  IInv'
<1>1. PICK n \in Nat :
        /\ n >= 1 /\ n \in seenPages /\ Frontier(n)
        /\ \A r \in requested : r.kind = "list" \/ \E e \in Entries : r = Detail(e)
        /\ \A r \in DOMAIN queue : r = ListPage(n) \/ \E e \in Entries : r = Detail(e)
  BY Newest
<1>2. k = n /\ ListPage(n) \in DOMAIN queue
  <2>1. ListPage(k) \in DOMAIN queue
    BY DEF ParseList
  <2>2. ListPage(k) = ListPage(n)
    BY <1>1, <2>1, Kinds
  <2> QED BY <2>1, <2>2, Kinds
<1> DEFINE details == {Detail(e) : e \in {f \in OnPage(n) : ~Old(f)}}
           pages == {ListPage(m) : m \in NextPages(n)}
           new == (details \cup pages) \ requested
<1>3. /\ queue' = [r \in (DOMAIN queue \ {ListPage(n)}) \cup new |->
                     IF r \in new THEN 0 ELSE queue[r]]
      /\ requested' = requested \cup new
      /\ seenPages' = seenPages \cup {n} \cup NextPages(n)
      /\ UNCHANGED <<list, lastLink, withdrawn, lost, item, crawl, task>>
  <2>1. DOMAIN Without(ListPage(n)) = DOMAIN queue \ {ListPage(n)}
    BY Leaves
  <2> QED BY <1>2, <2>1 DEF ParseList, site
<1>4. \A r \in details : \E e \in Entries : r = Detail(e)
  BY Places DEF OnPage
<1>5. details \subseteq requested' /\ requested \subseteq requested'
      /\ pages \subseteq requested' /\ requested' \subseteq requested \cup details \cup pages
  BY <1>3
<1>6. /\ NextPages(n) = {} \/ NextPages(n) = {n + 1}
      /\ NextPages(n) = {} => ShouldStop(n) \/ ~(n * PageSize < Len(list))
      /\ seenPages = 1..n
  BY <1>1, NextPage DEF Frontier
<1>7. DOMAIN queue' = (DOMAIN queue \ {ListPage(n)}) \cup new
  BY <1>3
<1>8. queue' \in [DOMAIN queue' -> 0..RETRY_TIMES]
  <2>1. queue \in [DOMAIN queue -> 0..RETRY_TIMES]
    BY DEF IInv, AskedIsDone
  <2> HIDE DEF new
  <2> QED BY <1>3, <2>1, NumbersAssumption
<1>9. \A e \in OnPage(n) : ~Old(e) => Detail(e) \in requested'
  BY <1>5
<1>10. ~withdrawn => /\ AskedTo(n * PageSize)'
                     /\ NextPages(n) = {} => AskedAll'
  <2>1. ~withdrawn => AskedTo((n - 1) * PageSize)
    BY <1>1, <1>2 DEF Frontier
  <2> QED BY <1>1, <1>3, <1>5, <1>6, <1>9, <2>1, PageReached
<1>11. requested \subseteq Askable(n) /\ details \subseteq Askable(n)
  BY <1>1, <1>4 DEF Frontier, Askable
<1>12. ListPage(n) \in requested /\ ListPage(n) \notin new
  BY <1>2 DEF IInv, TypeOK
<1>13. \E m \in seenPages' : m \in Nat /\ m >= 1 /\ Frontier(m)' /\ requested' \subseteq Askable(m)
  <2>1. CASE NextPages(n) = {}
    <3>1. seenPages' = 1..n /\ n \in seenPages'
      BY <1>1, <1>3, <1>6, <2>1
    <3>2. pages = {}
      BY <2>1
    <3>3. requested' \subseteq Askable(n)
      BY <1>5, <1>11, <3>2
    <3>4. ListPage(n) \notin DOMAIN queue'
      BY <1>7, <1>12
    <3>5. \A r \in DOMAIN queue' : r.kind = "list" => r = ListPage(n)
      BY <1>1, <1>4, <1>7, <3>2, Kinds
    <3>6. Frontier(n)'
      BY <1>3, <1>10, <2>1, <3>1, <3>3, <3>4, <3>5 DEF Frontier
    <3> QED BY <1>1, <3>1, <3>3, <3>6
  <2>2. CASE NextPages(n) = {n + 1}
    <3>1. seenPages' = 1..(n + 1) /\ n + 1 \in seenPages' /\ n + 1 \in Nat
      BY <1>1, <1>3, <1>6, <2>2
    <3>2. pages = {ListPage(n + 1)}
      BY <2>2
    <3>3. requested' \subseteq Askable(n + 1)
      BY <1>1, <1>5, <1>11, <3>2 DEF Askable
    <3>4. ListPage(n + 1) \notin requested
      <4>1. \A j \in 1..n : j # n + 1
        OBVIOUS
      <4> QED BY <1>11, <4>1, Kinds DEF Askable
    <3>5. ListPage(n + 1) \in DOMAIN queue'
      BY <1>7, <3>2, <3>4
    <3>6. \A r \in DOMAIN queue' : r.kind = "list" => r = ListPage(n + 1)
      BY <1>1, <1>4, <1>7, <3>2, Kinds
    <3>7. (n + 1) - 1 = n
      OBVIOUS
    <3>8. ~withdrawn' =>
            IF ListPage(n + 1) \in DOMAIN queue'
              THEN AskedTo(((n + 1) - 1) * PageSize)'
              ELSE NoListLost' /\ crawl' # "died" => AskedAll'
      BY <1>3, <1>10, <3>5, <3>7
    <3>9. Frontier(n + 1)'
      BY <3>1, <3>3, <3>6, <3>8 DEF Frontier
    <3> QED BY <1>1, <3>1, <3>3, <3>9
  <2> QED BY <1>6, <2>1, <2>2
<1>14. AskedIsDone'
  <2>1. crawl = "running"
    BY <1>2 DEF IInv, AskedIsDone
  <2>2. ASSUME NEW e \in Entries, Detail(e) \in requested'
        PROVE  \/ Detail(e) \in DOMAIN queue' \/ Detail(e) \in lost
               \/ item[e] # "none" \/ crawl = "died"
    <3>1. CASE Detail(e) \in new
      BY <1>7, <3>1
    <3>2. CASE Detail(e) \in requested
      <4>1. Detail(e) # ListPage(n)
        BY Kinds
      <4>2. Detail(e) \in DOMAIN queue => Detail(e) \in DOMAIN queue'
        BY <1>7, <4>1
      <4> QED BY <3>2, <4>2 DEF IInv, AskedIsDone
    <3> QED BY <1>3, <2>2, <3>1, <3>2
  <2> QED BY <1>3, <1>8, <2>1, <2>2 DEF AskedIsDone
<1>15. TypeOK'
  <2>1. DOMAIN queue' \subseteq requested'
    BY <1>3, <1>7 DEF IInv, TypeOK
  <2>2. \A r \in requested' : r.kind = "list" \/ r.entry \in Entries
    BY <1>13, Kinds DEF Askable
  <2>3. \A j \in seenPages' : j = 1 \/ j - 1 \in seenPages'
    <3>1. PICK m \in Nat : m >= 1 /\ Frontier(m)'
      BY <1>13
    <3> QED BY <3>1 DEF Frontier
  <2>4. \A r \in DOMAIN queue' : queue'[r] \in 0..RETRY_TIMES
    BY <1>8
  <2>5. lost' \subseteq requested'
    BY <1>3 DEF IInv, TypeOK
  <2> QED BY <1>3, <2>1, <2>2, <2>3, <2>4, <2>5 DEF IInv, TypeOK
<1> QED BY <1>13, <1>14, <1>15 DEF IInv

-------------------------------------------------------------------------------
(* The theorems.                                                           *)

(* A crawl starts with the first page.                                      *)
LEMMA InitHolds == Init => IInv
<1> SUFFICES ASSUME Init PROVE IInv
  OBVIOUS
<1>1. /\ list \in Seq(Entries) /\ queue = [r \in {ListPage(1)} |-> 0]
      /\ requested = {ListPage(1)} /\ seenPages = {1} /\ lost = {}
      /\ item = [e \in Entries |-> "none"] /\ crawl = "running" /\ task = "running"
  BY ListsAssumption DEF Init
<1>2. queue \in [{ListPage(1)} -> 0..RETRY_TIMES] /\ DOMAIN queue = {ListPage(1)}
  BY <1>1, NumbersAssumption
<1>3. TypeOK
  BY <1>1, <1>2, Kinds DEF TypeOK, Statuses
<1>4. AskedIsDone
  BY <1>1, <1>2, Kinds DEF AskedIsDone
<1>5. seenPages = 1..1 /\ 1 \in seenPages /\ 1 \in Nat
  BY <1>1
<1>6. requested \subseteq Askable(1)
  BY <1>1 DEF Askable
<1>7. AskedTo((1 - 1) * PageSize)
  <2>1. (1 - 1) * PageSize = 0
    BY NumbersAssumption
  <2>2. \A j \in DOMAIN list : ~(j <= 0)
    BY <1>1, LenProperties
  <2> QED BY <2>1, <2>2 DEF AskedTo
<1>8. Frontier(1)
  BY <1>2, <1>5, <1>6, <1>7 DEF Frontier
<1> QED BY <1>3, <1>4, <1>5, <1>8 DEF IInv

(* A request is handled.                                                    *)
LEMMA HandleKeeps ==
  ASSUME IInv, NEW r \in DOMAIN queue, Handle(r)
  PROVE  IInv'
<1>1. CASE r.kind = "list" /\ ParseList(r.page)
  BY <1>1, ParseListKeeps
<1>2. CASE r.kind = "detail" /\ ParseDetail(r.entry)
  <2>1. r \in requested
    BY DEF IInv, TypeOK
  <2>2. r.entry \in Entries
    BY <1>2, <2>1, Newest, Kinds
  <2> QED BY <1>2, <2>2, ParseDetailKeeps
<1>3. CASE Retry(r)
  BY <1>3, RetryKeeps
<1>4. CASE GiveUp(r)
  BY <1>4, GiveUpKeeps
<1> QED BY <1>1, <1>2, <1>3, <1>4 DEF Handle

(* The invariant of a crawl: while a page of the list is under way, all     *)
(* that the window reaches on the pages before it has been asked for.      *)
THEOREM CrawlInvariance == Spec => []IInv
<1>1. Init => IInv
  BY InitHolds
<1>2. IInv /\ [Next]_vars => IInv'
  <2> SUFFICES ASSUME IInv, [Next]_vars PROVE IInv'
    OBVIOUS
  <2>1. CASE \E r \in DOMAIN queue : Handle(r)
    BY <2>1, HandleKeeps
  <2>2. CASE Close
    BY <2>2, CloseKeeps
  <2>3. CASE Die
    BY <2>3, DieKeeps
  <2>4. CASE Finish
    BY <2>4, FinishKeeps
  <2>5. CASE \E e \in Entries : Publish(e)
    BY <2>5, PublishKeeps
  <2>6. CASE \E i \in DOMAIN list : Withdraw(i)
    BY <2>6, WithdrawKeeps
  <2>7. CASE UNCHANGED vars
    <3>1. UNCHANGED <<list, lastLink, withdrawn, queue, requested, seenPages, lost,
                      item, crawl, task>>
      BY <2>7 DEF vars, site
    <3>2. AskedIsDone'
      BY <3>1 DEF IInv, AskedIsDone
    <3>3. TypeOK'
      BY <3>1, ShapesKept DEF IInv, TypeOK, AskedIsDone
    <3> QED BY <3>1, <3>2, <3>3, AsksNothing DEF site
  <2> QED BY <2>1, <2>2, <2>3, <2>4, <2>5, <2>6, <2>7 DEF Next, SpiderStep, SiteChange
<1> QED BY <1>1, <1>2, PTL DEF Spec

(* List, requests and items have their shapes, requests under way were      *)
(* made, and pages of the list are met in their order.                     *)
THEOREM CrawlTypes == Spec => []TypeOK
<1>1. IInv => TypeOK
  BY DEF IInv
<1> QED BY <1>1, CrawlInvariance, PTL

(* When the spider closed, every listed entry of the window has its item,   *)
(* unless its page or a page of the list was lost, the site withdrew an     *)
(* entry, an older one is listed above it, or it was published meanwhile:   *)
(* for every list, size of a page and order of answers.                    *)
THEOREM WindowIsCovered == Spec => []WindowCovered
<1>1. IInv => WindowCovered
  <2> SUFFICES ASSUME IInv, crawl = "closed", ~withdrawn,
                      \A r \in lost : r.kind = "detail",
                      NEW e \in Listed \ Fresh, InWindow(e), ~BelowOld(e)
               PROVE  item[e] # "none" \/ Detail(e) \in lost
    BY DEF WindowCovered
  <2>1. PICK n \in Nat : Frontier(n)
    BY Newest
  <2>2. DOMAIN queue = {}
    BY DEF IInv, AskedIsDone
  <2>3. AskedAll
    BY <2>1, <2>2 DEF Frontier, NoListLost
  <2>4. PICK j \in DOMAIN list : list[j] = e
    BY DEF Listed, Range
  <2>5. Detail(e) \in requested /\ e \in Entries
    BY <2>3, <2>4, Places DEF AskedAll, AskedFor, ToVisit
  <2> QED BY <2>2, <2>5 DEF IInv, AskedIsDone
<1> QED BY <1>1, CrawlInvariance, PTL
-------------------------------------------------------------------------------
(* Why a crawl can only end: what CrawlEnds checks of small sites rests on  *)
(* two facts about the steps of any crawl.                                 *)

(* A page of the list is met only if entries stood before its first place,  *)
(* so a list of finite length has finitely many, wherever the links lead.  *)
WalkBounded == \A k \in seenPages : (k - 1) * PageSize <= Len(list)

(* What was asked for before and is not under way never is again.           *)
AskedOnce == [][\A r \in requested : r \in DOMAIN queue' => r \in DOMAIN queue]_vars

(* The inductive form: an entry stands on the page, or was withdrawn.       *)
Entered == IF withdrawn THEN Len(list) + 1 ELSE Len(list)
Within(k, l) == k = 1 \/ (k - 1) * PageSize < l
AllWithin == \A k \in seenPages : Within(k, Entered)

(* A longer list has room for the same pages.                               *)
LEMMA RoomKept ==
  ASSUME NEW k \in Nat, k >= 1, NEW l \in Nat, NEW m \in Nat, m >= l, Within(k, l)
  PROVE  Within(k, m)
<1> DEFINE a == (k - 1) * PageSize
<1>1. a \in Nat
  BY NumbersAssumption
<1>2. k = 1 \/ a < l
  BY DEF Within
<1> SUFFICES k = 1 \/ a < m
  BY DEF Within
<1> HIDE DEF a
<1> QED BY <1>1, <1>2

(* Each step leaves every page within the list.                             *)
LEMMA WithinKept ==
  ASSUME IInv, AllWithin, [Next]_vars
  PROVE  AllWithin'
<1>1. PICK n \in Nat : n >= 1 /\ n \in seenPages /\ Frontier(n)
  BY Newest
<1>2. /\ seenPages = 1..n /\ Len(list) \in Nat /\ DOMAIN list = 1..Len(list)
      /\ Entered \in Nat /\ Entered >= Len(list)
  BY <1>1, Places DEF Frontier, Entered
<1>3. ASSUME seenPages' = seenPages, Entered' \in Nat, Entered' >= Entered
      PROVE  AllWithin'
  <2> SUFFICES ASSUME NEW k \in seenPages
               PROVE  Within(k, Entered')
    BY <1>3 DEF AllWithin, Within
  <2>1. k \in Nat /\ k >= 1 /\ Within(k, Entered)
    BY <1>2 DEF AllWithin
  <2> QED BY <1>2, <1>3, <2>1, RoomKept
<1>4. ASSUME seenPages' = seenPages, list' = list, withdrawn' = withdrawn
      PROVE  AllWithin'
  BY <1>2, <1>3, <1>4 DEF Entered
<1>5. ASSUME NEW k, ParseList(k)
      PROVE  AllWithin'
  <2>1. k = n
    <3>1. ListPage(k) \in DOMAIN queue
      BY <1>5 DEF ParseList
    <3>2. ListPage(k) = ListPage(n)
      BY <1>1, <3>1, Kinds DEF Frontier
    <3> QED BY <3>2, Kinds
  <2>2. /\ seenPages' = seenPages \cup {n} \cup NextPages(n)
        /\ list' = list /\ withdrawn' = withdrawn
    BY <1>5, <2>1 DEF ParseList, site
  <2>3. ASSUME NEW m \in NextPages(n)
        PROVE  m = n + 1 /\ n * PageSize < Len(list)
    <3>1. m = NextLink(n) /\ m \notin seenPages \cup {n, NoValue}
      BY <2>3 DEF NextPages
    <3>2. {1, n} \subseteq seenPages
      BY <1>1, <1>2
    <3> QED BY <1>1, <3>1, <3>2, LinkLeads
  <2>4. ASSUME NEW m \in seenPages'
        PROVE  Within(m, Entered)
    <3>1. CASE m \in seenPages
      BY <3>1 DEF AllWithin
    <3>2. CASE m \notin seenPages
      <4>1. m = n + 1 /\ n * PageSize < Len(list)
        BY <1>1, <2>2, <2>3, <2>4, <3>2
      <4> DEFINE a == n * PageSize
      <4>2. (m - 1) * PageSize = a /\ a \in Nat /\ a < Len(list)
        BY <4>1, NumbersAssumption
      <4> HIDE DEF a
      <4>3. a < Entered
        BY <1>2, <4>2
      <4> QED BY <4>2, <4>3 DEF Within
    <3> QED BY <3>1, <3>2
  <2>5. Entered' = Entered
    BY <2>2 DEF Entered
  <2> QED BY <2>4, <2>5 DEF AllWithin, Within
<1>6. ASSUME NEW e \in Entries, Publish(e)
      PROVE  AllWithin'
  <2>1. <<e>> \in Seq(Entries) /\ Len(<<e>>) = 1 /\ list \in Seq(Entries)
    BY Places
  <2>2. list' = <<e>> \o list /\ seenPages' = seenPages /\ withdrawn' = withdrawn
    BY <1>6 DEF Publish
  <2>3. Len(<<e>> \o list) = 1 + Len(list)
    BY <2>1, ConcatProperties
  <2>4. Len(list') = Len(list) + 1
    BY <1>2, <2>2, <2>3
  <2>5. Entered' \in Nat /\ Entered' >= Entered
    BY <1>2, <2>2, <2>4 DEF Entered
  <2> QED BY <1>3, <2>2, <2>5
<1>7. ASSUME NEW i \in DOMAIN list, Withdraw(i)
      PROVE  AllWithin'
  <2> DEFINE a == SubSeq(list, 1, i - 1)
             b == SubSeq(list, i + 1, Len(list))
  <2>1. list' = a \o b
    BY <1>7 DEF Withdraw
  <2>2. i \in Nat /\ i >= 1 /\ i <= Len(list) /\ \A j \in 1..Len(list) : list[j] \in Entries
    BY <1>2, Places
  <2>3. a \in Seq(Entries) /\ Len(a) = i - 1
    <3>1. \A j \in 1..(i - 1) : list[j] \in Entries
      BY <1>2, <2>2
    <3> QED BY <1>2, <2>2, <3>1, SubSeqProperties
  <2>4. b \in Seq(Entries) /\ Len(b) = Len(list) - i
    <3>1. \A j \in (i + 1)..Len(list) : list[j] \in Entries
      BY <1>2, <2>2
    <3> QED BY <1>2, <2>2, <3>1, SubSeqProperties
  <2> HIDE DEF a, b
  <2>5. Len(a \o b) = Len(a) + Len(b)
    BY <2>3, <2>4, ConcatProperties
  <2>6. Len(list') = Len(a) + Len(b)
    BY <2>1, <2>5
  <2>7. Len(list') \in Nat /\ Len(list') + 1 = Len(list)
    <3> DEFINE l == Len(list)
               m == Len(list')
    <3>1. /\ l \in Nat /\ i \in Nat /\ i >= 1 /\ i <= l
          /\ m = (i - 1) + (l - i)
      BY <1>2, <2>2, <2>3, <2>4, <2>6
    <3> HIDE DEF l, m
    <3>2. m \in Nat /\ m + 1 = l
      BY <3>1
    <3> QED BY <3>2 DEF l, m
  <2>8. seenPages' = seenPages /\ ~withdrawn /\ withdrawn'
    BY <1>7 DEF Withdraw
  <2>9. Entered' = Len(list') + 1 /\ Entered = Len(list)
    BY <2>8 DEF Entered
  <2>10. Entered' \in Nat /\ Entered' >= Entered
    BY <1>2, <2>7, <2>9
  <2> QED BY <1>3, <2>8, <2>10
<1> QED
  BY <1>4, <1>5, <1>6, <1>7
  DEF Next, SpiderStep, SiteChange, Handle, ParseDetail, Retry, GiveUp, Close, Die,
      Finish, vars, site

(* A crawl meets no page beyond the end of the list, although the last page *)
(* may link anywhere and entries move while it walks.                      *)
THEOREM WalkIsBounded == Spec => []WalkBounded
<1>1. Init => AllWithin
  BY DEF Init, AllWithin, Within
<1>2. IInv /\ AllWithin /\ [Next]_vars => AllWithin'
  BY WithinKept
<1>3. IInv /\ AllWithin => WalkBounded
  <2> SUFFICES ASSUME IInv, AllWithin, NEW k \in seenPages
               PROVE  (k - 1) * PageSize <= Len(list)
    BY DEF WalkBounded
  <2>1. /\ Len(list) \in Nat /\ k \in Nat /\ k >= 1
        /\ Entered \in Nat /\ Entered <= Len(list) + 1
    BY Newest, Places DEF Frontier, Entered
  <2> DEFINE a == (k - 1) * PageSize
  <2>2. a \in Nat /\ (k = 1 => a = 0)
    BY <2>1, NumbersAssumption
  <2>3. k = 1 \/ a < Entered
    BY DEF AllWithin, Within
  <2> HIDE DEF a
  <2>4. a <= Len(list)
    BY <2>1, <2>2, <2>3
  <2> QED BY <2>4 DEF a
<1> QED BY <1>1, <1>2, <1>3, CrawlInvariance, PTL DEF Spec

(* The duplicate filter: no page is asked for twice, so that with the bound *)
(* on repetitions each of them is under way a bounded number of times.     *)
THEOREM EachAskedOnce == Spec => AskedOnce
<1>1. IInv /\ [Next]_vars =>
        [\A r \in requested : r \in DOMAIN queue' => r \in DOMAIN queue]_vars
  <2> SUFFICES ASSUME IInv, [Next]_vars, NEW r \in requested, r \in DOMAIN queue'
               PROVE  r \in DOMAIN queue
    OBVIOUS
  <2>1. ASSUME NEW k, ParseList(k)
        PROVE  r \in DOMAIN queue
    <3>1. PICK new : /\ new \cap requested = {}
                     /\ queue' = [x \in DOMAIN Without(ListPage(k)) \cup new |->
                                    IF x \in new THEN 0 ELSE queue[x]]
      BY <2>1 DEF ParseList
    <3>2. DOMAIN queue' = DOMAIN Without(ListPage(k)) \cup new
      BY <3>1
    <3> QED BY <3>1, <3>2, Leaves
  <2>2. ASSUME NEW x, queue' = Without(x)
        PROVE  r \in DOMAIN queue
    BY <2>2, Leaves
  <2>3. ASSUME NEW x, Retry(x)
        PROVE  r \in DOMAIN queue
    BY <2>3 DEF Retry
  <2>4. ASSUME Die
        PROVE  r \in DOMAIN queue
    BY <2>4, Emptied DEF Die
  <2>5. ASSUME queue' = queue
        PROVE  r \in DOMAIN queue
    BY <2>5
  <2> QED
    BY <2>1, <2>2, <2>3, <2>4, <2>5
    DEF Next, SpiderStep, SiteChange, Handle, ParseDetail, GiveUp, Close, Finish,
        Publish, Withdraw, vars, site
<1> QED BY <1>1, CrawlInvariance, PTL DEF Spec, AskedOnce

===============================================================================
