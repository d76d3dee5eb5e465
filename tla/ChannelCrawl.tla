------------------------------ MODULE ChannelCrawl ------------------------------
(***************************************************************************)
(* The crawl of one channel in a collection task: GdiiSpider                *)
(* (policy_crawler/spiders/gdii.py) walks the pages of the site's list,     *)
(* newest first, and visits the entries since the cutoff date, with        *)
(* Scrapy's scheduler, duplicate filter and retries (settings.py); the      *)
(* pipeline leaves one task item per page visited, and the collector       *)
(* (workers/collector.py) finishes the task from the items and the exit     *)
(* code.                                                                    *)
(*                                                                         *)
(* Answers come in any order, while the site publishes and withdraws an     *)
(* entry, which moves others from page to page.                             *)
(***************************************************************************)
EXTENDS Naturals, Sequences, Functions

CONSTANTS
  Entries,     \* addresses of policy pages
  DateOf,      \* the date shown beside each in the list, NoValue for none
  Lists,       \* what the site may list when the crawl starts
  Fresh,       \* entries it may publish during the crawl
  Cutoff,      \* 90 days before the task
  PageSize,    \* entries on a page of the list
  RETRY_TIMES, \* repetitions of a failed download
  NoValue      \* no date, no link

ASSUME DateOfAssumption == DateOf \in [Entries -> Nat \cup {NoValue}]
ASSUME ListsAssumption == Lists \subseteq Seq(Entries) /\ Fresh \subseteq Entries
ASSUME NumbersAssumption ==
  Cutoff \in Nat /\ PageSize \in Nat \ {0} /\ RETRY_TIMES \in Nat
ASSUME NoValueAssumption == NoValue \notin Nat

VARIABLES
  list,      \* the site's list, newest first
  lastLink,  \* where "next page" leads on the last page
  withdrawn, \* the site has withdrawn an entry during the crawl
  queue,     \* requests under way and how often they were repeated
  requested, \* Scrapy's duplicate filter
  seenPages, \* _seen_list_urls
  lost,      \* requests given up
  item,      \* status of the task item of each entry
  crawl,     \* the spider's process
  task       \* status of the task

site == <<list, lastLink, withdrawn>>
vars == <<site, queue, requested, seenPages, lost, item, crawl, task>>

ListPage(k) == [kind |-> "list", page |-> k]
Detail(e) == [kind |-> "detail", entry |-> e]

Statuses == {"none", "succeeded", "failed"}

Init ==
  /\ list \in Lists
  /\ lastLink \in {"none", "itself", "first"}
  /\ withdrawn = FALSE
  /\ queue = [r \in {ListPage(1)} |-> 0]
  /\ requested = {ListPage(1)}
  /\ seenPages = {1}
  /\ lost = {}
  /\ item = [e \in Entries |-> "none"]
  /\ crawl = "running"
  /\ task = "running"

-------------------------------------------------------------------------------
(* The site.                                                               *)

Listed == Range(list)

OnPage(k) == {list[i] : i \in {j \in DOMAIN list : (k - 1) * PageSize < j
                                                   /\ j <= k * PageSize}}

NextLink(k) ==
  CASE k * PageSize < Len(list) -> k + 1
    [] k * PageSize >= Len(list) /\ lastLink = "itself" -> k
    [] k * PageSize >= Len(list) /\ lastLink = "first" -> 1
    [] OTHER -> NoValue

Publish(e) ==
  /\ e \in Fresh \ Listed
  /\ crawl = "running"
  /\ item[e] = "none"
  /\ ~withdrawn
  /\ list' = <<e>> \o list
  /\ UNCHANGED <<lastLink, withdrawn, queue, requested, seenPages, lost, item,
                 crawl, task>>

Withdraw(i) ==
  /\ crawl = "running"
  /\ ~withdrawn
  /\ withdrawn' = TRUE
  /\ list' = SubSeq(list, 1, i - 1) \o SubSeq(list, i + 1, Len(list))
  /\ UNCHANGED <<lastLink, queue, requested, seenPages, lost, item, crawl, task>>

-------------------------------------------------------------------------------
(* The spider.                                                             *)

(* Variant: the day of the cutoff is too old.                              *)
OldFromCutoff(e) == DateOf[e] # NoValue /\ DateOf[e] <= Cutoff

Old(e) == DateOf[e] # NoValue /\ DateOf[e] < Cutoff

Undated(e) == DateOf[e] = NoValue

(* should_stop: the oldest date on the page is too old and every entry has  *)
(* a date.                                                                 *)
ShouldStop(k) ==
  /\ \E e \in OnPage(k) : Old(e)
  /\ ~\E e \in OnPage(k) : Undated(e)

(* The next page, unless it was met before (_safe_pagination_url).         *)
NextPages(k) ==
  IF ShouldStop(k) THEN {} ELSE {NextLink(k)} \ (seenPages \cup {k, NoValue})

Without(r) == Restrict(queue, DOMAIN queue \ {r})

(* parse_list.  The scheduler drops requests it has had before.            *)
ParseList(k) ==
  LET yielded == {Detail(e) : e \in {f \in OnPage(k) : ~Old(f)}}
                   \cup {ListPage(n) : n \in NextPages(k)}
      new == yielded \ requested
  IN  /\ ListPage(k) \in DOMAIN queue
      /\ OnPage(k) # {}
      /\ queue' = [r \in DOMAIN Without(ListPage(k)) \cup new |->
                     IF r \in new THEN 0 ELSE queue[r]]
      /\ requested' = requested \cup new
      /\ seenPages' = seenPages \cup {k} \cup NextPages(k)
      /\ UNCHANGED <<site, lost, item, crawl, task>>

(* parse_detail and the pipeline: the page is ingested, or its item failed  *)
(* (PolicyIngestion).                                                      *)
ParseDetail(e) ==
  /\ Detail(e) \in DOMAIN queue
  /\ queue' = Without(Detail(e))
  /\ \E status \in {"succeeded", "failed"} : item' = [item EXCEPT ![e] = status]
  /\ UNCHANGED <<site, requested, seenPages, lost, crawl, task>>

(* Variant: one repetition too many.                                       *)
MayRetryOnceMore(r) == queue[r] <= RETRY_TIMES

MayRetry(r) == queue[r] < RETRY_TIMES

(* The download fails: no connection, no answer in DOWNLOAD_TIMEOUT, a      *)
(* status worth another try.                                               *)
Retry(r) ==
  /\ r \in DOMAIN queue
  /\ MayRetry(r)
  /\ queue' = [queue EXCEPT ![r] = @ + 1]
  /\ UNCHANGED <<site, requested, seenPages, lost, item, crawl, task>>

(* It failed too often, or the answer is an error page or no HTML.  There   *)
(* is no errback: it is logged, and no task item is written.               *)
GiveUp(r) ==
  /\ r \in DOMAIN queue
  /\ queue' = Without(r)
  /\ lost' = lost \cup {r}
  /\ UNCHANGED <<site, requested, seenPages, item, crawl, task>>

(* Variant: what was lost is waited for.                                   *)
IdleWithoutLosses == queue = <<>> /\ lost = {}

Idle == queue = <<>>

(* Nothing is under way any more: Scrapy closes the spider and exits with   *)
(* code 0, whatever was lost.                                              *)
Close ==
  /\ crawl = "running"
  /\ Idle
  /\ crawl' = "closed"
  /\ UNCHANGED <<site, queue, requested, seenPages, lost, item, task>>

(* The process ends with another exit code.                                *)
Die ==
  /\ crawl = "running"
  /\ crawl' = "died"
  /\ queue' = <<>>
  /\ UNCHANGED <<site, requested, seenPages, lost, item, task>>

With(status) == {e \in Entries : item[e] = status}

(* finish_from_items.                                                      *)
Outcome ==
  CASE With("succeeded") # {} /\ With("failed") # {} -> "partial_failed"
    [] With("succeeded") # {} /\ With("failed") = {} /\ crawl = "closed" ->
         "succeeded"
    [] OTHER -> "failed"

Finish ==
  /\ crawl # "running"
  /\ task = "running"
  /\ task' = Outcome
  /\ UNCHANGED <<site, queue, requested, seenPages, lost, item, crawl>>

-------------------------------------------------------------------------------
Handle(r) ==
  \/ r.kind = "list" /\ ParseList(r.page)
  \/ r.kind = "detail" /\ ParseDetail(r.entry)
  \/ Retry(r)
  \/ GiveUp(r)

SpiderStep == (\E r \in DOMAIN queue : Handle(r)) \/ Close

SiteChange ==
  (\E e \in Entries : Publish(e)) \/ (\E i \in DOMAIN list : Withdraw(i))

Next == SpiderStep \/ Die \/ Finish \/ SiteChange

Spec == Init /\ [][Next]_vars

(* Scrapy handles what is under way, every download ends within its         *)
(* timeout, and the collector waits for the process.                       *)
FairSpec == Spec /\ WF_vars(SpiderStep) /\ WF_vars(Finish)

-------------------------------------------------------------------------------
(* Properties.                                                             *)

(* List, requests and items have their shapes: a request is under way only  *)
(* after it was made, and pages are met in their order.                    *)
TypeOK ==
  /\ list \in Seq(Entries)
  /\ DOMAIN queue \subseteq requested
  /\ \A r \in requested : r.kind = "list" \/ r.entry \in Entries
  /\ \A r \in DOMAIN queue : queue[r] \in 0..RETRY_TIMES
  /\ \A k \in seenPages : k = 1 \/ k - 1 \in seenPages
  /\ lost \subseteq requested
  /\ item \in [Entries -> Statuses]
  /\ crawl \in {"running", "closed", "died"}
  /\ task \in {"running", "succeeded", "partial_failed", "failed"}

InWindow(e) == DateOf[e] = NoValue \/ DateOf[e] >= Cutoff

(* An entry from before the window is listed above e.                      *)
BelowOld(e) ==
  \E i, j \in DOMAIN list : i < j /\ list[j] = e /\ ~InWindow(list[i])

(* Section 8: a crawl covers the last 90 days.  When the spider closed, an  *)
(* entry of the list that is not too old has its item, although answers     *)
(* came in any order and new entries moved it from page to page; unless     *)
(* its page or a page of the list was lost, the site withdrew an entry, an  *)
(* older entry is listed above it, or it was itself published meanwhile.    *)
WindowCovered ==
  crawl = "closed" /\ ~withdrawn /\ (\A r \in lost : r.kind = "detail") =>
    \A e \in Listed \ Fresh :
      InWindow(e) /\ ~BelowOld(e) => item[e] # "none" \/ Detail(e) \in lost

(* A crawl ends, and its task with it, wherever the links lead and however  *)
(* often downloads fail.                                                   *)
CrawlEnds == <>(task # "running")
===============================================================================
