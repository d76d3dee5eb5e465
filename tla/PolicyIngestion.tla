---------------------------- MODULE PolicyIngestion ----------------------------
(***************************************************************************)
(* Ingestion of crawled pages into the policy catalogue: the pipeline of    *)
(* each spider (policy_crawler/pipelines.py) hands one page after the other *)
(* to PolicyIngestionService (app/modules/policies/service.py), which works *)
(* under one named lock for all spiders (locks.py) and writes both rows and *)
(* files (files.py).                                                       *)
(*                                                                         *)
(* Rows change with the commit; files are there as soon as they are         *)
(* written.  The transaction ends before the lock is given back, and the    *)
(* files are removed after both, one by one, whichever of them failed.     *)
(***************************************************************************)
EXTENDS Naturals, Sequences, FiniteSetsExt, Functions

CONSTANTS
  Spiders,     \* spiders, each with the one channel it crawls
  Pages,       \* what the site shows at one time or another
  RulePublished, \* BOOLEAN: an evaluation rule is published
  MaxPolicies, \* bound: policy ids given out
  MaxLeftover, \* bound: versions with files that no spider has removed or will
  NoValue      \* SQL NULL

(* A page as parsed: url normalized, title and body as they are hashed,     *)
(* number the document number found in it, date its day of publication,    *)
(* attached whether it links a file.                                       *)
ASSUME PagesAssumption ==
  \A page \in Pages :
    /\ DOMAIN page = {"url", "number", "title", "date", "body", "attached"}
    /\ page.attached \in BOOLEAN
ASSUME RulePublishedAssumption == RulePublished \in BOOLEAN
ASSUME BoundsAssumption == MaxPolicies \in Nat /\ MaxLeftover \in Nat

VARIABLES
  policy,    \* table policies, by id
  nextId,    \* the AUTO_INCREMENT counter of policies
  version,   \* table policy_versions, with the one attachment of a page
  discovery, \* table policy_discoveries
  enqueued,  \* versions for which an evaluation batch was created
  file,      \* the files in the store, by path
  item,      \* the row in collection_task_items of each spider's last page
  lock,      \* holder of GET_LOCK('stage1-policy-ingestion')
  spider     \* what each spider's pipeline holds in memory

vars ==
  <<policy, nextId, version, discovery, enqueued, file, item, lock, spider>>
tables == <<policy, version, discovery, enqueued>>

Nullable(S) == S \cup {NoValue}

PolicyIds == 1..MaxPolicies
Urls == {page.url : page \in Pages}
Numbers == Nat \ {0}

Policy ==
  [title: {page.title : page \in Pages}, number: {page.number : page \in Pages},
   date: {page.date : page \in Pages}, current: Numbers]

Version ==
  [policy: PolicyIds, number: Numbers, title: {page.title : page \in Pages},
   body: {page.body : page \in Pages}, attachment: {"none", "downloaded", "failed"}]

Discovery == [channel: Spiders, url: Urls, policy: PolicyIds]

Path == [policy: PolicyIds, number: Numbers, kind: {"snapshot", "attachment"}]

Item ==
  [url: Urls, status: {"pending", "succeeded", "failed"},
   policy: Nullable(PolicyIds)]

(* policy, number: the row of a new version; created: the files written for *)
(* it.  The pipeline removes them in the same way whether it is undoing a  *)
(* transaction that was rolled back or revoking one that was committed.    *)
Spider ==
  [pc: {"idle", "waiting", "stored", "attached", "committed", "undoing", "revoking"},
   page: Nullable(Pages), policy: Nullable(PolicyIds),
   number: Nullable(Numbers), created: Seq(Path)]

ASSUME NoValueAssumption ==
  NoValue \notin Nat /\ NoValue \notin Spiders
    /\ NoValue \notin Policy /\ NoValue \notin Item

Idle == [pc |-> "idle", page |-> NoValue, policy |-> NoValue,
         number |-> NoValue, created |-> <<>>]

Init ==
  /\ policy = [p \in PolicyIds |-> NoValue]
  /\ nextId = 1
  /\ version = {}
  /\ discovery = {}
  /\ enqueued = {}
  /\ file = {}
  /\ item = [s \in Spiders |-> NoValue]
  /\ lock = NoValue
  /\ spider = [s \in Spiders |-> Idle]

-------------------------------------------------------------------------------
(* The policy a page belongs to (_match_policy).                           *)

Stored == {p \in PolicyIds : policy[p] # NoValue}

ByUrl(page) == {d.policy : d \in {e \in discovery : e.url = page.url}}

ByNumber(page) ==
  {p \in Stored : page.number # NoValue /\ policy[p].number = page.number}

ByTitleAndDate(page) ==
  {p \in Stored : /\ page.date # NoValue
                  /\ policy[p].date = page.date
                  /\ policy[p].title = page.title}

Showing(page) == {v \in version : v.title = page.title /\ v.body = page.body}

ByContent(page) ==
  {p \in Stored : /\ policy[p].title = page.title
                  /\ \E v \in Showing(page) : v.policy = p}

MatchPolicy(page) ==
  LET tried == <<ByUrl(page), ByNumber(page), ByTitleAndDate(page), ByContent(page)>>
      found == {i \in DOMAIN tried : tried[i] # {}}
  IN  IF found = {} THEN NoValue ELSE Min(tried[Min(found)])

VersionsOf(p) == {v \in version : v.policy = p}

(* Variant: the first version is number 0.                                 *)
NextNumberFromZero(p) == Max({v.number + 1 : v \in VersionsOf(p)} \cup {0})

(* max(version_number) + 1, or 1.                                          *)
NextNumber(p) == Max({v.number : v \in VersionsOf(p)} \cup {0}) + 1

-------------------------------------------------------------------------------
(* One item of a spider (process_item).                                    *)

Met(s, page) == item[s] # NoValue /\ item[s].url = page.url

(* _ensure_task_item: a row is inserted and committed for the page, unless  *)
(* the task has met its URL before.                                        *)
BeginItem(s, page) ==
  /\ spider[s].pc = "idle"
  /\ \/ item' = [item EXCEPT ![s] =
                    [url |-> page.url, status |-> "pending", policy |-> NoValue]]
     \/ Met(s, page) /\ UNCHANGED item
  /\ spider' = [spider EXCEPT ![s] = [Idle EXCEPT !.pc = "waiting", !.page = page]]
  /\ UNCHANGED <<tables, nextId, file, lock>>

(* Variant: no lock.                                                       *)
LockFreeAlways == TRUE

(* GET_LOCK succeeds and the transaction begins; until it has stored a file *)
(* nobody can tell, so what it does first belongs to the same step.        *)
LockFree == lock = NoValue

(* The rest of a failure with nothing (more) to remove: _mark_failed, in a  *)
(* transaction of its own, whose failure is only logged.                   *)
MarkFailed(s) ==
  /\ item' = [item EXCEPT ![s].status = "failed"] \/ UNCHANGED item
  /\ spider' = [spider EXCEPT ![s] = Idle]

(* IngestionLockTimeout: another spider has held the lock for 20 seconds,   *)
(* perhaps downloading attachments.                                        *)
LockTimeout(s) ==
  /\ spider[s].pc = "waiting"
  /\ lock # NoValue
  /\ MarkFailed(s)
  /\ UNCHANGED <<tables, nextId, file, lock>>

Target(s) == MatchPolicy(spider[s].page)

Known(s) ==
  Target(s) # NoValue
    /\ \E v \in Showing(spider[s].page) : v.policy = Target(s)

Snapshot(p, n) == [policy |-> p, number |-> n, kind |-> "snapshot"]
Attachment(p, n) == [policy |-> p, number |-> n, kind |-> "attachment"]

(* The id the page's policy has, or that its INSERT takes; a rollback does  *)
(* not give it back.                                                       *)
RowFor(s) == IF Target(s) = NoValue THEN nextId ELSE Target(s)

(* Variant: whatever is at the path is replaced.                           *)
FreeAlways(path) == TRUE

(* _atomic_write refuses to overwrite.                                     *)
Free(path) == path \notin file

(* Files that no row names and no pipeline is still to remove or to commit. *)
Named(v) ==
  {Snapshot(v.policy, v.number)} \cup
    (IF v.attachment = "downloaded" THEN {Attachment(v.policy, v.number)} ELSE {})

Leftover ==
  file \ ((UNION {Named(v) : v \in version})
          \cup (UNION {Range(spider[s].created) : s \in Spiders}))

BoundedLeftover ==
  Cardinality({<<path.policy, path.number>> : path \in Leftover}) <= MaxLeftover

(* save_snapshot of a new version.  The file may be in its place and the    *)
(* call still fail, when its directory cannot be synced.                   *)
SaveSnapshot(s) ==
  LET path == Snapshot(RowFor(s), NextNumber(RowFor(s)))
  IN  /\ spider[s].pc = "waiting"
      /\ LockFree
      /\ ~Known(s)
      /\ RowFor(s) <= MaxPolicies
      /\ Free(path)
      /\ nextId' = IF Target(s) = NoValue THEN nextId + 1 ELSE nextId
      /\ file' = file \cup {path}
      /\ \/ /\ lock' = s
            /\ spider' = [spider EXCEPT ![s] =
                 [@ EXCEPT !.pc = IF spider[s].page.attached THEN "stored" ELSE "attached",
                           !.policy = path.policy, !.number = path.number,
                           !.created = <<path>>]]
            /\ UNCHANGED <<tables, item>>
         \/ /\ MarkFailed(s)
            /\ UNCHANGED <<tables, lock>>
            /\ BoundedLeftover'

(* FileExistsError; the paths of a new policy are always free.             *)
RefuseSnapshot(s) ==
  /\ spider[s].pc = "waiting"
  /\ LockFree
  /\ Target(s) # NoValue
  /\ ~Known(s)
  /\ ~Free(Snapshot(Target(s), NextNumber(Target(s))))
  /\ MarkFailed(s)
  /\ UNCHANGED <<tables, nextId, file, lock>>

(* _save_attachments: the download ends with a file at a free path, or not; *)
(* or with one that is not known to be there, its directory not synced.    *)
SaveAttachment(s) ==
  LET path == Attachment(spider[s].policy, spider[s].number)
  IN  /\ spider[s].pc = "stored"
      /\ \/ /\ Free(path)
            /\ file' = file \cup {path}
            /\ spider' = [spider EXCEPT ![s].pc = "attached",
                                        ![s].created = Append(@, path)]
         \/ /\ UNCHANGED file \/ (Free(path) /\ file' = file \cup {path})
            /\ spider' = [spider EXCEPT ![s].pc = "attached"]
      /\ UNCHANGED <<tables, nextId, item, lock>>
      /\ BoundedLeftover'

(* The new version of spider s, with what became of its attachment.        *)
NewVersion(s) ==
  LET path == Attachment(spider[s].policy, spider[s].number)
  IN  [policy |-> spider[s].policy, number |-> spider[s].number,
       title |-> spider[s].page.title, body |-> spider[s].page.body,
       attachment |-> CASE ~spider[s].page.attached -> "none"
                        [] spider[s].page.attached /\ path \in Range(spider[s].created)
                             -> "downloaded"
                        [] OTHER -> "failed"]

(* The named lock belongs to a connection of its own and ends with it.     *)
Released(s) == IF lock = s THEN NoValue ELSE lock

(* Policy, discovery and item after the commit of a page of spider s that   *)
(* belongs to policy p, which then shows version n; the lock is still held. *)
Recorded(s, p, n) ==
  LET page == spider[s].page
  IN  /\ policy' = [policy EXCEPT ![p] =
           [title |-> page.title, number |-> page.number, date |-> page.date,
            current |-> n]]
      /\ discovery' =
           IF \E d \in discovery : d.channel = s /\ d.url = page.url THEN discovery
           ELSE discovery \cup {[channel |-> s, url |-> page.url, policy |-> p]}
      /\ item' = [item EXCEPT ![s] = [@ EXCEPT !.status = "succeeded", !.policy = p]]
      /\ spider' = [spider EXCEPT ![s].pc = "committed"]
      /\ lock' = s

(* Variant: the policy shows what was seen last.                           *)
CurrentSeen(s) ==
  (CHOOSE v \in Showing(spider[s].page) : v.policy = Target(s)).number

(* current_version_id stays when the content is a version already.         *)
CurrentKept(s) == policy[Target(s)].current

(* A page whose content is a version already: the commit of                 *)
(* ingest_and_mark_task_item without a new version.                        *)
CommitKnown(s) ==
  /\ spider[s].pc = "waiting"
  /\ LockFree
  /\ Known(s)
  /\ Recorded(s, Target(s), CurrentKept(s))
  /\ UNCHANGED <<version, enqueued, nextId, file>>

(* The commit with a new version and its evaluation batch.                 *)
CommitNew(s) ==
  /\ spider[s].pc = "attached"
  /\ Recorded(s, spider[s].policy, spider[s].number)
  /\ version' = version \cup {NewVersion(s)}
  /\ enqueued' = IF ~RulePublished THEN enqueued ELSE enqueued \cup
       {[policy |-> spider[s].policy, number |-> spider[s].number]}
  /\ UNCHANGED <<nextId, file>>

(* RELEASE_LOCK and the end of its connection, after the commit.           *)
Release(s) ==
  /\ spider[s].pc = "committed"
  /\ lock' = Released(s)
  /\ spider' = [spider EXCEPT ![s] = Idle]
  /\ UNCHANGED <<tables, nextId, file, item>>

(* The acknowledgement of the commit is lost, or one of these fails; the    *)
(* lock ends with its connection.  The handler that removes the files makes *)
(* no difference between this and a rollback.                              *)
FailAfterCommit(s) ==
  /\ spider[s].pc = "committed"
  /\ lock' = Released(s)
  /\ IF spider[s].created = <<>> THEN MarkFailed(s)
     ELSE spider' = [spider EXCEPT ![s].pc = "revoking"] /\ UNCHANGED item
  /\ UNCHANGED <<tables, nextId, file>>

(* Any other exception under the lock before a file is there: a blank       *)
(* title, a broken date, a lost connection, a full disk; the id of a new    *)
(* policy may be spent by then.                                            *)
Fail(s) ==
  /\ spider[s].pc = "waiting"
  /\ LockFree
  /\ \/ UNCHANGED nextId
     \/ Target(s) = NoValue /\ nextId <= MaxPolicies /\ nextId' = nextId + 1
  /\ MarkFailed(s)
  /\ UNCHANGED <<tables, file, lock>>

(* Or after the first file, such as when there are not three entities to    *)
(* evaluate for.                                                           *)
Rollback(s) ==
  /\ spider[s].pc \in {"stored", "attached"}
  /\ spider' = [spider EXCEPT ![s].pc = "undoing"]
  /\ lock' = Released(s)
  /\ UNCHANGED <<tables, nextId, file, item>>

(* remove_file, in the reverse order of creation; the first that fails ends *)
(* the clean-up.                                                           *)
RemoveFile(s) ==
  LET created == spider[s].created
  IN  /\ spider[s].pc \in {"undoing", "revoking"}
      /\ \/ /\ file' = file \ {created[Len(created)]}
            /\ IF Len(created) = 1 THEN MarkFailed(s)
               ELSE /\ spider' = [spider EXCEPT ![s].created = SubSeq(@, 1, Len(@) - 1)]
                    /\ UNCHANGED item
         \/ MarkFailed(s) /\ UNCHANGED file
      /\ UNCHANGED <<tables, nextId, lock>>
      /\ BoundedLeftover'

(* The collector's container dies, and its spider with it.                 *)
Crash(s) ==
  /\ spider[s].pc # "idle"
  /\ lock' = Released(s)
  /\ spider' = [spider EXCEPT ![s] = Idle]
  /\ UNCHANGED <<tables, nextId, file, item>>
  /\ BoundedLeftover'

-------------------------------------------------------------------------------
SpiderStep(s) ==
  \/ \E page \in Pages : BeginItem(s, page)
  \/ LockTimeout(s)
  \/ SaveSnapshot(s)
  \/ RefuseSnapshot(s)
  \/ SaveAttachment(s)
  \/ CommitKnown(s)
  \/ CommitNew(s)
  \/ Release(s)
  \/ FailAfterCommit(s)
  \/ Fail(s)
  \/ Rollback(s)
  \/ RemoveFile(s)
  \/ Crash(s)

Next == \E s \in Spiders : SpiderStep(s)

Spec == Init /\ [][Next]_vars

-------------------------------------------------------------------------------
(* Properties.                                                             *)

(* Rows, files, items and pipelines have their shapes.                     *)
TypeOK ==
  /\ policy \in [PolicyIds -> Nullable(Policy)]
  /\ nextId \in 1..(MaxPolicies + 1)
  /\ version \subseteq Version
  /\ discovery \subseteq Discovery
  /\ enqueued \subseteq [policy: PolicyIds, number: Numbers]
  /\ file \subseteq Path
  /\ item \in [Spiders -> Nullable(Item)]
  /\ lock \in Nullable(Spiders)
  /\ spider \in [Spiders -> Spider]

(* Design section 9: pages found under one address, by whatever channel and *)
(* however many spiders at once, are one policy; and an item that counts as *)
(* succeeded names the policy its address is known by.                     *)
OnePolicyPerUrl ==
  /\ \A d, e \in discovery :
       /\ d.url = e.url => d.policy = e.policy
       /\ d.url = e.url /\ d.channel = e.channel => d = e
  /\ \A p \in Stored : \E d \in discovery : d.policy = p
  /\ \A s \in Spiders :
       item[s] # NoValue /\ item[s].status = "succeeded" =>
         [channel |-> s, url |-> item[s].url, policy |-> item[s].policy] \in discovery

(* Section 9: the versions of a policy are its history: numbered without a  *)
(* gap, each of another content than the one before; the page shows the    *)
(* newest, and every one of them has its evaluation batch, if there was a   *)
(* rule to evaluate by.                                                    *)
VersionHistory ==
  /\ \A p \in Stored :
       /\ {v.number : v \in VersionsOf(p)} = 1..policy[p].current
       /\ \A v, w \in VersionsOf(p) :
            /\ v.number = w.number => v = w
            /\ v.number + 1 = w.number => v.title # w.title \/ v.body # w.body
  /\ \A v \in version : v.policy \in Stored
  /\ enqueued = IF ~RulePublished THEN {}
                ELSE {[policy |-> v.policy, number |-> v.number] : v \in version}

(* The pipeline of s takes back the version v that it has committed.       *)
Revokes(s, v) ==
  /\ spider[s].pc = "revoking"
  /\ spider[s].policy = v.policy
  /\ spider[s].number = v.number

(* Section 9, "old versions and old snapshots are kept", as far as the code *)
(* keeps it: a committed version has its snapshot and every attachment that *)
(* counts as downloaded, and no spider that cleans up after itself removes  *)
(* one of them, though it does so when others store theirs already; only a *)
(* version whose own pipeline failed after the commit loses them.          *)
CommittedFilesKept ==
  [][\A v \in version' : \A path \in Named(v) :
       \/ path \in file'
       \/ v \in version /\ path \notin file
       \/ \E s \in Spiders : Revokes(s, v)]_vars
===============================================================================
