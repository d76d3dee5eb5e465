------------------------- MODULE PolicyIngestionProofs -------------------------
(***************************************************************************)
(* Proofs about PolicyIngestion, for any number of spiders over any site,   *)
(* dying at any step.                                                      *)
(***************************************************************************)
EXTENDS PolicyIngestion, WellFoundedInduction, SequenceTheorems, TLAPS

-------------------------------------------------------------------------------
(* The inductive invariant.                                                *)

(* A pipeline w that has stored files which no row names, one of these that *)
(* is still under the lock, and one that has committed what it has stored. *)
Carrying(w) == w.pc \in {"stored", "attached", "undoing"}
Working(w) == w.pc \in {"stored", "attached"}
Committed(w) == w.pc = "revoking" \/ (w.pc = "committed" /\ w.created # <<>>)

(* The paths of one version are made by one pipeline only.                  *)
Apart(w, v) == w.policy # v.policy \/ w.number # v.number

(* The files of a pipeline: the snapshot, then perhaps the attachment, of   *)
(* the version it prepares.                                                *)
FilesOf(w, files) ==
  LET snapshot == Snapshot(w.policy, w.number)
      attachment == Attachment(w.policy, w.number)
  IN  /\ w.policy \in PolicyIds /\ w.number \in Numbers
      /\ snapshot \in files
      /\ \/ w.created = <<snapshot>>
         \/ /\ w.pc # "stored"
            /\ w.created = <<snapshot, attachment>>
            /\ attachment \in files

(* The files of a pipeline that has committed their version.               *)
VersionOf(w, versions) ==
  /\ w.policy \in PolicyIds /\ w.number \in Numbers
  /\ \/ w.created = <<Snapshot(w.policy, w.number)>>
     \/ w.created = <<Snapshot(w.policy, w.number), Attachment(w.policy, w.number)>>
  /\ \E v \in versions : ~Apart(w, v)

(* What a pipeline under the lock has found out is still so: the version it *)
(* prepares is the next one of the policy its page belongs to.             *)
FoundHolds(s) ==
  /\ lock = s
  /\ spider[s].number = NextNumber(spider[s].policy)
  /\ spider[s].policy < nextId
  /\ ~Known(s)
  /\ IF Target(s) = NoValue THEN spider[s].policy \notin Stored
                            ELSE spider[s].policy = Target(s)

(* Every pipeline has its page, its task item and its files.                *)
PipelinesFit ==
  \A s \in Spiders :
    /\ spider[s].pc # "idle" =>
         /\ spider[s].page \in Pages
         /\ item[s] # NoValue /\ item[s].url = spider[s].page.url
    /\ spider[s].pc = "waiting" => spider[s].created = <<>>
    /\ Carrying(spider[s]) => FilesOf(spider[s], file)
    /\ Committed(spider[s]) => VersionOf(spider[s], version)
    /\ Working(spider[s]) => FoundHolds(s)

(* No two pipelines, and no pipeline and no version, share a path.          *)
PathsApart ==
  \A s \in Spiders : Carrying(spider[s]) =>
    /\ \A t \in Spiders \ {s} : Carrying(spider[t]) => Apart(spider[s], spider[t])
    /\ \A v \in version : Apart(spider[s], v)

(* Rows name rows that exist, and ids that were given out.                  *)
RowsStored ==
  /\ \A d \in discovery : d.policy \in Stored
  /\ \A p \in Stored : p < nextId

(* All of it.                                                              *)
IInv ==
  /\ TypeOK
  /\ OnePolicyPerUrl
  /\ VersionHistory
  /\ PipelinesFit
  /\ PathsApart
  /\ RowsStored

-------------------------------------------------------------------------------
(* Numbers and matches.                                                    *)

(* A set of numbers has its least one.                                      *)
LEMMA LeastNumber ==
  ASSUME NEW S \in SUBSET Nat, S # {}
  PROVE  Min(S) \in S /\ \A y \in S : Min(S) <= y
<1> DEFINE R == {ss \in Nat \X Nat : ss[1] < ss[2]}
<1>1. R = OpToRel(<, Nat)
  BY DEF OpToRel
<1>2. IsWellFoundedOn(R, Nat)
  BY <1>1, NatLessThanWellFounded
<1>3. PICK x \in S : \A y \in S : <<y, x>> \notin R
  BY <1>2, WFMin
<1>4. \A y \in S : ~(y < x)
  <2> TAKE y \in S
  <2>1. <<y, x>> \notin {ss \in Nat \X Nat : ss[1] < ss[2]}
    BY <1>3
  <2> QED BY <2>1
<1>5. \A y \in S : x <= y
  BY <1>4
<1> QED BY <1>5, Zenon DEF Min

(* The greatest number of a gapless series, or 0 of an empty one.           *)
LEMMA GreatestNumber ==
  ASSUME NEW m \in Nat
  PROVE  Max((1..m) \cup {0}) = m
<1> DEFINE S == (1..m) \cup {0}
<1>1. m \in S /\ \A y \in S : m >= y
  OBVIOUS
<1>2. \A x \in S : (\A y \in S : x >= y) => x = m
  OBVIOUS
<1>3. Max(S) \in S /\ \A y \in S : Max(S) >= y
  <2> HIDE DEF S
  <2> QED BY <1>1, Zenon DEF Max
<1> QED BY <1>2, <1>3

(* Lists of one and two.                                                    *)
LEMMA ShortLists ==
  ASSUME NEW a, NEW b
  PROVE  /\ Append(<<a>>, b) = <<a, b>>
         /\ SubSeq(<<a, b>>, 1, 1) = <<a>>
<1> DEFINE one == <<a>>
           two == <<a, b>>
<1>1. /\ one \in Seq({a, b}) /\ Len(one) = 1 /\ one[1] = a
      /\ two \in Seq({a, b}) /\ Len(two) = 2 /\ two[1] = a /\ two[2] = b
  OBVIOUS
<1> HIDE DEF one, two
<1>2. Append(one, b) = two
  <2> DEFINE s == Append(one, b)
  <2>1. s \in Seq({a, b}) /\ Len(s) = 2 /\ s[1] = a /\ s[2] = b
    <3>1. b \in {a, b} /\ one \in Seq({a, b})
      BY <1>1
    <3>2. /\ s \in Seq({a, b})
          /\ Len(s) = Len(one) + 1
          /\ \A i \in 1..Len(one) : s[i] = one[i]
          /\ s[Len(one) + 1] = b
      BY <3>1, AppendProperties
    <3> HIDE DEF s
    <3> QED BY <1>1, <3>2
  <2> HIDE DEF s
  <2>2. \A i \in 1..Len(s) : s[i] = two[i]
    BY <1>1, <2>1
  <2>3. s = two
    BY <1>1, <2>1, <2>2, SeqEqual
  <2> QED BY <2>3 DEF s
<1>3. SubSeq(two, 1, 1) = one
  <2> DEFINE s == SubSeq(two, 1, 1)
  <2>1. s \in Seq({a, b}) /\ Len(s) = 1 /\ s[1] = a
    BY <1>1, SubSeqProperties
  <2> HIDE DEF s
  <2>2. \A i \in 1..Len(s) : s[i] = one[i]
    BY <1>1, <2>1
  <2>3. s = one
    BY <1>1, <2>1, <2>2, SeqEqual
  <2> QED BY <2>3 DEF s
<1> QED BY <1>2, <1>3 DEF one, two

(* The next number of a policy is one more than the number it shows; that   *)
(* of a policy without a row is 1.                                         *)
LEMMA NextNumberIs ==
  ASSUME TypeOK, VersionHistory, NEW p \in PolicyIds
  PROVE  /\ p \in Stored => /\ policy[p].current \in Nat
                            /\ NextNumber(p) = policy[p].current + 1
         /\ p \notin Stored => VersionsOf(p) = {} /\ NextNumber(p) = 1
         /\ NextNumber(p) \in Numbers
         /\ \A v \in VersionsOf(p) : v.number \in Nat /\ v.number < NextNumber(p)
<1>1. CASE p \in Stored
  <2>1. policy[p].current \in Nat
    BY <1>1 DEF TypeOK, Stored, Nullable, Policy, Numbers
  <2>2. {v.number : v \in VersionsOf(p)} = 1..policy[p].current
    BY <1>1 DEF VersionHistory
  <2>3. NextNumber(p) = policy[p].current + 1
    BY <2>1, <2>2, GreatestNumber DEF NextNumber
  <2>4. \A v \in VersionsOf(p) : v.number \in 1..policy[p].current
    BY <2>2
  <2> QED BY <1>1, <2>1, <2>3, <2>4 DEF Numbers
<1>2. CASE p \notin Stored
  <2>1. VersionsOf(p) = {}
    BY <1>2 DEF VersionHistory, VersionsOf
  <2>2. {v.number : v \in VersionsOf(p)} \cup {0} = (1..0) \cup {0}
    BY <2>1
  <2>3. NextNumber(p) = 1
    BY <2>2, GreatestNumber DEF NextNumber
  <2> QED BY <1>2, <2>1, <2>3 DEF Numbers
<1> QED BY <1>1, <1>2

(* A page belongs to a policy that has a row, or to none; and to the policy *)
(* its address is known by, if it is.                                      *)
LEMMA Matched ==
  ASSUME TypeOK, RowsStored, NEW page
  PROVE  /\ MatchPolicy(page) # NoValue => MatchPolicy(page) \in Stored
         /\ ByUrl(page) # {} => MatchPolicy(page) \in ByUrl(page)
<1> DEFINE tried == <<ByUrl(page), ByNumber(page), ByTitleAndDate(page),
                      ByContent(page)>>
           found == {i \in DOMAIN tried : tried[i] # {}}
<1>1. /\ ByUrl(page) \subseteq Stored /\ ByNumber(page) \subseteq Stored
      /\ ByTitleAndDate(page) \subseteq Stored /\ ByContent(page) \subseteq Stored
  BY DEF RowsStored, ByUrl, ByNumber, ByTitleAndDate, ByContent
<1>2. Stored \subseteq Nat
  BY BoundsAssumption DEF Stored, PolicyIds
<1>3. DOMAIN tried = 1..4
      /\ tried[1] = ByUrl(page)
      /\ \A i \in 1..4 : tried[i] \subseteq Stored
  BY <1>1
<1>4. MatchPolicy(page) =
        IF found = {} THEN NoValue ELSE Min(tried[Min(found)])
  BY DEF MatchPolicy
<1> HIDE DEF tried
<1>5. ASSUME found # {}
      PROVE  Min(found) \in found /\ \A i \in found : Min(found) <= i
  BY <1>3, <1>5, LeastNumber
<1>6. ASSUME found # {}
      PROVE  Min(tried[Min(found)]) \in tried[Min(found)]
  <2>1. tried[Min(found)] \in SUBSET Nat /\ tried[Min(found)] # {}
    BY <1>2, <1>3, <1>5, <1>6
  <2> QED BY <2>1, LeastNumber
<1>7. MatchPolicy(page) # NoValue => MatchPolicy(page) \in Stored
  BY <1>3, <1>4, <1>5, <1>6
<1>8. ASSUME ByUrl(page) # {}  PROVE MatchPolicy(page) \in ByUrl(page)
  <2>1. 1 \in found
    BY <1>3, <1>8
  <2>2. Min(found) = 1
    <3>1. \A i \in found : i \in 1..4
      BY <1>3
    <3>2. Min(found) \in found /\ Min(found) <= 1
      BY <1>5, <2>1
    <3> HIDE DEF found
    <3> QED BY <3>1, <3>2
  <2> QED BY <1>3, <1>4, <1>6, <2>1, <2>2
<1> QED BY <1>7, <1>8

-------------------------------------------------------------------------------
(* Steps that leave the tables alone.                                      *)

(* What is found out about a page depends on the tables only.               *)
LEMMA TargetKept ==
  ASSUME NEW s \in Spiders, UNCHANGED tables, spider'[s].page = spider[s].page
  PROVE  /\ Stored' = Stored
         /\ Target(s)' = Target(s)
         /\ Known(s)' <=> Known(s)
<1>1. policy' = policy /\ version' = version /\ discovery' = discovery
  BY DEF tables
<1>2. Stored' = Stored
  BY <1>1 DEF Stored
<1>3. Target(s)' = Target(s)
  BY <1>1, <1>2
     DEF Target, MatchPolicy, ByUrl, ByNumber, ByTitleAndDate, ByContent, Showing
<1>4. Known(s)' <=> Known(s)
  BY <1>1, <1>3 DEF Known, Showing
<1> QED BY <1>2, <1>3, <1>4

(* A working pipeline does not lose what it found out.                      *)
LEMMA FoundKept ==
  ASSUME IInv, NEW s \in Spiders, Working(spider[s]), UNCHANGED tables,
         spider'[s].page = spider[s].page, spider'[s].policy = spider[s].policy,
         spider'[s].number = spider[s].number,
         lock' = s, nextId' \in Nat, nextId' >= nextId
  PROVE  FoundHolds(s)'
<1>1. FoundHolds(s)
  BY DEF IInv, PipelinesFit
<1>2. Stored' = Stored /\ Target(s)' = Target(s) /\ (Known(s)' <=> Known(s))
  BY TargetKept
<1>3. NextNumber(spider[s].policy)' = NextNumber(spider[s].policy)
  BY DEF NextNumber, VersionsOf, tables
<1>4. spider[s].policy < nextId'
  <2>1. spider[s].policy \in Nat /\ nextId \in Nat
    BY BoundsAssumption
       DEF IInv, TypeOK, PipelinesFit, Working, Carrying, FilesOf, PolicyIds
  <2> QED BY <1>1, <2>1 DEF FoundHolds
<1> QED BY <1>1, <1>2, <1>3, <1>4 DEF FoundHolds

(* A pipeline that moves on without a commit keeps the invariant, if it     *)
(* keeps its own page and item, removes no file but its own, writes none    *)
(* that belongs to anyone, and leaves the lock to the one that works.      *)
LEMMA QuietStep ==
  ASSUME IInv, NEW t \in Spiders, NEW w \in Spider, UNCHANGED tables,
         spider' = [spider EXCEPT ![t] = w],
         nextId' \in 1..(MaxPolicies + 1), nextId' >= nextId,
         file' \subseteq Path, lock' \in Nullable(Spiders),
         item' \in [Spiders -> Nullable(Item)],
         \A s \in Spiders \ {t} : item'[s] = item[s],
         item'[t] # NoValue /\ item'[t].status = "succeeded" => item'[t] = item[t],
         w.pc # "idle" => /\ w.page \in Pages
                          /\ item'[t] # NoValue /\ item'[t].url = w.page.url,
         w.pc = "waiting" => w.created = <<>>,
         Committed(w) => VersionOf(w, version),
         \A s \in Spiders \ {t} : Working(spider[s]) => lock' = s,
         Carrying(w) =>
           /\ FilesOf(w, file')
           /\ \A s \in Spiders \ {t} : Carrying(spider[s]) => Apart(w, spider[s])
           /\ \A v \in version : Apart(w, v),
         Working(w) => FoundHolds(t)',
         \A path \in file \ file' :
           /\ Carrying(spider[t]) \/ Committed(spider[t])
           /\ path.policy = spider[t].policy /\ path.number = spider[t].number
  PROVE  IInv'
<1>1. /\ policy' = policy /\ version' = version
      /\ discovery' = discovery /\ enqueued' = enqueued
  BY DEF tables
<1>2. spider \in [Spiders -> Spider] /\ Stored' = Stored
  BY <1>1 DEF IInv, TypeOK, Stored
<1>3. spider'[t] = w /\ \A s \in Spiders \ {t} : spider'[s] = spider[s]
  BY <1>2
<1>4. TypeOK'
  BY <1>1, <1>2 DEF IInv, TypeOK
<1>5. OnePolicyPerUrl'
  <2>1. \A s \in Spiders : item'[s] # NoValue /\ item'[s].status = "succeeded"
          => item'[s] = item[s]
    OBVIOUS
  <2> QED BY <1>1, <1>2, <2>1 DEF IInv, OnePolicyPerUrl
<1>6. VersionHistory'
  BY <1>1, <1>2 DEF IInv, VersionHistory, VersionsOf
<1>7. ASSUME NEW s \in Spiders \ {t}, Carrying(spider[s])
      PROVE  Carrying(spider[t]) \/ Committed(spider[t]) => Apart(spider[t], spider[s])
  <2>1. CASE Carrying(spider[t])
    BY <1>7, <2>1 DEF IInv, PathsApart
  <2>2. CASE Committed(spider[t])
    <3>1. PICK v \in version : ~Apart(spider[t], v)
      BY <2>2 DEF IInv, PipelinesFit, VersionOf
    <3>2. Apart(spider[s], v)
      BY <1>7 DEF IInv, PathsApart
    <3> QED BY <3>1, <3>2 DEF Apart
  <2> QED BY <2>1, <2>2
<1>8. ASSUME NEW s \in Spiders \ {t}, Carrying(spider[s]),
             NEW path \in file, path \notin file'
      PROVE  path.policy # spider[s].policy \/ path.number # spider[s].number
  BY <1>7, <1>8 DEF Apart
<1>9. ASSUME NEW s \in Spiders \ {t}, Carrying(spider[s])
      PROVE  FilesOf(spider[s], file')
  <2>1. FilesOf(spider[s], file)
    BY <1>9 DEF IInv, PipelinesFit
  <2>2. Snapshot(spider[s].policy, spider[s].number) \in file'
    BY <1>8, <1>9, <2>1 DEF FilesOf, Snapshot
  <2>3. Attachment(spider[s].policy, spider[s].number) \in file
          => Attachment(spider[s].policy, spider[s].number) \in file'
    BY <1>8, <1>9 DEF Attachment
  <2> QED BY <2>1, <2>2, <2>3 DEF FilesOf
<1>10. PipelinesFit'
  <2> SUFFICES ASSUME NEW s \in Spiders
               PROVE  /\ spider'[s].pc # "idle" =>
                           /\ spider'[s].page \in Pages
                           /\ item'[s] # NoValue /\ item'[s].url = spider'[s].page.url
                      /\ spider'[s].pc = "waiting" => spider'[s].created = <<>>
                      /\ Carrying(spider'[s]) => FilesOf(spider'[s], file')
                      /\ Committed(spider'[s]) => VersionOf(spider'[s], version')
                      /\ Working(spider'[s]) => FoundHolds(s)'
    BY DEF PipelinesFit
  <2>1. CASE s = t
    BY <1>1, <1>3, <2>1
  <2>2. CASE s # t
    <3>1. spider'[s] = spider[s] /\ item'[s] = item[s]
      BY <1>3, <2>2
    <3>2. /\ spider[s].pc # "idle" =>
               /\ spider[s].page \in Pages
               /\ item[s] # NoValue /\ item[s].url = spider[s].page.url
          /\ spider[s].pc = "waiting" => spider[s].created = <<>>
          /\ Committed(spider[s]) => VersionOf(spider[s], version)
      BY DEF IInv, PipelinesFit
    <3>3. Working(spider[s]) => FoundHolds(s)'
      BY <2>2, <3>1, FoundKept
    <3> QED BY <1>1, <1>9, <2>2, <3>1, <3>2, <3>3
  <2> QED BY <2>1, <2>2
<1>11. PathsApart'
  <2> SUFFICES ASSUME NEW s \in Spiders, Carrying(spider'[s])
               PROVE  /\ \A r \in Spiders \ {s} :
                           Carrying(spider'[r]) => Apart(spider'[s], spider'[r])
                      /\ \A v \in version : Apart(spider'[s], v)
    BY <1>1 DEF PathsApart
  <2>1. CASE s = t
    BY <1>3, <2>1
  <2>2. CASE s # t
    <3>1. spider'[s] = spider[s] /\ Carrying(spider[s])
      BY <1>3, <2>2
    <3>2. /\ \A r \in Spiders \ {s} :
               Carrying(spider[r]) => Apart(spider[s], spider[r])
          /\ \A v \in version : Apart(spider[s], v)
      BY <3>1 DEF IInv, PathsApart
    <3>3. Carrying(w) => Apart(spider[s], w)
      BY <2>2, <3>1 DEF Apart
    <3> QED BY <1>3, <2>2, <3>1, <3>2, <3>3
  <2> QED BY <2>1, <2>2
<1>12. RowsStored'
  <2>1. \A p \in Stored : p \in Nat
    BY BoundsAssumption DEF Stored, PolicyIds
  <2>2. nextId \in Nat /\ nextId' \in Nat
    BY BoundsAssumption DEF IInv, TypeOK
  <2> QED BY <1>1, <1>2, <2>1, <2>2 DEF IInv, RowsStored
<1> QED BY <1>4, <1>5, <1>6, <1>10, <1>11, <1>12 DEF IInv

(* What the invariant says of the spider that takes a step.                 *)
LEMMA OneSpider ==
  ASSUME IInv, NEW t \in Spiders
  PROVE  /\ spider \in [Spiders -> Spider] /\ spider[t] \in Spider
         /\ item \in [Spiders -> Nullable(Item)]
         /\ nextId \in 1..(MaxPolicies + 1) /\ nextId \in Nat
         /\ file \subseteq Path /\ lock \in Nullable(Spiders)
         /\ spider[t].pc # "idle" =>
              /\ spider[t].page \in Pages
              /\ item[t] \in Item /\ item[t] # NoValue
              /\ item[t].url = spider[t].page.url
         /\ Carrying(spider[t]) =>
              /\ FilesOf(spider[t], file)
              /\ \A s \in Spiders \ {t} :
                   Carrying(spider[s]) => Apart(spider[t], spider[s])
              /\ \A v \in version : Apart(spider[t], v)
         /\ spider[t].pc = "waiting" => spider[t].created = <<>>
         /\ Committed(spider[t]) => VersionOf(spider[t], version)
         /\ Working(spider[t]) => FoundHolds(t)
         /\ \A s \in Spiders : Working(spider[s]) => lock = s
         /\ LockFree => \A s \in Spiders : ~Working(spider[s])
<1>1. \A s \in Spiders : Working(spider[s]) => lock = s
  BY DEF IInv, PipelinesFit, FoundHolds
<1>2. LockFree => \A s \in Spiders : ~Working(spider[s])
  BY <1>1, NoValueAssumption DEF LockFree
<1> QED BY <1>1, <1>2, BoundsAssumption
        DEF IInv, TypeOK, PipelinesFit, PathsApart, Nullable

(* A pipeline at rest.                                                      *)
LEMMA Resting ==
  /\ Idle \in Spider /\ Idle.pc = "idle"
  /\ ~Carrying(Idle) /\ ~Working(Idle) /\ ~Committed(Idle)
BY DEF Idle, Spider, Nullable, Carrying, Working, Committed

(* A pipeline that gives up or dies leaves its files for nobody.            *)
LEMMA RestStep ==
  ASSUME IInv, NEW t \in Spiders, UNCHANGED tables,
         spider' = [spider EXCEPT ![t] = Idle],
         item' = item \/ /\ spider[t].pc # "idle"
                         /\ item' = [item EXCEPT ![t].status = "failed"],
         nextId' \in 1..(MaxPolicies + 1), nextId' >= nextId,
         lock' \in {lock, Released(t)},
         file' \subseteq Path,
         \A s \in Spiders \ {t} : Working(spider[s]) => lock' = s,
         \A path \in file \ file' :
           /\ Carrying(spider[t]) \/ Committed(spider[t])
           /\ path.policy = spider[t].policy /\ path.number = spider[t].number
  PROVE  IInv'
<1>1. lock' \in Nullable(Spiders)
  BY OneSpider DEF Released, Nullable
<1>2. /\ item' \in [Spiders -> Nullable(Item)]
      /\ \A s \in Spiders \ {t} : item'[s] = item[s]
      /\ item'[t] # NoValue /\ item'[t].status = "succeeded" => item'[t] = item[t]
  <2>1. CASE item' = item
    BY <2>1, OneSpider
  <2>2. CASE spider[t].pc # "idle" /\ item' = [item EXCEPT ![t].status = "failed"]
    <3>1. item[t] \in Item /\ item \in [Spiders -> Nullable(Item)]
      BY <2>2, OneSpider
    <3>2. [item[t] EXCEPT !.status = "failed"] \in Item
      BY <3>1 DEF Item
    <3>3. item'[t].status = "failed"
      BY <2>2, <3>1 DEF Item
    <3> QED BY <2>2, <3>1, <3>2, <3>3 DEF Nullable
  <2> QED BY <2>1, <2>2
<1>3. /\ Idle \in Spider /\ Idle.pc = "idle"
      /\ ~Carrying(Idle) /\ ~Working(Idle) /\ ~Committed(Idle)
  BY Resting
<1> QED BY <1>1, <1>2, <1>3, QuietStep

(* The steps that end without a commit.                                     *)
LEMMA GivingUpKeeps ==
  ASSUME IInv, NEW t \in Spiders,
         \/ LockTimeout(t) \/ RefuseSnapshot(t) \/ Fail(t) \/ Crash(t)
         \/ Release(t)
         \/ FailAfterCommit(t) /\ spider[t].created = <<>>
  PROVE  IInv'
<1>1. /\ UNCHANGED tables /\ file' = file
      /\ spider' = [spider EXCEPT ![t] = Idle]
      /\ spider[t].pc # "idle"
      /\ item' = item \/ item' = [item EXCEPT ![t].status = "failed"]
      /\ lock' \in {lock, Released(t)}
  BY DEF LockTimeout, RefuseSnapshot, Fail, Crash, Release, FailAfterCommit, MarkFailed
<1>2. nextId' \in 1..(MaxPolicies + 1) /\ nextId' >= nextId
  <2>1. nextId' = nextId \/ (nextId <= MaxPolicies /\ nextId' = nextId + 1)
    BY DEF LockTimeout, RefuseSnapshot, Fail, Crash, Release, FailAfterCommit
  <2> QED BY <2>1, OneSpider, BoundsAssumption
<1>3. file' \subseteq Path /\ \A s \in Spiders \ {t} : Working(spider[s]) => lock' = s
  BY <1>1, OneSpider DEF Released
<1> QED BY <1>1, <1>2, <1>3, RestStep

(* A page is taken up.                                                      *)
LEMMA BeginKeeps ==
  ASSUME IInv, NEW t \in Spiders, NEW page \in Pages, BeginItem(t, page)
  PROVE  IInv'
<1> DEFINE w == [Idle EXCEPT !.pc = "waiting", !.page = page]
           new == [url |-> page.url, status |-> "pending", policy |-> NoValue]
<1>1. /\ w \in Spider /\ w.pc = "waiting" /\ w.page = page /\ w.created = <<>>
  BY Resting DEF Spider, Nullable, Idle
<1>2. new \in Item /\ new.url = page.url /\ new.status = "pending"
  BY DEF Item, Urls, Nullable
<1> HIDE DEF w, new
<1>3. /\ UNCHANGED tables /\ nextId' = nextId /\ file' = file /\ lock' = lock
      /\ spider' = [spider EXCEPT ![t] = w]
      /\ \/ item' = [item EXCEPT ![t] = new]
         \/ item[t] # NoValue /\ item[t].url = page.url /\ item' = item
  BY DEF BeginItem, Met, w, new
<1>4. /\ item' \in [Spiders -> Nullable(Item)]
      /\ \A s \in Spiders \ {t} : item'[s] = item[s]
      /\ item'[t] # NoValue /\ item'[t].status = "succeeded" => item'[t] = item[t]
      /\ item'[t] # NoValue /\ item'[t].url = page.url
  BY <1>2, <1>3, OneSpider, NoValueAssumption DEF Nullable
<1>5. ~Carrying(w) /\ ~Working(w) /\ ~Committed(w)
  BY <1>1 DEF Carrying, Working, Committed
<1>6. nextId' \in 1..(MaxPolicies + 1) /\ nextId' >= nextId /\ file' \subseteq Path
      /\ lock' \in Nullable(Spiders)
      /\ \A s \in Spiders \ {t} : Working(spider[s]) => lock' = s
  BY <1>3, OneSpider
<1> QED BY <1>1, <1>3, <1>4, <1>5, <1>6, QuietStep

(* The snapshot of a new version is written at a free path, by the one      *)
(* spider that has the lock; or written and given up.                      *)
LEMMA SaveSnapshotKeeps ==
  ASSUME IInv, NEW t \in Spiders, SaveSnapshot(t)
  PROVE  IInv'
<1> DEFINE p == RowFor(t)
           n == NextNumber(p)
           path == Snapshot(p, n)
           pc == IF spider[t].page.attached THEN "stored" ELSE "attached"
           w == [spider[t] EXCEPT !.pc = pc, !.policy = p, !.number = n,
                                  !.created = <<path>>]
<1>1. /\ spider[t].pc = "waiting" /\ LockFree /\ ~Known(t)
      /\ p <= MaxPolicies /\ path \notin file
      /\ nextId' = IF Target(t) = NoValue THEN nextId + 1 ELSE nextId
      /\ file' = file \cup {path}
      /\ UNCHANGED tables
      /\ \/ lock' = t /\ spider' = [spider EXCEPT ![t] = w] /\ UNCHANGED item
         \/ MarkFailed(t) /\ UNCHANGED lock
  BY DEF SaveSnapshot, Snapshot, Free
<1>2. /\ spider[t] \in Spider /\ spider \in [Spiders -> Spider]
      /\ spider[t].page \in Pages
      /\ nextId \in 1..(MaxPolicies + 1) /\ nextId \in Nat
  BY <1>1, OneSpider
<1>3. TypeOK /\ VersionHistory /\ RowsStored
  BY DEF IInv
<1>4. /\ p \in PolicyIds /\ p < nextId'
      /\ IF Target(t) = NoValue THEN p \notin Stored ELSE p = Target(t)
      /\ nextId' \in 1..(MaxPolicies + 1) /\ nextId' >= nextId
  <2>1. Target(t) # NoValue => Target(t) \in Stored
    BY <1>3, Matched DEF Target
  <2>2. \A q \in Stored : q \in PolicyIds /\ q < nextId
    BY <1>3 DEF RowsStored, Stored
  <2>3. CASE Target(t) = NoValue
    <3>1. p = nextId /\ nextId <= MaxPolicies /\ nextId' = nextId + 1
      BY <1>1, <2>3 DEF RowFor
    <3> HIDE DEF p
    <3>2. nextId \notin Stored
      BY <1>2, <2>2
    <3> QED BY <1>2, <2>3, <3>1, <3>2, BoundsAssumption DEF PolicyIds
  <2>4. CASE Target(t) # NoValue
    <3>1. p = Target(t) /\ nextId' = nextId
      BY <1>1, <2>4 DEF RowFor
    <3> HIDE DEF p
    <3> QED BY <1>2, <2>1, <2>2, <2>4, <3>1
  <2> QED BY <2>3, <2>4
<1> HIDE DEF p
<1>5. n \in Numbers /\ \A v \in VersionsOf(p) : v.number \in Nat /\ v.number < n
  BY <1>3, <1>4, NextNumberIs
<1>6. path = [policy |-> p, number |-> n, kind |-> "snapshot"] /\ path \in Path
  BY <1>4, <1>5 DEF Snapshot, Path
<1>7. pc \in {"stored", "attached"}
  OBVIOUS
<1> HIDE DEF n, path, pc
<1>8. /\ w \in Spider /\ w.pc = pc /\ w.page = spider[t].page
      /\ w.policy = p /\ w.number = n /\ w.created = <<path>>
  <2>1. <<path>> \in Seq(Path)
    BY <1>6
  <2> QED BY <1>2, <1>4, <1>5, <1>7, <2>1 DEF Spider, Nullable
<1> HIDE DEF w
<1>9. FilesOf(w, file')
  BY <1>1, <1>4, <1>5, <1>8 DEF FilesOf, path
<1>10. ASSUME NEW s \in Spiders \ {t}, Carrying(spider[s])
       PROVE  Apart(w, spider[s])
  <2>1. Snapshot(spider[s].policy, spider[s].number) \in file
    BY <1>10, OneSpider DEF FilesOf
  <2> QED BY <1>1, <1>8, <2>1 DEF Apart, path
<1>11. ASSUME NEW v \in version  PROVE Apart(w, v)
  BY <1>5, <1>8 DEF Apart, VersionsOf, Numbers
<1>12. CASE lock' = t /\ spider' = [spider EXCEPT ![t] = w] /\ UNCHANGED item
  <2>1. FoundHolds(t)'
    <3>1. spider'[t] = w
      BY <1>2, <1>12
    <3>2. Stored' = Stored /\ Target(t)' = Target(t) /\ (Known(t)' <=> Known(t))
      BY <1>1, <1>8, <3>1, TargetKept
    <3>3. spider'[t].policy = p /\ spider'[t].number = n
      BY <1>8, <3>1
    <3>4. NextNumber(spider[t].policy)' = n
      BY <1>1, <3>3 DEF n, NextNumber, VersionsOf, tables
    <3> QED BY <1>1, <1>4, <1>12, <3>2, <3>3, <3>4 DEF FoundHolds
  <2>2. /\ file' \subseteq Path /\ lock' \in Nullable(Spiders)
        /\ item' \in [Spiders -> Nullable(Item)]
        /\ item'[t] # NoValue /\ item'[t].url = w.page.url /\ w.page \in Pages
        /\ \A s \in Spiders \ {t} : ~Working(spider[s])
    BY <1>1, <1>6, <1>8, <1>12, OneSpider DEF Nullable
  <2>3. w.pc # "waiting" /\ ~Committed(w)
    BY <1>7, <1>8 DEF Committed
  <2> QED BY <1>1, <1>4, <1>8, <1>9, <1>10, <1>11, <1>12, <2>1, <2>2, <2>3, QuietStep
<1>13. CASE MarkFailed(t) /\ UNCHANGED lock
  <2>1. /\ spider' = [spider EXCEPT ![t] = Idle] /\ spider[t].pc # "idle"
        /\ item' = item \/ item' = [item EXCEPT ![t].status = "failed"]
        /\ file' \subseteq Path /\ file \subseteq file'
        /\ lock' \in {lock, Released(t)}
        /\ \A s \in Spiders \ {t} : ~Working(spider[s])
    BY <1>1, <1>6, <1>13, OneSpider DEF MarkFailed
  <2> QED BY <1>1, <1>4, <2>1, RestStep
<1> QED BY <1>1, <1>12, <1>13

(* The attachment is downloaded, or not, or known not to be.                *)
LEMMA SaveAttachmentKeeps ==
  ASSUME IInv, NEW t \in Spiders, SaveAttachment(t)
  PROVE  IInv'
<1> DEFINE p == spider[t].policy
           n == spider[t].number
           path == Attachment(p, n)
           w == spider'[t]
<1>1. /\ spider[t].pc = "stored" /\ spider[t] \in Spider
      /\ spider \in [Spiders -> Spider]
      /\ Carrying(spider[t]) /\ Working(spider[t])
      /\ UNCHANGED <<tables, nextId, item, lock>>
  BY OneSpider DEF SaveAttachment, Carrying, Working
<1>2. /\ FilesOf(spider[t], file)
      /\ spider[t].created = <<Snapshot(p, n)>>
      /\ p \in PolicyIds /\ n \in Numbers
  BY <1>1, OneSpider DEF FilesOf
<1>3. path \in Path
  BY <1>2 DEF Attachment, Path
<1>4. \/ /\ file' = file \cup {path}
         /\ spider' = [spider EXCEPT ![t].pc = "attached",
                                     ![t].created = Append(@, path)]
      \/ /\ file' \in {file, file \cup {path}}
         /\ spider' = [spider EXCEPT ![t].pc = "attached"]
  BY DEF SaveAttachment
<1>5. /\ w \in Spider /\ w.pc = "attached" /\ w.page = spider[t].page
      /\ w.policy = p /\ w.number = n
      /\ \/ w.created = <<Snapshot(p, n)>>
         \/ w.created = <<Snapshot(p, n), path>> /\ path \in file'
      /\ spider' = [spider EXCEPT ![t] = w]
      /\ file \subseteq file' /\ file' \subseteq Path
  <2>1. CASE /\ file' = file \cup {path}
             /\ spider' = [spider EXCEPT ![t].pc = "attached",
                                         ![t].created = Append(@, path)]
    <3> DEFINE x == [spider[t] EXCEPT !.pc = "attached",
                                      !.created = Append(spider[t].created, path)]
    <3>1. Append(spider[t].created, path) = <<Snapshot(p, n), path>>
      BY <1>2, ShortLists
    <3>2. Append(spider[t].created, path) \in Seq(Path)
      BY <1>1, <1>3 DEF Spider
    <3>3. /\ x \in Spider /\ x.pc = "attached" /\ x.page = spider[t].page
          /\ x.policy = p /\ x.number = n
          /\ x.created = Append(spider[t].created, path)
      BY <1>1, <3>2 DEF Spider
    <3>4. w = x /\ spider' = [spider EXCEPT ![t] = w]
      BY <1>1, <2>1
    <3> HIDE DEF x, w, path
    <3> QED BY <1>3, <2>1, <3>1, <3>3, <3>4, OneSpider
  <2>2. CASE /\ file' \in {file, file \cup {path}}
             /\ spider' = [spider EXCEPT ![t].pc = "attached"]
    <3> DEFINE x == [spider[t] EXCEPT !.pc = "attached"]
    <3>1. /\ x \in Spider /\ x.pc = "attached" /\ x.page = spider[t].page
          /\ x.policy = p /\ x.number = n
          /\ x.created = spider[t].created
      BY <1>1 DEF Spider
    <3>2. w = x /\ spider' = [spider EXCEPT ![t] = w]
      BY <1>1, <2>2
    <3> HIDE DEF x, w, path
    <3> QED BY <1>2, <1>3, <2>2, <3>1, <3>2, OneSpider
  <2> QED BY <1>4, <2>1, <2>2
<1> HIDE DEF w
<1>6. FilesOf(w, file')
  BY <1>2, <1>5 DEF FilesOf
<1>7. /\ \A s \in Spiders \ {t} : Carrying(spider[s]) => Apart(w, spider[s])
      /\ \A v \in version : Apart(w, v)
  BY <1>1, <1>5, OneSpider DEF Apart
<1>8. FoundHolds(t)'
  <2>1. lock = t /\ nextId' = nextId /\ nextId \in Nat
    BY <1>1, OneSpider
  <2>2. spider'[t] = w
    BY DEF w
  <2> QED BY <1>1, <1>5, <2>1, <2>2, FoundKept
<1>9. /\ w.page \in Pages /\ item'[t] # NoValue /\ item'[t].url = w.page.url
      /\ item' \in [Spiders -> Nullable(Item)] /\ lock' \in Nullable(Spiders)
      /\ nextId' \in 1..(MaxPolicies + 1) /\ nextId' >= nextId
      /\ \A s \in Spiders \ {t} : Working(spider[s]) => lock' = s
      /\ w.pc # "waiting" /\ ~Committed(w)
  BY <1>1, <1>5, OneSpider DEF Committed
<1> QED BY <1>1, <1>5, <1>6, <1>7, <1>8, <1>9, QuietStep

(* The transaction is rolled back and the lock given back.                  *)
LEMMA RollbackKeeps ==
  ASSUME IInv, NEW t \in Spiders, Rollback(t)
  PROVE  IInv'
<1> DEFINE w == [spider[t] EXCEPT !.pc = "undoing"]
<1>1. /\ spider[t] \in Spider /\ spider \in [Spiders -> Spider]
      /\ spider[t].pc \in {"stored", "attached"}
      /\ Carrying(spider[t]) /\ spider[t].pc # "idle"
      /\ UNCHANGED <<tables, nextId, file, item>>
      /\ lock' = Released(t)
      /\ spider' = [spider EXCEPT ![t] = w]
  BY OneSpider DEF Rollback, Carrying
<1>2. /\ w \in Spider /\ w.pc = "undoing" /\ w.page = spider[t].page
      /\ w.policy = spider[t].policy /\ w.number = spider[t].number
      /\ w.created = spider[t].created
  BY <1>1 DEF Spider
<1> HIDE DEF w
<1>3. FilesOf(w, file') /\ ~Working(w) /\ ~Committed(w) /\ w.pc # "waiting"
  BY <1>1, <1>2, OneSpider DEF FilesOf, Working, Committed
<1>4. /\ \A s \in Spiders \ {t} : Carrying(spider[s]) => Apart(w, spider[s])
      /\ \A v \in version : Apart(w, v)
  BY <1>1, <1>2, OneSpider DEF Apart
<1>5. /\ w.page \in Pages /\ item'[t] # NoValue /\ item'[t].url = w.page.url
      /\ item' \in [Spiders -> Nullable(Item)] /\ lock' \in Nullable(Spiders)
      /\ nextId' \in 1..(MaxPolicies + 1) /\ nextId' >= nextId
      /\ file' \subseteq Path
      /\ \A s \in Spiders \ {t} : Working(spider[s]) => lock' = s
  BY <1>1, <1>2, OneSpider DEF Released, Nullable
<1> QED BY <1>1, <1>2, <1>3, <1>4, <1>5, QuietStep

(* After its commit a pipeline that has stored files takes them for those   *)
(* of a transaction that failed.                                           *)
LEMMA RevokingKeeps ==
  ASSUME IInv, NEW t \in Spiders, FailAfterCommit(t), spider[t].created # <<>>
  PROVE  IInv'
<1> DEFINE w == [spider[t] EXCEPT !.pc = "revoking"]
<1>1. /\ spider[t] \in Spider /\ spider \in [Spiders -> Spider]
      /\ spider[t].pc = "committed" /\ Committed(spider[t])
      /\ UNCHANGED <<tables, nextId, file, item>>
      /\ lock' = Released(t)
      /\ spider' = [spider EXCEPT ![t] = w]
  BY OneSpider DEF FailAfterCommit, Committed
<1>2. /\ w \in Spider /\ w.pc = "revoking" /\ w.page = spider[t].page
      /\ w.policy = spider[t].policy /\ w.number = spider[t].number
      /\ w.created = spider[t].created
  BY <1>1 DEF Spider
<1> HIDE DEF w
<1>3. VersionOf(w, version) /\ ~Working(w) /\ ~Carrying(w)
  BY <1>1, <1>2, OneSpider DEF VersionOf, Apart, Working, Carrying
<1>4. /\ w.page \in Pages /\ item'[t] # NoValue /\ item'[t].url = w.page.url
      /\ item' \in [Spiders -> Nullable(Item)] /\ lock' \in Nullable(Spiders)
      /\ nextId' \in 1..(MaxPolicies + 1) /\ nextId' >= nextId
      /\ file' \subseteq Path
      /\ \A s \in Spiders \ {t} : Working(spider[s]) => lock' = s
  BY <1>1, <1>2, OneSpider DEF Released, Nullable
<1> QED BY <1>1, <1>2, <1>3, <1>4, QuietStep

(* The files of a pipeline that removes them: its snapshot, and perhaps the *)
(* attachment, which goes first.                                           *)
LEMMA FilesToRemove ==
  ASSUME IInv, NEW t \in Spiders, spider[t].pc \in {"undoing", "revoking"}
  PROVE  LET snapshot == Snapshot(spider[t].policy, spider[t].number)
             attachment == Attachment(spider[t].policy, spider[t].number)
             created == spider[t].created
         IN  /\ spider[t].policy \in PolicyIds /\ spider[t].number \in Numbers
             /\ created = <<snapshot>> \/ created = <<snapshot, attachment>>
             /\ Carrying(spider[t]) \/ Committed(spider[t])
             /\ created[Len(created)].policy = spider[t].policy
             /\ created[Len(created)].number = spider[t].number
<1> DEFINE snapshot == Snapshot(spider[t].policy, spider[t].number)
           attachment == Attachment(spider[t].policy, spider[t].number)
           created == spider[t].created
<1>1. /\ spider[t].policy \in PolicyIds /\ spider[t].number \in Numbers
      /\ created = <<snapshot>> \/ created = <<snapshot, attachment>>
      /\ Carrying(spider[t]) \/ Committed(spider[t])
  BY OneSpider DEF Carrying, Committed, FilesOf, VersionOf
<1>2. created[Len(created)] \in {snapshot, attachment}
  <2> HIDE DEF snapshot, attachment, created
  <2>1. CASE created = <<snapshot>>
    BY <2>1
  <2>2. CASE created = <<snapshot, attachment>>
    BY <2>2
  <2> QED BY <1>1, <2>1, <2>2
<1> QED BY <1>1, <1>2 DEF Snapshot, Attachment

(* A file is removed, the attachment first, or cannot be.                   *)
LEMMA RemoveFileKeeps ==
  ASSUME IInv, NEW t \in Spiders, RemoveFile(t)
  PROVE  IInv'
<1> DEFINE p == spider[t].policy
           n == spider[t].number
           created == spider[t].created
           last == created[Len(created)]
<1>1. /\ spider[t].pc \in {"undoing", "revoking"}
      /\ spider[t] \in Spider /\ spider \in [Spiders -> Spider]
      /\ UNCHANGED <<tables, nextId, lock>>
      /\ file' \in {file, file \ {last}}
  BY OneSpider DEF RemoveFile
<1>2. /\ p \in PolicyIds /\ n \in Numbers
      /\ created = <<Snapshot(p, n)>> \/ created = <<Snapshot(p, n), Attachment(p, n)>>
      /\ Carrying(spider[t]) \/ Committed(spider[t])
      /\ last.policy = p /\ last.number = n
  BY <1>1, FilesToRemove
<1>3. /\ nextId' \in 1..(MaxPolicies + 1) /\ nextId' >= nextId
      /\ file' \subseteq Path /\ lock' \in Nullable(Spiders)
      /\ lock' \in {lock, Released(t)}
      /\ \A s \in Spiders \ {t} : Working(spider[s]) => lock' = s
  BY <1>1, OneSpider
<1>4. \A path \in file \ file' : path.policy = p /\ path.number = n
  <2> HIDE DEF last, p, n
  <2> QED BY <1>1, <1>2
<1>5. CASE MarkFailed(t)
  <2>1. /\ item' = item \/ item' = [item EXCEPT ![t].status = "failed"]
        /\ spider' = [spider EXCEPT ![t] = Idle]
        /\ spider[t].pc # "idle"
    BY <1>1, <1>5 DEF MarkFailed
  <2> HIDE DEF p, n, created, last
  <2> QED BY <1>1, <1>2, <1>3, <1>4, <2>1, RestStep DEF p, n
<1>6. CASE ~MarkFailed(t)
  <2> DEFINE w == [spider[t] EXCEPT !.created = SubSeq(@, 1, Len(@) - 1)]
  <2>1. /\ file' = file \ {last} /\ Len(created) # 1
        /\ spider' = [spider EXCEPT ![t] = w] /\ item' = item
    BY <1>6 DEF RemoveFile
  <2>2. created = <<Snapshot(p, n), Attachment(p, n)>>
    <3>1. created = <<Snapshot(p, n)>> => Len(created) = 1
      OBVIOUS
    <3> QED BY <1>2, <2>1, <3>1
  <2>3. SubSeq(created, 1, Len(created) - 1) = <<Snapshot(p, n)>>
        /\ last = Attachment(p, n)
    <3>1. Len(created) = 2 /\ Len(created) - 1 = 1
      BY <2>2
    <3>2. SubSeq(created, 1, Len(created) - 1) = <<Snapshot(p, n)>>
      BY <2>2, <3>1, ShortLists
    <3>3. last = created[2]
      BY <3>1
    <3> QED BY <2>2, <3>2, <3>3
  <2>4. <<Snapshot(p, n)>> \in Seq(Path)
    BY <1>2 DEF Snapshot, Path
  <2>5. /\ w \in Spider /\ w.pc = spider[t].pc /\ w.page = spider[t].page
        /\ w.policy = p /\ w.number = n /\ w.created = <<Snapshot(p, n)>>
    <3>1. w = [spider[t] EXCEPT !.created = <<Snapshot(p, n)>>]
      BY <2>3
    <3> HIDE DEF w
    <3> QED BY <1>1, <2>4, <3>1 DEF Spider
  <2> HIDE DEF w
  <2>6. Carrying(w) => /\ FilesOf(w, file')
                       /\ \A s \in Spiders \ {t} : Carrying(spider[s]) => Apart(w, spider[s])
                       /\ \A v \in version : Apart(w, v)
    <3> SUFFICES ASSUME Carrying(w)
                 PROVE  /\ FilesOf(w, file')
                        /\ \A s \in Spiders \ {t} :
                             Carrying(spider[s]) => Apart(w, spider[s])
                        /\ \A v \in version : Apart(w, v)
      OBVIOUS
    <3>1. Carrying(spider[t])
      BY <2>5 DEF Carrying
    <3>2. Snapshot(p, n) \in file /\ Snapshot(p, n) # last
      BY <2>3, <3>1, OneSpider DEF FilesOf, Snapshot, Attachment
    <3>3. FilesOf(w, file')
      BY <1>2, <2>1, <2>5, <3>2 DEF FilesOf
    <3> QED BY <2>5, <3>1, <3>3, OneSpider DEF Apart
  <2>7. Committed(w) => VersionOf(w, version)
    <3> SUFFICES ASSUME Committed(w)  PROVE VersionOf(w, version)
      OBVIOUS
    <3>1. Committed(spider[t])
      BY <1>1, <2>5 DEF Committed
    <3>2. \E v \in version : ~Apart(spider[t], v)
      BY <3>1, OneSpider DEF VersionOf
    <3> QED BY <1>2, <2>5, <3>2 DEF VersionOf, Apart
  <2>8. /\ w.page \in Pages /\ item'[t] # NoValue /\ item'[t].url = w.page.url
        /\ item' \in [Spiders -> Nullable(Item)]
        /\ ~Working(w) /\ w.pc # "waiting"
    BY <1>1, <2>1, <2>5, OneSpider DEF Working
  <2> QED BY <1>1, <1>2, <1>3, <1>4, <2>1, <2>5, <2>6, <2>7, <2>8, QuietStep
<1> QED BY <1>5, <1>6

-------------------------------------------------------------------------------
(* Commits.                                                                *)

(* All that is known under the address of a page belongs to the policy that *)
(* the page is matched with.                                               *)
LEMMA AddressMatches ==
  ASSUME IInv, NEW t \in Spiders, NEW d \in discovery, d.url = spider[t].page.url
  PROVE  Target(t) # NoValue /\ Target(t) = d.policy
<1> DEFINE page == spider[t].page
<1>1. TypeOK /\ RowsStored /\ OnePolicyPerUrl
  BY DEF IInv
<1>2. d.policy \in ByUrl(page)
  BY DEF ByUrl
<1>3. Target(t) \in ByUrl(page)
  BY <1>1, <1>2, Matched DEF Target
<1>4. PICK e \in discovery : e.url = page.url /\ e.policy = Target(t)
  BY <1>3 DEF ByUrl
<1>5. e.policy = d.policy
  BY <1>1, <1>4 DEF OnePolicyPerUrl
<1>6. d.policy # NoValue
  BY <1>1, NoValueAssumption, BoundsAssumption DEF RowsStored, Stored, PolicyIds
<1> QED BY <1>4, <1>5, <1>6

(* What both commits write: the policy's row, where the page was found and  *)
(* the item.                                                               *)
LEMMA RecordedKeeps ==
  ASSUME IInv, NEW t \in Spiders, NEW p \in PolicyIds, NEW n \in Numbers,
         spider[t].pc # "idle", p < nextId,
         IF Target(t) = NoValue THEN p \notin Stored ELSE p = Target(t),
         Recorded(t, p, n), nextId' = nextId
  PROVE  /\ policy' \in [PolicyIds -> Nullable(Policy)]
         /\ discovery' \subseteq Discovery
         /\ item' \in [Spiders -> Nullable(Item)]
         /\ spider' \in [Spiders -> Spider]
         /\ Stored' = Stored \cup {p} /\ policy'[p].current = n
         /\ \A q \in Stored \ {p} : policy'[q] = policy[q]
         /\ spider'[t] = [spider[t] EXCEPT !.pc = "committed"]
         /\ \A s \in Spiders \ {t} : spider'[s] = spider[s] /\ item'[s] = item[s]
         /\ item'[t] \in Item /\ item'[t].url = item[t].url
         /\ lock' = t
         /\ OnePolicyPerUrl'
         /\ RowsStored'
<1> DEFINE page == spider[t].page
           row == [title |-> page.title, number |-> page.number,
                   date |-> page.date, current |-> n]
           d == [channel |-> t, url |-> page.url, policy |-> p]
           known == \E e \in discovery : e.channel = t /\ e.url = page.url
           done == [item[t] EXCEPT !.status = "succeeded", !.policy = p]
           after == [spider[t] EXCEPT !.pc = "committed"]
<1>1. /\ page \in Pages /\ item[t] \in Item /\ item[t].url = page.url
      /\ spider[t] \in Spider
      /\ spider \in [Spiders -> Spider]
      /\ item \in [Spiders -> Nullable(Item)]
      /\ policy \in [PolicyIds -> Nullable(Policy)]
      /\ discovery \subseteq Discovery
  BY OneSpider DEF IInv, TypeOK
<1>2. /\ policy' = [policy EXCEPT ![p] = row]
      /\ discovery' = IF known THEN discovery ELSE discovery \cup {d}
      /\ item' = [item EXCEPT ![t] = done]
      /\ spider' = [spider EXCEPT ![t] = after]
      /\ lock' = t
  BY DEF Recorded
<1>3. row \in Policy /\ row.current = n /\ row # NoValue
  BY <1>1, NoValueAssumption DEF Policy
<1>4. d \in Discovery /\ d.url = page.url /\ d.policy = p /\ d.channel = t
  BY <1>1 DEF Discovery, Urls
<1>5. /\ done \in Item /\ done.url = page.url /\ done.policy = p
      /\ after \in Spider
  BY <1>1 DEF Item, Nullable, Spider
<1>6. \A e \in discovery : e.url = page.url => e.policy = p
  BY AddressMatches
<1>7. ASSUME known  PROVE d \in discovery
  <2>1. PICK e \in discovery : e.channel = t /\ e.url = page.url
    BY <1>7
  <2>2. e \in Discovery /\ e.policy = p
    BY <1>1, <1>6, <2>1
  <2>3. e = d
    BY <2>1, <2>2 DEF Discovery
  <2> QED BY <2>3
<1> HIDE DEF row, d, known, done, page, after
<1>8. d \in discovery' /\ discovery \subseteq discovery'
      /\ \A e \in discovery' : e \in discovery \/ (e = d /\ ~known)
  BY <1>2, <1>7
<1>9. /\ policy' \in [PolicyIds -> Nullable(Policy)]
      /\ discovery' \subseteq Discovery
      /\ item' \in [Spiders -> Nullable(Item)]
      /\ spider' \in [Spiders -> Spider]
  BY <1>1, <1>2, <1>3, <1>4, <1>5 DEF Nullable
<1>10. /\ spider'[t] = after /\ item'[t] = done
       /\ \A s \in Spiders \ {t} : spider'[s] = spider[s] /\ item'[s] = item[s]
  BY <1>1, <1>2
<1>11. /\ policy'[p] = row /\ policy'[p].current = n
       /\ \A q \in PolicyIds \ {p} : policy'[q] = policy[q]
  BY <1>1, <1>2, <1>3
<1>12. Stored' = Stored \cup {p}
  BY <1>3, <1>11 DEF Stored
<1>13. OnePolicyPerUrl'
  <2>1. ASSUME NEW e \in discovery', NEW f \in discovery', e.url = f.url
        PROVE  e.policy = f.policy
    BY <1>4, <1>6, <1>8, <2>1 DEF IInv, OnePolicyPerUrl
  <2>2. ASSUME NEW e \in discovery', NEW f \in discovery',
               e.url = f.url, e.channel = f.channel
        PROVE  e = f
    BY <1>4, <1>8, <2>2 DEF IInv, OnePolicyPerUrl, known
  <2>3. \A q \in Stored' : \E e \in discovery' : e.policy = q
    BY <1>4, <1>8, <1>12 DEF IInv, OnePolicyPerUrl
  <2>4. ASSUME NEW s \in Spiders, item'[s] # NoValue, item'[s].status = "succeeded"
        PROVE  [channel |-> s, url |-> item'[s].url, policy |-> item'[s].policy]
                 \in discovery'
    <3>1. CASE s = t
      BY <1>5, <1>8, <1>10, <3>1 DEF d
    <3>2. CASE s # t
      <4>1. item'[s] = item[s]
        BY <1>10, <3>2
      <4> QED BY <1>8, <2>4, <4>1 DEF IInv, OnePolicyPerUrl
    <3> QED BY <3>1, <3>2
  <2> QED BY <2>1, <2>2, <2>3, <2>4 DEF OnePolicyPerUrl
<1>14. RowsStored'
  BY <1>4, <1>8, <1>12 DEF IInv, RowsStored
<1> QED BY <1>1, <1>2, <1>5, <1>9, <1>10, <1>11, <1>12, <1>13, <1>14
        DEF Stored, after, page

(* The commit of a page whose content is a version already.                 *)
LEMMA CommitKnownKeeps ==
  ASSUME IInv, NEW t \in Spiders, CommitKnown(t)
  PROVE  IInv'
<1> DEFINE p == Target(t)
           n == policy[p].current
<1>1. /\ spider[t].pc = "waiting" /\ LockFree /\ p # NoValue
      /\ Recorded(t, p, n)
      /\ UNCHANGED <<version, enqueued, nextId, file>>
  BY DEF CommitKnown, CurrentKept, Known
<1>2. TypeOK /\ RowsStored /\ VersionHistory
  BY DEF IInv
<1>3. p \in Stored /\ p \in PolicyIds /\ p < nextId
  BY <1>1, <1>2, Matched DEF Target, RowsStored, Stored
<1>4. n \in Numbers
  BY <1>2, <1>3 DEF TypeOK, Stored, Nullable, Policy
<1> HIDE DEF n
<1>5. /\ policy' \in [PolicyIds -> Nullable(Policy)]
      /\ discovery' \subseteq Discovery
      /\ item' \in [Spiders -> Nullable(Item)]
      /\ spider' \in [Spiders -> Spider]
      /\ Stored' = Stored \cup {p} /\ policy'[p].current = n
      /\ \A q \in Stored \ {p} : policy'[q] = policy[q]
      /\ spider'[t] = [spider[t] EXCEPT !.pc = "committed"]
      /\ \A s \in Spiders \ {t} : spider'[s] = spider[s] /\ item'[s] = item[s]
      /\ item'[t] \in Item /\ item'[t].url = item[t].url
      /\ lock' = t
      /\ OnePolicyPerUrl'
      /\ RowsStored'
  BY <1>1, <1>3, <1>4, RecordedKeeps
<1>6. TypeOK'
  BY <1>1, <1>2, <1>5 DEF TypeOK, Nullable
<1>7. VersionHistory'
  <2>1. \A q \in Stored : policy'[q].current = policy[q].current
    BY <1>5 DEF n
  <2>2. Stored' = Stored
    BY <1>3, <1>5
  <2> QED BY <1>1, <1>2, <2>1, <2>2 DEF VersionHistory, VersionsOf
<1>8. /\ spider'[t].pc = "committed" /\ spider'[t].created = <<>>
      /\ spider'[t].page = spider[t].page
      /\ ~Carrying(spider'[t]) /\ ~Working(spider'[t]) /\ ~Committed(spider'[t])
  BY <1>1, <1>5, OneSpider DEF Spider, Carrying, Working, Committed
<1>9. PipelinesFit'
  <2> SUFFICES ASSUME NEW s \in Spiders
               PROVE  /\ spider'[s].pc # "idle" =>
                           /\ spider'[s].page \in Pages
                           /\ item'[s] # NoValue /\ item'[s].url = spider'[s].page.url
                      /\ spider'[s].pc = "waiting" => spider'[s].created = <<>>
                      /\ Carrying(spider'[s]) => FilesOf(spider'[s], file')
                      /\ Committed(spider'[s]) => VersionOf(spider'[s], version')
                      /\ ~Working(spider'[s])
    BY DEF PipelinesFit
  <2>1. CASE s = t
    BY <1>1, <1>5, <1>8, <2>1, OneSpider, NoValueAssumption
  <2>2. CASE s # t
    BY <1>1, <1>5, <2>2, OneSpider DEF IInv, PipelinesFit
  <2> QED BY <2>1, <2>2
<1>10. PathsApart'
  BY <1>1, <1>5, <1>8 DEF IInv, PathsApart
<1> QED BY <1>5, <1>6, <1>7, <1>9, <1>10 DEF IInv

(* The version that a pipeline under the lock commits: the next one, and    *)
(* with a content that none of its policy has.                             *)
LEMMA VersionIsNew ==
  ASSUME IInv, NEW t \in Spiders, spider[t].pc = "attached"
  PROVE  LET v == NewVersion(t)
         IN  /\ v \in Version
             /\ v.policy = spider[t].policy /\ v.number = spider[t].number
             /\ v.policy \in PolicyIds /\ v.number \in Numbers
             /\ v.number = NextNumber(v.policy)
             /\ \A w \in VersionsOf(v.policy) : w.number # v.number
             /\ \A w \in VersionsOf(v.policy) : w.title # v.title \/ w.body # v.body
             /\ Snapshot(v.policy, v.number) \in file
             /\ v.attachment = "downloaded" => Attachment(v.policy, v.number) \in file
<1> DEFINE v == NewVersion(t)
           page == spider[t].page
           path == Attachment(spider[t].policy, spider[t].number)
           attachment == CASE ~page.attached -> "none"
                           [] page.attached /\ path \in Range(spider[t].created)
                                -> "downloaded"
                           [] OTHER -> "failed"
<1>1. /\ page \in Pages /\ FilesOf(spider[t], file) /\ FoundHolds(t)
  BY OneSpider DEF Carrying, Working
<1>2. TypeOK /\ RowsStored /\ VersionHistory
  BY DEF IInv
<1>3. attachment \in {"none", "downloaded", "failed"}
  OBVIOUS
<1>4. v = [policy |-> spider[t].policy, number |-> spider[t].number,
           title |-> page.title, body |-> page.body, attachment |-> attachment]
  BY DEF NewVersion
<1>5. attachment = "downloaded" => path \in file
  <2>1. path \in Range(spider[t].created) => path \in file
    <3>1. CASE spider[t].created = <<Snapshot(spider[t].policy, spider[t].number)>>
      BY <1>1, <3>1 DEF Range, FilesOf
    <3>2. CASE spider[t].created =
                 <<Snapshot(spider[t].policy, spider[t].number), path>>
               /\ path \in file
      BY <3>2
    <3> QED BY <1>1, <3>1, <3>2 DEF FilesOf
  <2> HIDE DEF path
  <2>2. attachment = "downloaded" => path \in Range(spider[t].created)
    OBVIOUS
  <2> QED BY <2>1, <2>2
<1> HIDE DEF attachment, v
<1>6. /\ v.policy = spider[t].policy /\ v.number = spider[t].number
      /\ v.title = page.title /\ v.body = page.body /\ v.attachment = attachment
  BY <1>4
<1>7. v.policy \in PolicyIds /\ v.number \in Numbers
      /\ Snapshot(v.policy, v.number) \in file
  BY <1>1, <1>6 DEF FilesOf
<1>8. v \in Version
  BY <1>1, <1>3, <1>4, <1>6, <1>7 DEF Version
<1>9. v.number = NextNumber(v.policy)
  BY <1>1, <1>6 DEF FoundHolds
<1>10. \A w \in VersionsOf(v.policy) : w.number # v.number
  BY <1>2, <1>7, <1>9, NextNumberIs
<1>11. ASSUME NEW w \in VersionsOf(v.policy)
       PROVE  w.title # v.title \/ w.body # v.body
  <2>1. v.policy \in Stored
    BY <1>2, <1>7, <1>11, NextNumberIs
  <2>2. Target(t) # NoValue /\ v.policy = Target(t) /\ ~Known(t)
    BY <1>1, <1>6, <2>1 DEF FoundHolds
  <2>3. w \notin Showing(page)
    BY <2>2 DEF Known, VersionsOf
  <2> QED BY <1>6, <2>3 DEF Showing, VersionsOf
<1> QED BY <1>5, <1>6, <1>7, <1>8, <1>9, <1>10, <1>11 DEF v

(* The commit of a page with a new version.                                 *)
LEMMA CommitNewKeeps ==
  ASSUME IInv, NEW t \in Spiders, CommitNew(t)
  PROVE  IInv'
<1> DEFINE p == spider[t].policy
           n == spider[t].number
           v == NewVersion(t)
<1>1. /\ spider[t].pc = "attached"
      /\ Carrying(spider[t]) /\ Working(spider[t])
      /\ Recorded(t, p, n)
      /\ version' = version \cup {v}
      /\ enqueued' = IF ~RulePublished THEN enqueued
                     ELSE enqueued \cup {[policy |-> p, number |-> n]}
      /\ nextId' = nextId /\ file' = file
  BY DEF CommitNew, Carrying, Working
<1>2. TypeOK /\ RowsStored /\ VersionHistory
  BY DEF IInv
<1>3. /\ v \in Version
      /\ v.policy = p /\ v.number = n /\ p \in PolicyIds /\ n \in Numbers
      /\ n = NextNumber(p)
      /\ \A w \in VersionsOf(p) : w.number # n
      /\ \A w \in VersionsOf(p) : w.title # v.title \/ w.body # v.body
      /\ Snapshot(p, n) \in file
      /\ v.attachment = "downloaded" => Attachment(p, n) \in file
  BY <1>1, VersionIsNew
<1>4. FoundHolds(t)
  BY <1>1, OneSpider
<1> HIDE DEF v
<1>5. /\ policy' \in [PolicyIds -> Nullable(Policy)]
      /\ discovery' \subseteq Discovery
      /\ item' \in [Spiders -> Nullable(Item)]
      /\ spider' \in [Spiders -> Spider]
      /\ Stored' = Stored \cup {p} /\ policy'[p].current = n
      /\ \A q \in Stored \ {p} : policy'[q] = policy[q]
      /\ spider'[t] = [spider[t] EXCEPT !.pc = "committed"]
      /\ \A s \in Spiders \ {t} : spider'[s] = spider[s] /\ item'[s] = item[s]
      /\ item'[t] \in Item /\ item'[t].url = item[t].url
      /\ lock' = t
      /\ OnePolicyPerUrl'
      /\ RowsStored'
  BY <1>1, <1>3, <1>4, RecordedKeeps DEF FoundHolds
<1>6. TypeOK'
  BY <1>1, <1>2, <1>3, <1>5 DEF TypeOK, Nullable
<1>7. VersionHistory'
  <2> DEFINE now == {w \in version' : w.policy = p}
  <2>1. now = VersionsOf(p) \cup {v}
        /\ \A q \in PolicyIds \ {p} : {w \in version' : w.policy = q} = VersionsOf(q)
    BY <1>1, <1>3 DEF VersionsOf
  <2>2. {w.number : w \in now} = 1..n
    <3>1. {w.number : w \in now} = {w.number : w \in VersionsOf(p)} \cup {n}
      BY <1>3, <2>1
    <3>2. CASE p \in Stored
      <4>1. policy[p].current \in Nat /\ n = policy[p].current + 1
        BY <1>2, <1>3, <3>2, NextNumberIs
      <4>2. {w.number : w \in VersionsOf(p)} = 1..policy[p].current
        BY <1>2, <3>2 DEF VersionHistory
      <4>3. (1..policy[p].current) \cup {n} = 1..n
        BY <4>1
      <4> HIDE DEF now, n
      <4> QED BY <3>1, <4>2, <4>3
    <3>3. CASE p \notin Stored
      <4>1. VersionsOf(p) = {} /\ n = 1
        BY <1>2, <1>3, <3>3, NextNumberIs
      <4> QED BY <3>1, <4>1
    <3> QED BY <3>2, <3>3
  <2>3. ASSUME NEW q \in Stored'
        PROVE  /\ {w.number : w \in {x \in version' : x.policy = q}}
                     = 1..policy'[q].current
               /\ \A x, w \in {y \in version' : y.policy = q} :
                    /\ x.number = w.number => x = w
                    /\ x.number + 1 = w.number => x.title # w.title \/ x.body # w.body
    <3>1. CASE q = p
      <4>1. {y \in version' : y.policy = q} = VersionsOf(p) \cup {v}
        BY <2>1, <3>1
      <4>2. \A x, w \in VersionsOf(p) :
              /\ x.number = w.number => x = w
              /\ x.number + 1 = w.number => x.title # w.title \/ x.body # w.body
        <5>1. VersionsOf(p) # {} => p \in Stored
          BY <1>2 DEF VersionHistory, VersionsOf
        <5> QED BY <1>2, <5>1 DEF VersionHistory
      <4>3. \A x, w \in VersionsOf(p) \cup {v} :
              /\ x.number = w.number => x = w
              /\ x.number + 1 = w.number => x.title # w.title \/ x.body # w.body
        <5>1. v.number + 1 # v.number
          BY <1>3 DEF Numbers
        <5> QED BY <1>3, <4>2, <5>1
      <4>4. {w.number : w \in {x \in version' : x.policy = q}} = 1..n
        BY <2>1, <2>2, <4>1
      <4> QED BY <1>5, <3>1, <4>1, <4>3, <4>4
    <3>2. CASE q # p
      <4>1. q \in Stored \ {p} /\ q \in PolicyIds \ {p}
        BY <1>5, <3>2 DEF Stored
      <4>2. {x \in version' : x.policy = q} = VersionsOf(q)
        BY <2>1, <4>1
      <4>3. policy'[q] = policy[q]
        BY <1>5, <4>1
      <4> QED BY <1>2, <4>1, <4>2, <4>3 DEF VersionHistory
    <3> QED BY <3>1, <3>2
  <2>4. \A w \in version' : w.policy \in Stored'
    BY <1>1, <1>2, <1>3, <1>5 DEF VersionHistory
  <2>5. enqueued' = IF ~RulePublished THEN {}
                    ELSE {[policy |-> w.policy, number |-> w.number] : w \in version'}
    <3> DEFINE batches(versions) ==
                 {[policy |-> w.policy, number |-> w.number] : w \in versions}
    <3>1. enqueued = IF ~RulePublished THEN {} ELSE batches(version)
      BY <1>2 DEF VersionHistory
    <3>2. batches(version \cup {v}) = batches(version) \cup {[policy |-> p, number |-> n]}
      BY <1>3
    <3>3. version' = version \cup {v}
      BY <1>1
    <3>4. enqueued' = IF ~RulePublished THEN enqueued
                      ELSE enqueued \cup {[policy |-> p, number |-> n]}
      BY <1>1
    <3>5. enqueued' = IF ~RulePublished THEN {} ELSE batches(version')
      <4> HIDE DEF batches
      <4>1. CASE RulePublished
        BY <3>1, <3>2, <3>3, <3>4, <4>1
      <4>2. CASE ~RulePublished
        BY <3>1, <3>4, <4>2
      <4> QED BY <4>1, <4>2
    <3> QED BY <3>5
  <2>6. ASSUME NEW q \in Stored'
        PROVE  /\ {w.number : w \in VersionsOf(q)'} = 1..policy'[q].current
               /\ \A x, w \in VersionsOf(q)' :
                    /\ x.number = w.number => x = w
                    /\ x.number + 1 = w.number => x.title # w.title \/ x.body # w.body
    BY <2>3 DEF VersionsOf
  <2> QED BY <2>4, <2>5, <2>6, Zenon DEF VersionHistory
<1>8. /\ spider'[t].pc = "committed" /\ spider'[t].page = spider[t].page
      /\ ~Carrying(spider'[t]) /\ ~Working(spider'[t])
      /\ VersionOf(spider'[t], version')
  <2>1. /\ spider'[t].policy = p /\ spider'[t].number = n
        /\ spider'[t].created = spider[t].created /\ spider'[t].pc = "committed"
        /\ spider'[t].page = spider[t].page
    BY <1>5, OneSpider DEF Spider
  <2>2. v \in version' /\ ~Apart(spider'[t], v)
    BY <1>1, <1>3, <2>1 DEF Apart
  <2>3. VersionOf(spider'[t], version')
    BY <1>1, <1>3, <2>1, <2>2, OneSpider DEF VersionOf, FilesOf
  <2> QED BY <2>1, <2>3 DEF Carrying, Working
<1>9. PipelinesFit'
  <2> SUFFICES ASSUME NEW s \in Spiders
               PROVE  /\ spider'[s].pc # "idle" =>
                           /\ spider'[s].page \in Pages
                           /\ item'[s] # NoValue /\ item'[s].url = spider'[s].page.url
                      /\ spider'[s].pc = "waiting" => spider'[s].created = <<>>
                      /\ Carrying(spider'[s]) => FilesOf(spider'[s], file')
                      /\ Committed(spider'[s]) => VersionOf(spider'[s], version')
                      /\ ~Working(spider'[s])
    BY DEF PipelinesFit
  <2>1. CASE s = t
    <3>1. spider[t].page \in Pages /\ item[t].url = spider[t].page.url
      BY <1>1, OneSpider
    <3>2. item'[t] # NoValue
      BY <1>5, NoValueAssumption
    <3> QED BY <1>5, <1>8, <2>1, <3>1, <3>2
  <2>2. CASE s # t
    <3>1. spider'[s] = spider[s] /\ item'[s] = item[s] /\ ~Working(spider[s])
      BY <1>1, <1>5, <2>2, OneSpider
    <3>2. Committed(spider[s]) => VersionOf(spider[s], version')
      BY <1>1 DEF IInv, PipelinesFit, VersionOf
    <3> QED BY <1>1, <3>1, <3>2 DEF IInv, PipelinesFit
  <2> QED BY <2>1, <2>2
<1>10. PathsApart'
  <2> SUFFICES ASSUME NEW s \in Spiders, Carrying(spider'[s])
               PROVE  /\ \A r \in Spiders \ {s} :
                           Carrying(spider'[r]) => Apart(spider'[s], spider'[r])
                      /\ \A w \in version' : Apart(spider'[s], w)
    BY DEF PathsApart
  <2>1. s # t /\ spider'[s] = spider[s]
    BY <1>5, <1>8
  <2>2. /\ \A r \in Spiders \ {s} : Carrying(spider[r]) => Apart(spider[s], spider[r])
        /\ \A w \in version : Apart(spider[s], w)
    BY <2>1 DEF IInv, PathsApart
  <2>3. Apart(spider[s], v)
    BY <1>1, <1>3, <2>1, <2>2 DEF Apart
  <2> QED BY <1>1, <1>5, <1>8, <2>1, <2>2, <2>3
<1> QED BY <1>5, <1>6, <1>7, <1>9, <1>10 DEF IInv

-------------------------------------------------------------------------------
(* The specification.                                                      *)

(* An empty catalogue.                                                      *)
LEMMA InitInvariant == Init => IInv
<1> SUFFICES ASSUME Init  PROVE IInv
  OBVIOUS
<1>1. /\ policy = [p \in PolicyIds |-> NoValue] /\ nextId = 1
      /\ version = {} /\ discovery = {} /\ enqueued = {} /\ file = {}
      /\ item = [s \in Spiders |-> NoValue] /\ lock = NoValue
      /\ spider = [s \in Spiders |-> Idle]
  BY DEF Init
<1>2. Stored = {}
  BY <1>1 DEF Stored
<1>3. \A s \in Spiders : /\ spider[s] = Idle /\ item[s] = NoValue
                         /\ ~Carrying(spider[s]) /\ ~Working(spider[s])
                         /\ ~Committed(spider[s])
  BY <1>1, Resting
<1>4. TypeOK
  BY <1>1, Resting, BoundsAssumption DEF TypeOK, Nullable
<1>5. OnePolicyPerUrl
  BY <1>1, <1>2, <1>3 DEF OnePolicyPerUrl
<1>6. VersionHistory
  BY <1>1, <1>2 DEF VersionHistory
<1>7. PipelinesFit /\ PathsApart
  BY <1>3, Resting DEF PipelinesFit, PathsApart
<1>8. RowsStored
  BY <1>1, <1>2 DEF RowsStored
<1> QED BY <1>4, <1>5, <1>6, <1>7, <1>8 DEF IInv

(* A step that changes nothing.                                             *)
LEMMA StutterKeeps ==
  ASSUME IInv, UNCHANGED vars
  PROVE  IInv'
<1>1. /\ UNCHANGED <<policy, nextId, version, discovery, enqueued, file, item,
                     lock, spider>>
      /\ UNCHANGED tables
  BY DEF vars, tables
<1>2. TypeOK' /\ OnePolicyPerUrl' /\ RowsStored'
  BY <1>1 DEF IInv, TypeOK, OnePolicyPerUrl, RowsStored, Stored
<1>3. VersionHistory'
  BY <1>1 DEF IInv, VersionHistory, VersionsOf, Stored
<1>4. PathsApart'
  BY <1>1 DEF IInv, PathsApart
<1>5. PipelinesFit'
  <2>1. ASSUME NEW s \in Spiders, Working(spider[s])  PROVE FoundHolds(s)'
    BY <1>1, <2>1, FoundKept, OneSpider
  <2>2. \A s \in Spiders : Carrying(spider[s]) => FilesOf(spider[s], file)
    BY OneSpider
  <2> QED BY <1>1, <2>1, <2>2 DEF IInv, PipelinesFit
<1> QED BY <1>2, <1>3, <1>4, <1>5 DEF IInv

(* Every step of every spider keeps the invariant.                          *)
LEMMA NextInvariant == IInv /\ [Next]_vars => IInv'
<1> SUFFICES ASSUME IInv, [Next]_vars  PROVE IInv'
  OBVIOUS
<1>1. ASSUME NEW s \in Spiders, SpiderStep(s)  PROVE IInv'
  <2>1. CASE \E page \in Pages : BeginItem(s, page)
    BY <2>1, BeginKeeps
  <2>2. CASE LockTimeout(s) \/ RefuseSnapshot(s) \/ Fail(s) \/ Crash(s) \/ Release(s)
    BY <2>2, GivingUpKeeps
  <2>3. CASE SaveSnapshot(s)
    BY <2>3, SaveSnapshotKeeps
  <2>4. CASE SaveAttachment(s)
    BY <2>4, SaveAttachmentKeeps
  <2>5. CASE CommitKnown(s)
    BY <2>5, CommitKnownKeeps
  <2>6. CASE CommitNew(s)
    BY <2>6, CommitNewKeeps
  <2>7. CASE Rollback(s)
    BY <2>7, RollbackKeeps
  <2>8. CASE RemoveFile(s)
    BY <2>8, RemoveFileKeeps
  <2>9. CASE FailAfterCommit(s)
    BY <2>9, GivingUpKeeps, RevokingKeeps
  <2> QED BY <1>1, <2>1, <2>2, <2>3, <2>4, <2>5, <2>6, <2>7, <2>8, <2>9 DEF SpiderStep
<1> QED BY <1>1, StutterKeeps DEF Next

(* The invariant holds in every state of the catalogue.                     *)
THEOREM IngestionInvariance == Spec => []IInv
BY InitInvariant, NextInvariant, PTL DEF Spec

(* Rows, files, items and pipelines always have their shapes.               *)
THEOREM IngestionTypes == Spec => []TypeOK
<1>1. IInv => TypeOK
  BY DEF IInv
<1> QED BY <1>1, IngestionInvariance, PTL

(* Section 9 and _match_policy under the named lock: one policy for what is *)
(* found under one address, for any number of spiders at once.             *)
THEOREM PolicyPerUrl == Spec => []OnePolicyPerUrl
<1>1. IInv => OnePolicyPerUrl
  BY DEF IInv
<1> QED BY <1>1, IngestionInvariance, PTL

(* max(version_number) + 1 under the named lock: versions are numbered      *)
(* without a gap, each differs from the one before, and each has its       *)
(* evaluation batch.                                                       *)
THEOREM VersionsAreHistory == Spec => []VersionHistory
<1>1. IInv => VersionHistory
  BY DEF IInv
<1> QED BY <1>1, IngestionInvariance, PTL

-------------------------------------------------------------------------------
(* Files of committed versions.                                            *)

(* The files of a version that is committed with this step are there.       *)
LEMMA NewVersionHasFiles ==
  ASSUME IInv, NEW t \in Spiders, SpiderStep(t),
         NEW v \in version', v \notin version, NEW path \in Named(v)
  PROVE  path \in file'
<1>1. CommitNew(t)
  BY DEF SpiderStep, BeginItem, LockTimeout, SaveSnapshot, RefuseSnapshot,
         SaveAttachment, CommitKnown, Release, FailAfterCommit, Fail, Rollback,
         RemoveFile, Crash, tables
<1>2. spider[t].pc = "attached" /\ v = NewVersion(t) /\ file' = file
  BY <1>1 DEF CommitNew
<1> QED BY <1>2, VersionIsNew DEF Named

(* A file of a version is removed by nobody but the pipeline that takes the *)
(* version for one that was never committed.                               *)
LEMMA RemovedByItsOwn ==
  ASSUME IInv, NEW t \in Spiders, SpiderStep(t),
         NEW v \in version, NEW path \in Named(v), path \in file, path \notin file'
  PROVE  Revokes(t, v)
<1>1. RemoveFile(t)
  BY DEF SpiderStep, BeginItem, LockTimeout, SaveSnapshot, RefuseSnapshot,
         SaveAttachment, CommitKnown, CommitNew, Release, FailAfterCommit, Fail,
         Rollback, RemoveFile, Crash, tables
<1>2. /\ spider[t].pc \in {"undoing", "revoking"}
      /\ path = spider[t].created[Len(spider[t].created)]
  BY <1>1 DEF RemoveFile
<1>3. path.policy = spider[t].policy /\ path.number = spider[t].number
  BY <1>2, FilesToRemove
<1>4. path.policy = v.policy /\ path.number = v.number
  BY DEF Named, Snapshot, Attachment
<1>5. spider[t].pc # "undoing"
  <2>1. Carrying(spider[t]) => Apart(spider[t], v)
    BY OneSpider
  <2> QED BY <1>3, <1>4, <2>1 DEF Carrying, Apart
<1> QED BY <1>2, <1>3, <1>4, <1>5 DEF Revokes

(* ingest_and_mark_task_item and _atomic_write: no spider ever removes a    *)
(* file of a version that another one has committed, although it cleans up *)
(* after it gave the lock back.                                            *)
THEOREM FilesStay == Spec => CommittedFilesKept
<1> DEFINE Kept == \A v \in version' : \A path \in Named(v) :
                     \/ path \in file'
                     \/ v \in version /\ path \notin file
                     \/ \E s \in Spiders : Revokes(s, v)
<1>1. IInv /\ [Next]_vars => [Kept]_vars
  <2> SUFFICES ASSUME IInv, NEW t \in Spiders, SpiderStep(t),
                      NEW v \in version', NEW path \in Named(v),
                      path \notin file', ~(v \in version /\ path \notin file)
               PROVE  Revokes(t, v)
    BY DEF Next
  <2> QED BY NewVersionHasFiles, RemovedByItsOwn
<1> QED BY <1>1, IngestionInvariance, PTL DEF Spec, CommittedFilesKept
===============================================================================
