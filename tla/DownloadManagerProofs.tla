----------------------- MODULE DownloadManagerProofs -----------------------
(***************************************************************************)
(* Proofs about DownloadManager, for every set of addresses, limit and      *)
(* requests: the slots are those of the transfers (SlotsAreTransfers), the  *)
(* manager says that it has succeeded only when the files were delivered    *)
(* (CompletionHasFiles), and at rest it leaves no task waiting and says no  *)
(* more than is so (RestIsDone).                                            *)
(*                                                                         *)
(* The functions of the manager call each other on a state s, so there is   *)
(* one lemma for each of them, with the state before and after it.  None    *)
(* of them returns a forgotten task to the manager.  A task that is not     *)
(* forgotten never has both a transfer and a block that would end it like   *)
(* one that waits.                                                          *)
(***************************************************************************)
EXTENDS DownloadManager, TLAPS, FiniteSetTheorems, FunctionTheorems, WellFoundedInduction

Objects == [url : Urls, status : Status, transfer : Nat]
Nets == [url : Urls, state : {"active", "cut", "finished", "done"}]
AllJobs ==
  [op : SingleRequests, url : Urls]
  \cup [op : TotalRequests \cup {"multiDownload", "next", "execute"}]
  \cup [op : {"startTask", "local"}, task : Nat]
  \cup [op : {"startTasks"}, tasks : Seq(Nat)]

\* What a state of the manager is, apart from what its numbers refer to.
Managers ==
  [status : Status, tasks : Seq(Nat), mapper : [Urls -> Nat], running : SUBSET Nat,
   succeeded : Seq(Nat), obj : Seq(Objects), net : Seq(Nets), queue : Seq(AllJobs),
   due : BOOLEAN, handler : {<<>>}, main : {<<>>}, apart : BOOLEAN]

\* A block refers to task objects that were made.
JobKnown(s, job) ==
  /\ job.op \in {"startTask", "local"} => job.task \in DOMAIN s.obj
  /\ job.op = "startTasks" => job.tasks \in Seq(DOMAIN s.obj)

\* Every reference is to an object or a transfer that was made, and the mapper finds the
\* task of the address that is looked up.
Known(s) ==
  /\ s \in Managers
  /\ \A o \in DOMAIN s.obj : s.obj[o].transfer \in DOMAIN s.net \cup {None}
  /\ s.tasks \in Seq(DOMAIN s.obj) /\ s.succeeded \in Seq(DOMAIN s.obj)
  /\ s.running \subseteq DOMAIN s.obj
  /\ \A u \in Urls : s.mapper[u] # None =>
       s.mapper[u] \in DOMAIN s.obj /\ s.obj[s.mapper[u]].url = u
  /\ \A i \in DOMAIN s.queue : JobKnown(s, s.queue[i])

\* The blocks that end the task o.
IsLocal(job, o) == job.op = "local" /\ job.task = o
HasLocal(q, o) == \E i \in DOMAIN q : IsLocal(q[i], o)
OneLocal(q, o) == \A i, j \in DOMAIN q : IsLocal(q[i], o) /\ IsLocal(q[j], o) => i = j

\* The manager finds the task o by its address.
Listed(s, o) == s.mapper[s.obj[o].url] = o

\* No task is forgotten.
Whole(s) == \A o \in DOMAIN s.obj : s.obj[o].transfer # None => Listed(s, o)

\* A task with a transfer has a slot, and a transfer under way for its address.
HasSlot(s, o) ==
  LET t == s.obj[o].transfer
  IN  /\ t # None => /\ o \in s.running /\ t \in Live(s) /\ s.net[t].url = s.obj[o].url
                     /\ s.obj[o].status \in {"running"} \cup Stopping
      /\ o \in s.running => t # None

\* A task that waits, also for another start, has no block that would end it; one that is
\* ended by a block has one block and no transfer.
EndsOnce(s, o) ==
  LET st == s.obj[o].status
  IN  /\ st \in {"waiting", "suspended", "failed"} => ~HasLocal(s.queue, o)
      /\ st \in {"running", "willSuspend"} =>
           /\ OneLocal(s.queue, o)
           /\ s.obj[o].transfer # None => ~HasLocal(s.queue, o)

\* The file of a task that a block completes was delivered.
BlockHasFile(s, o, fs) ==
  s.obj[o].status = "running" /\ HasLocal(s.queue, o) => s.obj[o].url \in fs

\* A transfer under way is that of the task of its address.
LiveIsListed(s, t) ==
  LET o == s.mapper[s.net[t].url] IN o # None /\ s.obj[o].transfer = t

\* The file of a transfer that has delivered it is among the files delivered, and so is that of a
\* task that has succeeded.
FinishedHasFile(s, fs) == \A t \in DOMAIN s.net : s.net[t].state = "finished" => s.net[t].url \in fs
DoneHasFile(s, fs) == \A o \in DOMAIN s.obj : s.obj[o].status = "succeeded" => s.obj[o].url \in fs

\* Tasks, slots, blocks, transfers and files correspond.
Owned(s, fs) ==
  /\ \A o \in DOMAIN s.obj : HasSlot(s, o) /\ EndsOnce(s, o) /\ BlockHasFile(s, o, fs)
  /\ \A t \in Live(s) : LiveIsListed(s, t)
  /\ FinishedHasFile(s, fs) /\ DoneHasFile(s, fs)

\* The inductive invariant of the manager when the files fs were delivered
Good(s, fs) ==
  /\ Known(s)
  /\ Cardinality(s.running) <= Limit
  /\ Whole(s) => Owned(s, fs)

\* The addresses whose file was delivered, stored or not
Delivered == files \cup unstored

ManagerInv ==
  /\ Good(m, Delivered)
  /\ files \subseteq Urls /\ unstored \subseteq Urls
  /\ requests \in 0 .. MaxRequests
-----------------------------------------------------------------------------
(***************************************************************************)
(* Fields of the state                                                     *)
(***************************************************************************)

\* The fields of a state, as sets.
LEMMA FieldTypes ==
  ASSUME NEW s \in Managers
  PROVE  /\ s.status \in Status /\ s.tasks \in Seq(Nat) /\ s.mapper \in [Urls -> Nat]
         /\ s.running \in SUBSET Nat /\ s.succeeded \in Seq(Nat) /\ s.obj \in Seq(Objects)
         /\ s.net \in Seq(Nets) /\ s.queue \in Seq(AllJobs) /\ s.due \in BOOLEAN
         /\ s.handler = <<>> /\ s.main = <<>> /\ s.apart \in BOOLEAN
BY DEF Managers

\* A task object, with its address, status and transfer.
LEMMA ObjectTypes ==
  ASSUME NEW s \in Managers, NEW o \in DOMAIN s.obj
  PROVE  /\ s.obj[o] \in Objects
         /\ s.obj[o].url \in Urls /\ s.obj[o].status \in Status /\ s.obj[o].transfer \in Nat
         /\ o \in Nat \ {None} /\ DOMAIN s.obj = 1..Len(s.obj) /\ Len(s.obj) \in Nat
<1>1. s.obj \in Seq(Objects)
  BY FieldTypes
<1>2. s.obj[o] \in Objects
  BY <1>1
<1>3. /\ o \in Nat \ {None} /\ DOMAIN s.obj = 1..Len(s.obj) /\ Len(s.obj) \in Nat
  BY <1>1 DEF None
<1> QED
  BY <1>2, <1>3 DEF Objects

\* A job of each kind
LEMMA JobFields ==
  ASSUME NEW job \in AllJobs
  PROVE  /\ job.op \in SingleRequests \cup TotalRequests
                       \cup {"multiDownload", "next", "execute", "startTask", "local", "startTasks"}
         /\ job.op \in SingleRequests => job.url \in Urls
         /\ job.op \in {"startTask", "local"} => job.task \in Nat
         /\ job.op = "startTasks" => job.tasks \in Seq(Nat)
BY DEF AllJobs, SingleRequests, TotalRequests

LEMMA LocalJob ==
  ASSUME NEW o \in Nat
  PROVE  /\ Local(o) \in AllJobs /\ IsLocal(Local(o), o)
         /\ \A p : IsLocal(Local(o), p) => p = o
         /\ Local(o).op = "local" /\ Local(o).task = o
BY DEF Local, AllJobs, IsLocal

\* A set of positions has a least one.
LEMMA LeastNumber ==
  ASSUME NEW S \in SUBSET Nat, S # {}
  PROVE  \E n \in S : \A k \in S : n <= k
<1> DEFINE R == OpToRel(<, Nat)
<1>1. IsWellFoundedOn(R, Nat)
  BY NatLessThanWellFounded
<1>2. PICK n \in S : \A k \in S : ~ (<<k, n>> \in R)
  <2> HIDE DEF R
  <2> QED
    BY <1>1, WFMin
<1>3. ASSUME NEW k \in S PROVE n <= k
  <2>1. n \in Nat /\ k \in Nat
    OBVIOUS
  <2>2. k < n => <<k, n>> \in R
    BY <2>1 DEF OpToRel
  <2>3. ~(k < n)
    <3> HIDE DEF R
    <3> QED
      BY <1>2, <2>2
  <2> QED
    BY <2>1, <2>3
<1> QED
  BY <1>3

LEMMA SeqSubset ==
  ASSUME NEW S, NEW T, S \subseteq T, NEW q \in Seq(S)
  PROVE  q \in Seq(T)
<1>1. Len(q) \in Nat /\ q \in [1..Len(q) -> S]
  OBVIOUS
<1>2. q \in [1..Len(q) -> T]
  BY <1>1
<1> QED
  BY <1>1, <1>2

LEMMA SeqMembers ==
  ASSUME NEW S, NEW T, NEW q \in Seq(S), \A i \in DOMAIN q : q[i] \in T
  PROVE  q \in Seq(T)
<1>1. Len(q) \in Nat /\ q \in [1..Len(q) -> S] /\ DOMAIN q = 1..Len(q)
  OBVIOUS
<1>2. q \in [1..Len(q) -> T]
  BY <1>1
<1> QED
  BY <1>1, <1>2

LEMMA AppendType ==
  ASSUME NEW S, NEW q \in Seq(S), NEW x \in S
  PROVE  Append(q, x) \in Seq(S)
OBVIOUS

\* A block that is posted is the last one.
LEMMA Posted ==
  ASSUME NEW q \in Seq(AllJobs), NEW job \in AllJobs
  PROVE  /\ Append(q, job) \in Seq(AllJobs)
         /\ DOMAIN Append(q, job) = 1..Len(q) + 1 /\ DOMAIN q = 1..Len(q) /\ Len(q) \in Nat
         /\ Append(q, job)[Len(q) + 1] = job
         /\ \A i \in DOMAIN q : Append(q, job)[i] = q[i]
OBVIOUS

\* The blocks that end a task, after a block was posted.
LEMMA PostedLocal ==
  ASSUME NEW q \in Seq(AllJobs), NEW job \in AllJobs, NEW o
  PROVE  /\ HasLocal(Append(q, job), o) <=> HasLocal(q, o) \/ IsLocal(job, o)
         /\ ~IsLocal(job, o) /\ OneLocal(q, o) => OneLocal(Append(q, job), o)
         /\ ~HasLocal(q, o) => OneLocal(Append(q, job), o)
<1> DEFINE n == Len(q) + 1
           p == Append(q, job)
<1>1. /\ p \in Seq(AllJobs) /\ DOMAIN p = 1..n /\ DOMAIN q = 1..Len(q) /\ Len(q) \in Nat
      /\ p[n] = job /\ \A i \in DOMAIN q : p[i] = q[i]
  BY Posted
<1> HIDE DEF p
<1>2. n \in DOMAIN p /\ \A i \in DOMAIN q : i \in DOMAIN p /\ i # n
  BY <1>1
<1>3. \A i \in DOMAIN p : i = n \/ i \in DOMAIN q
  BY <1>1
<1> HIDE DEF n
<1>4. HasLocal(p, o) <=> HasLocal(q, o) \/ IsLocal(job, o)
  BY <1>1, <1>2, <1>3 DEF HasLocal
<1>5. ASSUME ~IsLocal(job, o), OneLocal(q, o) PROVE OneLocal(p, o)
  <2>1. \A i \in DOMAIN p : IsLocal(p[i], o) => i \in DOMAIN q /\ IsLocal(q[i], o)
    BY <1>1, <1>3, <1>5
  <2> QED
    BY <1>5, <2>1 DEF OneLocal
<1>6. ASSUME ~HasLocal(q, o) PROVE OneLocal(p, o)
  <2>1. \A i \in DOMAIN p : IsLocal(p[i], o) => i = n
    BY <1>1, <1>3, <1>6 DEF HasLocal
  <2> QED
    BY <2>1 DEF OneLocal
<1> QED
  BY <1>4, <1>5, <1>6 DEF p

\* The blocks that end a task, after the first block was taken.
LEMMA TakenLocal ==
  ASSUME NEW q \in Seq(AllJobs), q # <<>>, NEW o
  PROVE  /\ Tail(q) \in Seq(AllJobs) /\ Head(q) \in AllJobs
         /\ \A i \in DOMAIN Tail(q) : i + 1 \in DOMAIN q /\ Tail(q)[i] = q[i + 1]
         /\ Head(q) = q[1] /\ 1 \in DOMAIN q
         /\ HasLocal(Tail(q), o) => HasLocal(q, o)
         /\ OneLocal(q, o) => OneLocal(Tail(q), o)
         /\ OneLocal(q, o) /\ IsLocal(Head(q), o) => ~HasLocal(Tail(q), o)
<1>1. /\ Tail(q) \in Seq(AllJobs) /\ Head(q) \in AllJobs
      /\ DOMAIN Tail(q) = 1..Len(q) - 1 /\ Len(q) \in Nat /\ Len(q) # 0 /\ DOMAIN q = 1..Len(q)
      /\ Head(q) = q[1]
  OBVIOUS
<1>2. 1 \in DOMAIN q /\ \A i \in DOMAIN Tail(q) : i \in Nat /\ i # 0 /\ i + 1 \in DOMAIN q
  BY <1>1
<1>3. \A i \in DOMAIN Tail(q) : Tail(q)[i] = q[i + 1]
  BY <1>1
<1>4. HasLocal(Tail(q), o) => HasLocal(q, o)
  BY <1>2, <1>3 DEF HasLocal
<1>5. ASSUME OneLocal(q, o) PROVE OneLocal(Tail(q), o)
  <2> SUFFICES ASSUME NEW i \in DOMAIN Tail(q), NEW j \in DOMAIN Tail(q),
                      IsLocal(Tail(q)[i], o), IsLocal(Tail(q)[j], o)
               PROVE  i = j
    BY DEF OneLocal
  <2>1. IsLocal(q[i + 1], o) /\ IsLocal(q[j + 1], o) /\ i + 1 \in DOMAIN q /\ j + 1 \in DOMAIN q
    BY <1>2, <1>3
  <2>2. i + 1 = j + 1
    BY <1>5, <2>1 DEF OneLocal
  <2> QED
    BY <1>2, <2>2
<1>6. ASSUME OneLocal(q, o), IsLocal(Head(q), o), HasLocal(Tail(q), o) PROVE FALSE
  <2>1. PICK i \in DOMAIN Tail(q) : IsLocal(Tail(q)[i], o)
    BY <1>6 DEF HasLocal
  <2>2. IsLocal(q[i + 1], o) /\ IsLocal(q[1], o) /\ i + 1 \in DOMAIN q /\ 1 \in DOMAIN q
    BY <1>1, <1>2, <1>3, <1>6, <2>1
  <2>3. i + 1 = 1
    BY <1>6, <2>2 DEF OneLocal
  <2> QED
    BY <1>2, <2>1, <2>3
<1> QED
  BY <1>1, <1>2, <1>3, <1>4, <1>5, <1>6
-----------------------------------------------------------------------------
(***************************************************************************)
(* Changes that leave tasks, slots and transfers alone                     *)
(***************************************************************************)

\* Only the status of the manager, its lists of tasks, the store that is due, or a block
\* that ends no task.
Alike(s, r) ==
  /\ r \in Managers
  /\ r.obj = s.obj /\ r.net = s.net /\ r.mapper = s.mapper /\ r.running = s.running
  /\ r.tasks \in Seq(DOMAIN s.obj) /\ r.succeeded \in Seq(DOMAIN s.obj)
  /\ \/ r.queue = s.queue
     \/ \E job \in AllJobs : /\ job.op # "local" /\ JobKnown(s, job)
                             /\ r.queue = Append(s.queue, job)

\* The lists stay too.
Quiet(s, r) ==
  /\ Alike(s, r)
  /\ r.tasks = s.tasks /\ r.succeeded = s.succeeded /\ r.apart = s.apart

LEMMA AlikeGood ==
  ASSUME NEW s, NEW fs, Good(s, fs), NEW r, Alike(s, r)
  PROVE  Good(r, fs)
<1>1. /\ Known(s) /\ s \in Managers /\ r \in Managers
      /\ s.queue \in Seq(AllJobs) /\ s.obj \in Seq(Objects)
  BY FieldTypes DEF Good, Known, Alike
<1>2. r.obj = s.obj /\ r.net = s.net /\ r.mapper = s.mapper /\ r.running = s.running
  BY DEF Alike
<1>3. \A o : /\ HasLocal(r.queue, o) => HasLocal(s.queue, o)
             /\ OneLocal(s.queue, o) => OneLocal(r.queue, o)
  <2> SUFFICES ASSUME NEW o
               PROVE  /\ HasLocal(r.queue, o) => HasLocal(s.queue, o)
                      /\ OneLocal(s.queue, o) => OneLocal(r.queue, o)
    OBVIOUS
  <2>1. CASE r.queue = s.queue
    BY <2>1
  <2>2. CASE r.queue # s.queue
    <3>1. PICK job \in AllJobs : job.op # "local" /\ r.queue = Append(s.queue, job)
      BY <2>2 DEF Alike
    <3>2. ~IsLocal(job, o)
      BY <3>1 DEF IsLocal
    <3> QED
      BY <1>1, <3>1, <3>2, PostedLocal
  <2> QED
    BY <2>1, <2>2
<1>4. \A i \in DOMAIN r.queue : JobKnown(r, r.queue[i])
  <2>1. \A job : JobKnown(s, job) => JobKnown(r, job)
    BY <1>2 DEF JobKnown
  <2>2. \A i \in DOMAIN s.queue : JobKnown(s, s.queue[i])
    BY <1>1 DEF Known
  <2>3. CASE r.queue = s.queue
    BY <2>1, <2>2, <2>3
  <2>4. CASE r.queue # s.queue
    <3>1. PICK job \in AllJobs : JobKnown(s, job) /\ r.queue = Append(s.queue, job)
      BY <2>4 DEF Alike
    <3>2. \A i \in DOMAIN r.queue : r.queue[i] = job \/ (i \in DOMAIN s.queue /\ r.queue[i] = s.queue[i])
      <4>1. /\ DOMAIN Append(s.queue, job) = 1..Len(s.queue) + 1
            /\ DOMAIN s.queue = 1..Len(s.queue) /\ Len(s.queue) \in Nat
            /\ Append(s.queue, job)[Len(s.queue) + 1] = job
            /\ \A i \in DOMAIN s.queue : Append(s.queue, job)[i] = s.queue[i]
        BY <1>1, Posted
      <4>2. \A i \in 1..Len(s.queue) + 1 : i = Len(s.queue) + 1 \/ i \in 1..Len(s.queue)
        BY <4>1
      <4> QED
        BY <3>1, <4>1, <4>2
    <3> QED
      BY <2>1, <2>2, <3>1, <3>2
  <2> QED
    BY <2>3, <2>4
<1>5. Known(r)
  <2>1. r.tasks \in Seq(DOMAIN r.obj) /\ r.succeeded \in Seq(DOMAIN r.obj)
    BY <1>2 DEF Alike
  <2> QED
    BY <1>1, <1>2, <1>4, <2>1 DEF Known
<1>6. Cardinality(r.running) <= Limit
  BY <1>2 DEF Good
<1>7. ASSUME Whole(r) PROVE Owned(r, fs)
  <2>1. Whole(s)
    BY <1>2, <1>7 DEF Whole, Listed
  <2>2. Owned(s, fs)
    BY <2>1 DEF Good
  <2>3. Live(r) = Live(s)
    BY <1>2 DEF Live
  <2>4. \A o \in DOMAIN r.obj : HasSlot(r, o)
    BY <1>2, <2>2, <2>3 DEF Owned, HasSlot
  <2>5. \A o \in DOMAIN r.obj : EndsOnce(r, o) /\ BlockHasFile(r, o, fs)
    BY <1>2, <1>3, <2>2 DEF Owned, EndsOnce, BlockHasFile
  <2>6. \A t \in Live(r) : LiveIsListed(r, t)
    BY <1>2, <2>2, <2>3 DEF Owned, LiveIsListed
  <2>7. FinishedHasFile(r, fs) /\ DoneHasFile(r, fs)
    BY <1>2, <2>2 DEF Owned, FinishedHasFile, DoneHasFile
  <2> QED
    BY <2>4, <2>5, <2>6, <2>7 DEF Owned
<1> QED
  BY <1>5, <1>6, <1>7 DEF Good

LEMMA QuietGood ==
  ASSUME NEW s, NEW fs, Good(s, fs), NEW r, Quiet(s, r)
  PROVE  Good(r, fs)
BY AlikeGood DEF Quiet

\* Quiet changes follow each other.
LEMMA QuietSelf ==
  ASSUME NEW s, Known(s)
  PROVE  Quiet(s, s)
BY DEF Known, Quiet, Alike

LEMMA QuietStatus ==
  ASSUME NEW s, Known(s), NEW st \in Status
  PROVE  Quiet(s, [s EXCEPT !.status = st]) /\ [s EXCEPT !.status = st].status = st
<1> DEFINE r == [s EXCEPT !.status = st]
<1>1. s \in Managers
  BY DEF Known
<1>2. r \in Managers
  BY <1>1 DEF Managers
<1>3. /\ r.obj = s.obj /\ r.net = s.net /\ r.mapper = s.mapper /\ r.running = s.running
      /\ r.tasks = s.tasks /\ r.succeeded = s.succeeded /\ r.queue = s.queue /\ r.status = st
      /\ r.apart = s.apart
  BY <1>1 DEF Managers
<1> HIDE DEF r
<1>4. Quiet(s, r)
  BY <1>2, <1>3 DEF Quiet, Alike, Known
<1> QED
  BY <1>3, <1>4 DEF r

LEMMA StoreQuiet ==
  ASSUME NEW s, NEW r, Quiet(s, r)
  PROVE  Quiet(s, StoreTasks(r)) /\ StoreTasks(r).status = r.status /\ StoreTasks(r).tasks = r.tasks
<1> DEFINE w == StoreTasks(r)
<1>1. r \in Managers
  BY DEF Quiet, Alike
<1>2. w \in Managers
  BY <1>1 DEF Managers, StoreTasks
<1>3. /\ w.obj = r.obj /\ w.net = r.net /\ w.mapper = r.mapper /\ w.running = r.running
      /\ w.tasks = r.tasks /\ w.succeeded = r.succeeded /\ w.queue = r.queue /\ w.status = r.status
      /\ w.apart = r.apart
  BY <1>1 DEF Managers, StoreTasks
<1> HIDE DEF w
<1>4. Quiet(s, w)
  BY <1>2, <1>3 DEF Quiet, Alike
<1> QED
  BY <1>3, <1>4 DEF w

\* ending: a new status, and no handler to call.
LEMMA EndQuiet ==
  ASSUME NEW s, Known(s), NEW st \in Status
  PROVE  Quiet(s, End(s, st)) /\ End(s, st).status = st /\ End(s, st).tasks = s.tasks
<1> DEFINE w == [s EXCEPT !.status = st]
           e == ExecuteCompletion(w)
<1>1. s \in Managers
  BY DEF Known
<1>2. Quiet(s, w) /\ w.status = st /\ w.tasks = s.tasks
  <2>1. w.tasks = s.tasks
    BY <1>1 DEF Managers
  <2> HIDE DEF w
  <2> QED
    BY <2>1, QuietStatus DEF w
<1>3. e = [w EXCEPT !.main = @ \o w.handler]
  BY DEF ExecuteCompletion
<1> HIDE DEF w, e
<1>4. w \in Managers /\ w.handler = <<>> /\ w.main = <<>>
  BY <1>2, FieldTypes DEF Quiet, Alike
<1>5. w.main \o w.handler = <<>>
  BY <1>4
<1>6. e = [w EXCEPT !.main = <<>>]
  BY <1>3, <1>5
<1>7. e \in Managers
  BY <1>4, <1>6 DEF Managers
<1>8. /\ e.obj = w.obj /\ e.net = w.net /\ e.mapper = w.mapper /\ e.running = w.running
      /\ e.tasks = w.tasks /\ e.succeeded = w.succeeded /\ e.queue = w.queue /\ e.status = w.status
      /\ e.apart = w.apart
  BY <1>4, <1>6 DEF Managers
<1>9. Quiet(s, e)
  BY <1>2, <1>7, <1>8 DEF Quiet, Alike
<1>10. End(s, st) = StoreTasks(e)
  BY DEF End, e, w
<1> QED
  BY <1>2, <1>8, <1>9, <1>10, StoreQuiet

\* Posting a block that ends no task.
LEMMA PostQuiet ==
  ASSUME NEW s, NEW r, Quiet(s, r), r.queue = s.queue, Known(s),
         NEW job \in AllJobs, job.op # "local", JobKnown(s, job)
  PROVE  /\ Quiet(s, Async(r, job)) /\ Async(r, job).status = r.status
         /\ Async(r, job).tasks = r.tasks
<1> DEFINE w == Async(r, job)
<1>1. r \in Managers /\ s.queue \in Seq(AllJobs)
  BY FieldTypes DEF Quiet, Alike, Known
<1>2. Append(r.queue, job) \in Seq(AllJobs)
  BY <1>1, Posted
<1>3. w = [r EXCEPT !.queue = Append(r.queue, job)]
  BY DEF Async
<1> HIDE DEF w
<1>4. w \in Managers
  BY <1>1, <1>2, <1>3 DEF Managers
<1>5. /\ w.obj = r.obj /\ w.net = r.net /\ w.mapper = r.mapper /\ w.running = r.running
      /\ w.tasks = r.tasks /\ w.succeeded = r.succeeded /\ w.queue = Append(r.queue, job)
      /\ w.status = r.status /\ w.apart = r.apart
  BY <1>1, <1>3 DEF Managers
<1>6. Quiet(s, w)
  BY <1>4, <1>5 DEF Quiet, Alike
<1> QED
  BY <1>5, <1>6 DEF w

\* What the manager is now, and the block for the next task.  It says that it has succeeded
\* only when every task has.
LEMMA DetermineQuiet ==
  ASSUME NEW s, Known(s), NEW fromRunning \in BOOLEAN
  PROVE  LET r == DetermineStatus(s, fromRunning)
         IN  /\ Quiet(s, r)
             /\ r.tasks = s.tasks
             /\ r.status = "succeeded" => s.status = "succeeded" \/ AllIn(r, {"succeeded"})
<1> DEFINE r == DetermineStatus(s, fromRunning)
           st == IF AllIn(s, {"succeeded"}) THEN "succeeded" ELSE "failed"
           next == [op |-> "next"]
<1>1. /\ "removed" \in Status /\ "canceled" \in Status /\ "suspended" \in Status
      /\ st \in Status /\ st \in {"succeeded", "failed"}
      /\ st = "succeeded" => AllIn(s, {"succeeded"})
  BY DEF Status
<1>2. Quiet(s, s)
  BY QuietSelf
<1>3. next \in AllJobs /\ next.op # "local" /\ JobKnown(s, next)
  BY DEF AllJobs, JobKnown
<1>4. /\ Quiet(s, StoreTasks(s)) /\ StoreTasks(s).status = s.status
      /\ StoreTasks(s).queue = s.queue /\ StoreTasks(s).tasks = s.tasks
  <2>1. StoreTasks(s).queue = s.queue
    BY DEF StoreTasks, Known, Managers
  <2> QED
    BY <1>2, <2>1, StoreQuiet
<1>5. /\ Quiet(s, Async(StoreTasks(s), next)) /\ Async(StoreTasks(s), next).status = s.status
      /\ Async(StoreTasks(s), next).tasks = s.tasks
  BY <1>3, <1>4, PostQuiet
<1>6. \/ r \in {s, StoreTasks(s), Async(StoreTasks(s), next)}
      \/ r \in {End(s, "removed"), End(s, "canceled"), End(s, "suspended")}
      \/ r = End(s, st)
  BY DEF DetermineStatus
<1>7. \A x \in {"removed", "canceled", "suspended"} :
        Quiet(s, End(s, x)) /\ End(s, x).status = x /\ End(s, x).tasks = s.tasks
  BY <1>1, EndQuiet
<1>8. /\ Quiet(s, End(s, st)) /\ End(s, st).status = st /\ End(s, st).tasks = s.tasks
      /\ End(s, st).obj = s.obj
  <2>1. Quiet(s, End(s, st)) /\ End(s, st).status = st /\ End(s, st).tasks = s.tasks
    BY <1>1, EndQuiet
  <2> QED
    BY <2>1 DEF Quiet, Alike
<1>9. st = "succeeded" => AllIn(End(s, st), {"succeeded"})
  BY <1>1, <1>8 DEF AllIn
<1> HIDE DEF r, next, st
<1>10. /\ Quiet(s, r) /\ r.tasks = s.tasks
       /\ r.status = "succeeded" => s.status = "succeeded" \/ AllIn(r, {"succeeded"})
  <2>1. CASE r \in {s, StoreTasks(s), Async(StoreTasks(s), next)}
    BY <1>2, <1>4, <1>5, <2>1
  <2>2. CASE r \in {End(s, "removed"), End(s, "canceled"), End(s, "suspended")}
    BY <1>7, <2>2
  <2>3. CASE r = End(s, st)
    BY <1>8, <1>9, <2>3
  <2> QED
    BY <1>6, <2>1, <2>2, <2>3
<1> QED
  BY <1>10 DEF r
-----------------------------------------------------------------------------
(***************************************************************************)
(* Changes of one task                                                     *)
(***************************************************************************)

\* The task o, its slot and its blocks may change, and transfers go on or are added; a task
\* with a transfer keeps one.
Changes(s, r, o) ==
  /\ r \in Managers
  /\ r.mapper = s.mapper /\ r.tasks = s.tasks /\ r.succeeded = s.succeeded
  /\ r.apart = s.apart
  /\ DOMAIN r.obj = DOMAIN s.obj
  /\ \A p \in DOMAIN s.obj : r.obj[p].url = s.obj[p].url /\ (p # o => r.obj[p] = s.obj[p])
  /\ s.obj[o].transfer # None => r.obj[o].transfer # None
  /\ r.obj[o].transfer \in DOMAIN r.net \cup {None}
  /\ r.running \subseteq DOMAIN s.obj
  /\ \A p \in DOMAIN s.obj : p # o => (p \in r.running <=> p \in s.running)
  /\ r.queue = s.queue \/ r.queue = Append(s.queue, Local(o))
  /\ \A t \in DOMAIN s.net :
        /\ t \in DOMAIN r.net /\ r.net[t].url = s.net[t].url
        /\ r.net[t].state = "done" <=> s.net[t].state = "done"
        /\ r.net[t].state = "finished" => s.net[t].state = "finished"

\* The task o, as Owned has it for each task.
OwnsTask(s, o, fs) ==
  /\ HasSlot(s, o) /\ EndsOnce(s, o) /\ BlockHasFile(s, o, fs)
  /\ s.obj[o].status = "succeeded" => s.obj[o].url \in fs

LEMMA ChangedKnown ==
  ASSUME NEW s, Known(s), NEW o \in DOMAIN s.obj, NEW r, Changes(s, r, o)
  PROVE  Known(r)
<1>1. /\ s \in Managers /\ r \in Managers /\ s.queue \in Seq(AllJobs)
  BY FieldTypes DEF Known, Changes
<1>2. /\ r.mapper = s.mapper /\ r.tasks = s.tasks /\ r.succeeded = s.succeeded
      /\ DOMAIN r.obj = DOMAIN s.obj
      /\ \A p \in DOMAIN s.obj : r.obj[p].url = s.obj[p].url /\ (p # o => r.obj[p] = s.obj[p])
  BY DEF Changes
<1>3. \A p \in DOMAIN r.obj : r.obj[p].transfer \in DOMAIN r.net \cup {None}
  <2> SUFFICES ASSUME NEW p \in DOMAIN s.obj PROVE r.obj[p].transfer \in DOMAIN r.net \cup {None}
    BY <1>2
  <2>1. CASE p = o
    BY <2>1 DEF Changes
  <2>2. CASE p # o
    <3>1. r.obj[p] = s.obj[p] /\ s.obj[p].transfer \in DOMAIN s.net \cup {None}
      BY <1>2, <2>2 DEF Known
    <3>2. DOMAIN s.net \subseteq DOMAIN r.net
      BY DEF Changes
    <3> QED
      BY <3>1, <3>2
  <2> QED
    BY <2>1, <2>2
<1>4. \A job : JobKnown(s, job) => JobKnown(r, job)
  BY <1>2 DEF JobKnown
<1>5. \A i \in DOMAIN r.queue : JobKnown(r, r.queue[i])
  <2>1. \A i \in DOMAIN s.queue : JobKnown(s, s.queue[i])
    BY DEF Known
  <2>2. CASE r.queue = s.queue
    BY <1>4, <2>1, <2>2
  <2>3. CASE r.queue = Append(s.queue, Local(o))
    <3>1. o \in Nat
      BY <1>1, ObjectTypes
    <3>2. Local(o) \in AllJobs /\ JobKnown(s, Local(o))
      BY <3>1, LocalJob DEF JobKnown
    <3>3. /\ DOMAIN Append(s.queue, Local(o)) = 1..Len(s.queue) + 1
          /\ DOMAIN s.queue = 1..Len(s.queue) /\ Len(s.queue) \in Nat
          /\ Append(s.queue, Local(o))[Len(s.queue) + 1] = Local(o)
          /\ \A i \in DOMAIN s.queue : Append(s.queue, Local(o))[i] = s.queue[i]
      BY <1>1, <3>2, Posted
    <3>4. \A i \in 1..Len(s.queue) + 1 : i = Len(s.queue) + 1 \/ i \in 1..Len(s.queue)
      BY <3>3
    <3>5. \A i \in DOMAIN r.queue : r.queue[i] = Local(o) \/ (i \in DOMAIN s.queue /\ r.queue[i] = s.queue[i])
      BY <2>3, <3>3, <3>4
    <3> QED
      BY <1>4, <2>1, <3>2, <3>5
  <2> QED
    BY <2>2, <2>3 DEF Changes
<1>6. /\ r.running \subseteq DOMAIN r.obj
      /\ r.tasks \in Seq(DOMAIN r.obj) /\ r.succeeded \in Seq(DOMAIN r.obj)
      /\ \A u \in Urls : r.mapper[u] # None =>
           r.mapper[u] \in DOMAIN r.obj /\ r.obj[r.mapper[u]].url = u
  BY <1>2 DEF Changes, Known
<1> QED
  BY <1>1, <1>3, <1>5, <1>6 DEF Known

\* A change of one task keeps the invariant when that task is as it must be, and a transfer
\* that is new is that of a task that is listed.
LEMMA ChangedGood ==
  ASSUME NEW s, NEW fs, Good(s, fs), NEW o \in DOMAIN s.obj, NEW r, Changes(s, r, o),
         Cardinality(r.running) <= Limit,
         Whole(s) /\ Owned(s, fs) /\ Whole(r) =>
           /\ OwnsTask(r, o, fs)
           /\ s.obj[o].transfer # None => r.obj[o].transfer = s.obj[o].transfer
           /\ \A t \in DOMAIN r.net \ DOMAIN s.net :
                LiveIsListed(r, t) /\ r.net[t].state # "finished"
  PROVE  Good(r, fs)
<1>1. Known(s) /\ Known(r) /\ s \in Managers /\ s.queue \in Seq(AllJobs)
  <2>1. Known(s)
    BY DEF Good
  <2>2. Known(r)
    BY <2>1, ChangedKnown
  <2>3. s \in Managers
    BY <2>1 DEF Known
  <2> QED
    BY <2>1, <2>2, <2>3, FieldTypes
<1>2. ASSUME Whole(r) PROVE Owned(r, fs)
  <2>1. /\ r.mapper = s.mapper /\ DOMAIN r.obj = DOMAIN s.obj
        /\ \A p \in DOMAIN s.obj : r.obj[p].url = s.obj[p].url /\ (p # o => r.obj[p] = s.obj[p])
        /\ s.obj[o].transfer # None => r.obj[o].transfer # None
        /\ \A p \in DOMAIN s.obj : p # o => (p \in r.running <=> p \in s.running)
        /\ \A t \in DOMAIN s.net :
             /\ t \in DOMAIN r.net /\ r.net[t].url = s.net[t].url
             /\ r.net[t].state = "done" <=> s.net[t].state = "done"
             /\ r.net[t].state = "finished" => s.net[t].state = "finished"
    BY DEF Changes
  <2>2. Whole(s)
    <3> SUFFICES ASSUME NEW p \in DOMAIN s.obj, s.obj[p].transfer # None PROVE Listed(s, p)
      BY DEF Whole
    <3>1. r.obj[p].transfer # None /\ p \in DOMAIN r.obj
      BY <2>1
    <3> QED
      BY <1>2, <2>1, <3>1 DEF Whole, Listed
  <2>3. /\ Owned(s, fs) /\ OwnsTask(r, o, fs)
        /\ s.obj[o].transfer # None => r.obj[o].transfer = s.obj[o].transfer
        /\ \A t \in DOMAIN r.net \ DOMAIN s.net : LiveIsListed(r, t) /\ r.net[t].state # "finished"
    BY <1>2, <2>2 DEF Good
  <2>4. \A p \in DOMAIN s.obj : p # o =>
          (HasLocal(r.queue, p) <=> HasLocal(s.queue, p)) /\ (OneLocal(s.queue, p) => OneLocal(r.queue, p))
    <3> SUFFICES ASSUME NEW p \in DOMAIN s.obj, p # o
                 PROVE  /\ HasLocal(r.queue, p) <=> HasLocal(s.queue, p)
                        /\ OneLocal(s.queue, p) => OneLocal(r.queue, p)
      OBVIOUS
    <3>1. CASE r.queue = s.queue
      BY <3>1
    <3>2. CASE r.queue = Append(s.queue, Local(o))
      <4>1. o \in Nat
        BY <1>1, ObjectTypes
      <4>2. Local(o) \in AllJobs /\ ~IsLocal(Local(o), p)
        BY <4>1, LocalJob
      <4> QED
        BY <1>1, <3>2, <4>2, PostedLocal
    <3> QED
      BY <3>1, <3>2 DEF Changes
  <2>5. \A t \in DOMAIN s.net : t \in Live(r) <=> t \in Live(s)
    BY <2>1 DEF Live
  <2>6. ASSUME NEW p \in DOMAIN r.obj, p # o
        PROVE  HasSlot(r, p) /\ EndsOnce(r, p) /\ BlockHasFile(r, p, fs)
    <3>1. /\ p \in DOMAIN s.obj /\ r.obj[p] = s.obj[p]
          /\ p \in r.running <=> p \in s.running
          /\ HasLocal(r.queue, p) <=> HasLocal(s.queue, p)
          /\ OneLocal(s.queue, p) => OneLocal(r.queue, p)
          /\ HasSlot(s, p) /\ EndsOnce(s, p) /\ BlockHasFile(s, p, fs)
      BY <2>1, <2>3, <2>4, <2>6 DEF Owned
    <3>2. HasSlot(r, p)
      <4> DEFINE t == s.obj[p].transfer
      <4>1. t \in DOMAIN s.net \cup {None}
        BY <1>1, <3>1 DEF Known
      <4>2. t # None => (t \in Live(r) <=> t \in Live(s)) /\ r.net[t].url = s.net[t].url
        BY <2>1, <2>5, <4>1
      <4> QED
        BY <3>1, <4>2 DEF HasSlot
    <3>3. EndsOnce(r, p)
      BY <3>1 DEF EndsOnce
    <3>4. BlockHasFile(r, p, fs)
      BY <3>1 DEF BlockHasFile
    <3> QED
      BY <3>2, <3>3, <3>4
  <2>7. \A p \in DOMAIN r.obj : HasSlot(r, p) /\ EndsOnce(r, p) /\ BlockHasFile(r, p, fs)
    BY <2>3, <2>6 DEF OwnsTask
  <2>8. ASSUME NEW t \in Live(r) PROVE LiveIsListed(r, t)
    <3>1. t \in DOMAIN r.net
      BY DEF Live
    <3>2. CASE t \notin DOMAIN s.net
      BY <2>3, <3>1, <3>2
    <3>3. CASE t \in DOMAIN s.net
      <4>1. LiveIsListed(s, t) /\ r.net[t].url = s.net[t].url
        BY <2>1, <2>3, <2>5, <3>3 DEF Owned
      <4> DEFINE p == s.mapper[s.net[t].url]
      <4>2. p # None /\ s.obj[p].transfer = t
        BY <4>1 DEF LiveIsListed
      <4>3. s.net[t].url \in Urls /\ t # None
        <5>1. s.net \in Seq(Nets)
          BY <1>1, FieldTypes
        <5>2. s.net[t] \in Nets /\ t # None
          BY <3>3, <5>1 DEF None
        <5> QED
          BY <5>2 DEF Nets
      <4>4. p \in DOMAIN s.obj
        BY <1>1, <4>2, <4>3 DEF Known
      <4>5. r.obj[p].transfer = t
        BY <2>1, <2>3, <4>2, <4>3, <4>4
      <4> QED
        BY <2>1, <4>1, <4>2, <4>5 DEF LiveIsListed
    <3> QED
      BY <3>2, <3>3
  <2>9. FinishedHasFile(r, fs)
    <3> SUFFICES ASSUME NEW t \in DOMAIN r.net, r.net[t].state = "finished" PROVE r.net[t].url \in fs
      BY DEF FinishedHasFile
    <3>1. t \in DOMAIN s.net
      BY <2>3
    <3>2. s.net[t].state = "finished" /\ r.net[t].url = s.net[t].url
      BY <2>1, <3>1
    <3> QED
      BY <2>3, <3>1, <3>2 DEF Owned, FinishedHasFile
  <2>10. DoneHasFile(r, fs)
    <3> SUFFICES ASSUME NEW p \in DOMAIN r.obj, r.obj[p].status = "succeeded" PROVE r.obj[p].url \in fs
      BY DEF DoneHasFile
    <3>1. CASE p = o
      BY <2>3, <3>1 DEF OwnsTask
    <3>2. CASE p # o
      BY <2>1, <2>3, <3>2 DEF Owned, DoneHasFile
    <3> QED
      BY <3>1, <3>2
  <2> QED
    BY <2>7, <2>8, <2>9, <2>10 DEF Owned
<1> QED
  BY <1>1, <1>2 DEF Good
-----------------------------------------------------------------------------
\* The file of each task is in the cache.
TasksHaveFiles(s, fs) == \A i \in DOMAIN s.tasks : s.obj[s.tasks[i]].url \in fs

\* What a change does not do: a task succeeds, and the manager says that it has, only with
\* the files.
Ends(s, r, fs) ==
  DoneHasFile(s, fs) =>
    /\ DoneHasFile(r, fs)
    /\ r.status = "succeeded" => s.status = "succeeded" \/ TasksHaveFiles(r, fs)

\* Such a change of the tasks that are there.
Follows(s, r, fs) ==
  /\ r.tasks = s.tasks
  /\ DOMAIN r.obj = DOMAIN s.obj
  /\ \A p \in DOMAIN s.obj : r.obj[p].url = s.obj[p].url
  /\ Ends(s, r, fs)

LEMMA FollowsTwice ==
  ASSUME NEW s, Known(s), NEW r, NEW w, NEW fs, Follows(s, r, fs), Follows(r, w, fs)
  PROVE  Follows(s, w, fs)
<1>1. /\ w.tasks = r.tasks /\ r.tasks = s.tasks /\ DOMAIN w.obj = DOMAIN s.obj
      /\ \A p \in DOMAIN s.obj : w.obj[p].url = s.obj[p].url /\ w.obj[p].url = r.obj[p].url
  BY DEF Follows
<1>2. \A i \in DOMAIN s.tasks : s.tasks[i] \in DOMAIN s.obj
  BY DEF Known
<1>3. TasksHaveFiles(r, fs) => TasksHaveFiles(w, fs)
  BY <1>1, <1>2 DEF TasksHaveFiles
<1>4. Ends(s, w, fs)
  BY <1>3 DEF Follows, Ends
<1> QED
  BY <1>1, <1>4 DEF Follows

LEMMA EndsTwice ==
  ASSUME NEW s, NEW r, NEW w, NEW fs, Ends(s, r, fs), Ends(r, w, fs),
         r.status = "succeeded" => s.status = "succeeded"
  PROVE  Ends(s, w, fs)
BY DEF Ends

LEMMA AlikeFollows ==
  ASSUME NEW s, NEW r, NEW fs, Alike(s, r), r.tasks = s.tasks,
         r.status = "succeeded" => s.status = "succeeded"
  PROVE  Follows(s, r, fs)
BY DEF Follows, Ends, Alike, DoneHasFile

\* A change of one task that does not let it succeed without its file.
LEMMA ChangesFollows ==
  ASSUME NEW s, NEW fs, NEW o \in DOMAIN s.obj, NEW r, Changes(s, r, o), r.status = s.status,
         r.obj[o].status = "succeeded" /\ DoneHasFile(s, fs) => s.obj[o].url \in fs
  PROVE  Follows(s, r, fs)
<1>1. /\ r.tasks = s.tasks /\ DOMAIN r.obj = DOMAIN s.obj
      /\ \A p \in DOMAIN s.obj : r.obj[p].url = s.obj[p].url /\ (p # o => r.obj[p] = s.obj[p])
  BY DEF Changes
<1>2. ASSUME DoneHasFile(s, fs), NEW p \in DOMAIN r.obj, r.obj[p].status = "succeeded"
      PROVE  r.obj[p].url \in fs
  <2>1. CASE p = o
    BY <1>1, <1>2, <2>1
  <2>2. CASE p # o
    BY <1>1, <1>2, <2>2 DEF DoneHasFile
  <2> QED
    BY <2>1, <2>2
<1>3. Ends(s, r, fs)
  BY <1>2 DEF Ends, DoneHasFile
<1> QED
  BY <1>1, <1>3 DEF Follows

LEMMA SetStatusFields ==
  ASSUME NEW s, s \in Managers, NEW o \in DOMAIN s.obj, NEW st \in Status
  PROVE  LET r == SetStatus(s, o, st)
         IN  /\ r \in Managers
             /\ DOMAIN r.obj = DOMAIN s.obj
             /\ r.obj[o].url = s.obj[o].url /\ r.obj[o].transfer = s.obj[o].transfer
             /\ r.obj[o].status = st
             /\ \A p \in DOMAIN s.obj : p # o => r.obj[p] = s.obj[p]
             /\ r.status = s.status /\ r.tasks = s.tasks /\ r.mapper = s.mapper
             /\ r.running = s.running /\ r.succeeded = s.succeeded /\ r.net = s.net
             /\ r.queue = s.queue /\ r.apart = s.apart
<1> DEFINE e == [s.obj[o] EXCEPT !.status = st]
           q == [s.obj EXCEPT ![o] = e]
           r == SetStatus(s, o, st)
<1>1. s.obj \in Seq(Objects) /\ s.obj[o] \in Objects
  BY FieldTypes, ObjectTypes
<1>2. e \in Objects /\ e.url = s.obj[o].url /\ e.transfer = s.obj[o].transfer /\ e.status = st
  BY <1>1 DEF Objects
<1>3. r = [s EXCEPT !.obj = q]
  BY DEF SetStatus
<1> HIDE DEF e
<1>4. /\ q \in Seq(Objects) /\ DOMAIN q = DOMAIN s.obj /\ q[o] = e
      /\ \A p \in DOMAIN s.obj : p # o => q[p] = s.obj[p]
  BY <1>1, <1>2
<1> HIDE DEF q, r
<1>5. r \in Managers
  BY <1>3, <1>4 DEF Managers
<1>6. /\ r.obj = q
      /\ r.status = s.status /\ r.tasks = s.tasks /\ r.mapper = s.mapper
      /\ r.running = s.running /\ r.succeeded = s.succeeded /\ r.net = s.net
      /\ r.queue = s.queue /\ r.apart = s.apart
  BY <1>3, <1>4 DEF Managers
<1> QED
  BY <1>2, <1>4, <1>5, <1>6 DEF r

LEMMA StatusChanges ==
  ASSUME NEW s, Known(s), NEW o \in DOMAIN s.obj, NEW st \in Status
  PROVE  Changes(s, SetStatus(s, o, st), o)
<1> DEFINE r == SetStatus(s, o, st)
<1>1. s \in Managers /\ s.obj[o].transfer \in DOMAIN s.net \cup {None} /\ s.running \subseteq DOMAIN s.obj
  BY DEF Known
<1>2. /\ r \in Managers
      /\ DOMAIN r.obj = DOMAIN s.obj
      /\ r.obj[o].url = s.obj[o].url /\ r.obj[o].transfer = s.obj[o].transfer
      /\ r.obj[o].status = st
      /\ \A p \in DOMAIN s.obj : p # o => r.obj[p] = s.obj[p]
      /\ r.status = s.status /\ r.tasks = s.tasks /\ r.mapper = s.mapper
      /\ r.running = s.running /\ r.succeeded = s.succeeded /\ r.net = s.net
      /\ r.queue = s.queue /\ r.apart = s.apart
  BY <1>1, SetStatusFields
<1> HIDE DEF r
<1>3. Changes(s, r, o)
  BY <1>1, <1>2 DEF Changes
<1> QED
  BY <1>3 DEF r

\* A new status that agrees with the transfer and the blocks of the task.
LEMMA SetStatusGood ==
  ASSUME NEW s, NEW fs, Good(s, fs), NEW o \in DOMAIN s.obj, NEW st \in Status,
         Whole(s) /\ Owned(s, fs) =>
           /\ s.obj[o].transfer # None => st \in {"running"} \cup Stopping
           /\ st \in {"waiting", "suspended", "failed"} => ~HasLocal(s.queue, o)
           /\ st \in {"running", "willSuspend"} =>
                /\ OneLocal(s.queue, o)
                /\ s.obj[o].transfer # None => ~HasLocal(s.queue, o)
           /\ st = "running" /\ HasLocal(s.queue, o) => s.obj[o].url \in fs
           /\ st = "succeeded" => s.obj[o].url \in fs
  PROVE  Good(SetStatus(s, o, st), fs)
<1> DEFINE r == SetStatus(s, o, st)
<1>1. Known(s) /\ s \in Managers /\ Cardinality(s.running) <= Limit
  BY DEF Good, Known
<1>2. Changes(s, r, o)
  BY <1>1, StatusChanges
<1>3. /\ DOMAIN r.obj = DOMAIN s.obj
      /\ r.obj[o].url = s.obj[o].url /\ r.obj[o].transfer = s.obj[o].transfer
      /\ r.obj[o].status = st
      /\ r.running = s.running /\ r.net = s.net /\ r.queue = s.queue
  BY <1>1, SetStatusFields
<1> HIDE DEF r
<1>4. ASSUME Whole(s), Owned(s, fs) PROVE OwnsTask(r, o, fs)
  <2>1. HasSlot(s, o) /\ Live(r) = Live(s)
    BY <1>3, <1>4 DEF Owned, Live
  <2>2. /\ s.obj[o].transfer # None => st \in {"running"} \cup Stopping
        /\ st \in {"waiting", "suspended", "failed"} => ~HasLocal(s.queue, o)
        /\ st \in {"running", "willSuspend"} =>
             /\ OneLocal(s.queue, o)
             /\ s.obj[o].transfer # None => ~HasLocal(s.queue, o)
        /\ st = "running" /\ HasLocal(s.queue, o) => s.obj[o].url \in fs
        /\ st = "succeeded" => s.obj[o].url \in fs
    BY <1>4
  <2>3. HasSlot(r, o)
    BY <1>3, <2>1, <2>2 DEF HasSlot
  <2>4. EndsOnce(r, o)
    BY <1>3, <2>2 DEF EndsOnce
  <2>5. BlockHasFile(r, o, fs) /\ (r.obj[o].status = "succeeded" => r.obj[o].url \in fs)
    BY <1>3, <2>2 DEF BlockHasFile
  <2> QED
    BY <2>3, <2>4, <2>5 DEF OwnsTask
<1>5. Cardinality(r.running) <= Limit /\ DOMAIN r.net \ DOMAIN s.net = {}
  BY <1>1, <1>3
<1>6. Good(r, fs)
  BY <1>2, <1>3, <1>4, <1>5, ChangedGood
<1> QED
  BY <1>6 DEF r

LEMMA SetStatusFollows ==
  ASSUME NEW s, NEW fs, Known(s), NEW o \in DOMAIN s.obj, NEW st \in Status,
         st = "succeeded" /\ DoneHasFile(s, fs) => s.obj[o].url \in fs
  PROVE  Follows(s, SetStatus(s, o, st), fs) /\ SetStatus(s, o, st).status = s.status
<1> DEFINE r == SetStatus(s, o, st)
<1>1. Changes(s, r, o)
  BY StatusChanges
<1>2. r.obj[o].status = st /\ r.status = s.status
  BY SetStatusFields DEF Known
<1> HIDE DEF r
<1>3. Follows(s, r, fs)
  BY <1>1, <1>2, ChangesFollows
<1> QED
  BY <1>2, <1>3 DEF r

\* A task gets a block that ends it: one that is stopped, or one whose file is there.
LEMMA PostLocalFields ==
  ASSUME NEW s, Known(s), NEW o \in DOMAIN s.obj, NEW st \in Status
  PROVE  LET r == Async(SetStatus(s, o, st), Local(o))
         IN  /\ Changes(s, r, o)
             /\ DOMAIN r.obj = DOMAIN s.obj
             /\ r.obj[o].url = s.obj[o].url /\ r.obj[o].transfer = s.obj[o].transfer
             /\ r.obj[o].status = st
             /\ r.running = s.running /\ r.net = s.net
             /\ r.queue = Append(s.queue, Local(o))
             /\ r.status = s.status
             /\ \A p \in DOMAIN s.obj : p # o => r.obj[p] = s.obj[p]
<1> DEFINE w == SetStatus(s, o, st)
           r == Async(w, Local(o))
<1>1. /\ s \in Managers /\ s.obj[o].transfer \in DOMAIN s.net \cup {None}
      /\ s.running \subseteq DOMAIN s.obj
  BY DEF Known
<1>2. /\ w \in Managers
      /\ DOMAIN w.obj = DOMAIN s.obj
      /\ w.obj[o].url = s.obj[o].url /\ w.obj[o].transfer = s.obj[o].transfer
      /\ w.obj[o].status = st
      /\ \A p \in DOMAIN s.obj : p # o => w.obj[p] = s.obj[p]
      /\ w.status = s.status /\ w.tasks = s.tasks /\ w.mapper = s.mapper
      /\ w.running = s.running /\ w.succeeded = s.succeeded /\ w.net = s.net
      /\ w.queue = s.queue /\ w.apart = s.apart
  BY <1>1, SetStatusFields
<1>3. r = [w EXCEPT !.queue = Append(w.queue, Local(o))]
  BY DEF Async
<1>4. Append(w.queue, Local(o)) \in Seq(AllJobs)
  <2>1. w.queue \in Seq(AllJobs) /\ o \in Nat
    BY <1>1, <1>2, FieldTypes, ObjectTypes
  <2> QED
    BY <2>1, LocalJob, Posted
<1> HIDE DEF w, r
<1>5. r \in Managers
  BY <1>2, <1>3, <1>4 DEF Managers
<1>6. /\ r.obj = w.obj
      /\ r.status = w.status /\ r.tasks = w.tasks /\ r.mapper = w.mapper
      /\ r.running = w.running /\ r.succeeded = w.succeeded /\ r.net = w.net
      /\ r.queue = Append(w.queue, Local(o)) /\ r.apart = w.apart
  BY <1>2, <1>3 DEF Managers
<1>7. Changes(s, r, o)
  BY <1>1, <1>2, <1>5, <1>6 DEF Changes
<1> QED
  BY <1>2, <1>6, <1>7 DEF r, w

LEMMA PostLocalGood ==
  ASSUME NEW s, NEW fs, Good(s, fs), NEW o \in DOMAIN s.obj, NEW st \in {"running"} \cup Stopping,
         Whole(s) /\ Owned(s, fs) /\ st \in {"running", "willSuspend"} =>
           s.obj[o].transfer = None /\ ~HasLocal(s.queue, o),
         st = "running" => s.obj[o].url \in fs
  PROVE  /\ Good(Async(SetStatus(s, o, st), Local(o)), fs)
         /\ Follows(s, Async(SetStatus(s, o, st), Local(o)), fs)
<1> DEFINE r == Async(SetStatus(s, o, st), Local(o))
<1>1. Known(s) /\ s \in Managers /\ Cardinality(s.running) <= Limit /\ st \in Status
  BY DEF Good, Known, Status, Stopping
<1>2. /\ Changes(s, r, o)
      /\ DOMAIN r.obj = DOMAIN s.obj
      /\ r.obj[o].url = s.obj[o].url /\ r.obj[o].transfer = s.obj[o].transfer
      /\ r.obj[o].status = st
      /\ r.running = s.running /\ r.net = s.net
      /\ r.queue = Append(s.queue, Local(o))
      /\ r.status = s.status
      /\ \A p \in DOMAIN s.obj : p # o => r.obj[p] = s.obj[p]
  BY <1>1, PostLocalFields
<1> HIDE DEF r
<1>3. s.queue \in Seq(AllJobs) /\ Local(o) \in AllJobs
  <2>1. o \in Nat
    BY <1>1, ObjectTypes
  <2> QED
    BY <1>1, <2>1, FieldTypes, LocalJob
<1>4. st \notin {"waiting", "suspended", "failed", "succeeded"}
  BY DEF Stopping
<1>5. ASSUME Whole(s), Owned(s, fs) PROVE OwnsTask(r, o, fs)
  <2>1. HasSlot(s, o) /\ Live(r) = Live(s)
    BY <1>2, <1>5 DEF Owned, Live
  <2>2. HasSlot(r, o)
    BY <1>2, <2>1 DEF HasSlot
  <2>3. EndsOnce(r, o)
    <3>1. st \in {"running", "willSuspend"} => s.obj[o].transfer = None /\ ~HasLocal(s.queue, o)
      BY <1>5
    <3>2. ~HasLocal(s.queue, o) => OneLocal(r.queue, o)
      BY <1>2, <1>3, PostedLocal
    <3> QED
      BY <1>2, <1>4, <3>1, <3>2 DEF EndsOnce
  <2>4. BlockHasFile(r, o, fs) /\ (r.obj[o].status = "succeeded" => r.obj[o].url \in fs)
    BY <1>2, <1>4 DEF BlockHasFile
  <2> QED
    BY <2>2, <2>3, <2>4 DEF OwnsTask
<1>6. Cardinality(r.running) <= Limit /\ DOMAIN r.net \ DOMAIN s.net = {}
  BY <1>1, <1>2
<1>7. Good(r, fs)
  BY <1>2, <1>5, <1>6, ChangedGood
<1>8. Follows(s, r, fs)
  BY <1>2, <1>4, ChangesFollows
<1> QED
  BY <1>7, <1>8 DEF r

\* A transfer that is cancelled stays under way.
LEMMA CutFields ==
  ASSUME NEW s, Known(s), NEW o \in DOMAIN s.obj
  PROVE  LET r == CutTransfer(s, o)
         IN  /\ Changes(s, r, o)
             /\ r.obj = s.obj /\ r.running = s.running /\ r.queue = s.queue
             /\ r.status = s.status /\ DOMAIN r.net = DOMAIN s.net
<1> DEFINE t == s.obj[o].transfer
           e == [s.net[t] EXCEPT !.state = "cut"]
           n == [s.net EXCEPT ![t] = e]
           r == [s EXCEPT !.net = n]
<1>1. /\ s \in Managers /\ s.net \in Seq(Nets)
      /\ t \in DOMAIN s.net \cup {None} /\ s.running \subseteq DOMAIN s.obj
  BY FieldTypes DEF Known
<1>2. CASE ~(t # None /\ s.net[t].state = "active")
  <2>1. CutTransfer(s, o) = s
    BY <1>2 DEF CutTransfer
  <2> QED
    BY <1>1, <2>1 DEF Changes
<1>3. CASE t # None /\ s.net[t].state = "active"
  <2>1. CutTransfer(s, o) = r
    BY <1>3 DEF CutTransfer
  <2>2. t \in DOMAIN s.net
    BY <1>1, <1>3
  <2>3. e \in Nets /\ e.url = s.net[t].url /\ e.state = "cut"
    <3>1. s.net[t] \in Nets
      BY <1>1, <2>2
    <3> QED
      BY <3>1 DEF Nets
  <2> HIDE DEF e
  <2>4. /\ n \in Seq(Nets) /\ DOMAIN n = DOMAIN s.net /\ n[t] = e
        /\ \A x \in DOMAIN s.net : x # t => n[x] = s.net[x]
    BY <1>1, <2>2, <2>3
  <2> HIDE DEF n
  <2>5. r \in Managers
    BY <1>1, <2>4 DEF Managers
  <2>6. /\ r.obj = s.obj /\ r.net = n /\ r.mapper = s.mapper /\ r.running = s.running
        /\ r.tasks = s.tasks /\ r.succeeded = s.succeeded /\ r.queue = s.queue
        /\ r.status = s.status /\ r.apart = s.apart
    BY <1>1 DEF Managers
  <2> HIDE DEF r
  <2>7. \A x \in DOMAIN s.net :
          /\ x \in DOMAIN r.net /\ r.net[x].url = s.net[x].url
          /\ r.net[x].state = "done" <=> s.net[x].state = "done"
          /\ r.net[x].state = "finished" => s.net[x].state = "finished"
    BY <1>3, <2>3, <2>4, <2>6
  <2> HIDE DEF t
  <2>8. s.obj[o].transfer \in DOMAIN r.net \cup {None}
    BY <1>1, <2>4, <2>6 DEF t
  <2>9. Changes(s, r, o)
    BY <1>1, <2>5, <2>6, <2>7, <2>8 DEF Changes
  <2> QED
    BY <2>1, <2>4, <2>6, <2>9
<1> QED
  BY <1>2, <1>3

LEMMA CutGood ==
  ASSUME NEW s, NEW fs, Good(s, fs), NEW o \in DOMAIN s.obj
  PROVE  Good(CutTransfer(s, o), fs) /\ Follows(s, CutTransfer(s, o), fs)
<1> DEFINE r == CutTransfer(s, o)
<1>1. Known(s) /\ Cardinality(s.running) <= Limit
  BY DEF Good
<1>2. /\ Changes(s, r, o)
      /\ r.obj = s.obj /\ r.running = s.running /\ r.queue = s.queue
      /\ r.status = s.status /\ DOMAIN r.net = DOMAIN s.net
  BY <1>1, CutFields
<1> HIDE DEF r
<1>3. ASSUME Whole(s), Owned(s, fs) PROVE OwnsTask(r, o, fs)
  <2>1. HasSlot(s, o) /\ EndsOnce(s, o) /\ BlockHasFile(s, o, fs) /\ DoneHasFile(s, fs)
    BY <1>3 DEF Owned
  <2>2. /\ Live(r) = Live(s)
        /\ \A t \in Live(s) : r.net[t].url = s.net[t].url
    BY <1>2 DEF Live, Changes
  <2>3. HasSlot(r, o)
    BY <1>2, <2>1, <2>2 DEF HasSlot
  <2>4. EndsOnce(r, o) /\ BlockHasFile(r, o, fs)
    BY <1>2, <2>1 DEF EndsOnce, BlockHasFile
  <2> QED
    BY <1>2, <2>1, <2>3, <2>4 DEF OwnsTask, DoneHasFile
<1>4. /\ Cardinality(r.running) <= Limit /\ DOMAIN r.net \ DOMAIN s.net = {}
      /\ r.obj[o].transfer = s.obj[o].transfer
  BY <1>1, <1>2
<1>5. Good(r, fs)
  BY <1>2, <1>3, <1>4, ChangedGood
<1>6. Follows(s, r, fs)
  BY <1>2, ChangesFollows DEF DoneHasFile
<1> QED
  BY <1>5, <1>6 DEF r

\* A task that waits, or waits for another start, has neither a transfer nor a block.
LEMMA Startable ==
  ASSUME NEW s, NEW fs, Owned(s, fs), NEW o \in DOMAIN s.obj,
         s.obj[o].status \in {"waiting", "suspended", "failed"}
  PROVE  s.obj[o].transfer = None /\ ~HasLocal(s.queue, o) /\ o \notin s.running
<1>1. HasSlot(s, o) /\ EndsOnce(s, o)
  BY DEF Owned
<1>2. s.obj[o].status \notin {"running"} \cup Stopping
  BY DEF Stopping
<1> QED
  BY <1>1, <1>2 DEF HasSlot, EndsOnce

\* The slots are finitely many.
LEMMA FiniteSlots ==
  ASSUME NEW s, Known(s)
  PROVE  IsFiniteSet(s.running) /\ Cardinality(s.running) \in Nat
<1>1. s.obj \in Seq(Objects)
  BY FieldTypes DEF Known
<1>2. IsFiniteSet(1..Len(s.obj)) /\ DOMAIN s.obj = 1..Len(s.obj)
  <2>1. Len(s.obj) \in Nat /\ DOMAIN s.obj = 1..Len(s.obj)
    BY <1>1
  <2>2. 1 \in Int /\ Len(s.obj) \in Int
    BY <2>1
  <2> QED
    BY <2>1, <2>2, FS_Interval
<1>3. s.running \subseteq 1..Len(s.obj)
  BY <1>2 DEF Known
<1>4. IsFiniteSet(s.running)
  BY <1>2, <1>3, FS_Subset
<1> QED
  BY <1>4, FS_CardinalityType

LEMMA OneMoreSlot ==
  ASSUME NEW s, Known(s), NEW o, Cardinality(s.running) < Limit
  PROVE  Cardinality(s.running \cup {o}) <= Limit
<1>1. IsFiniteSet(s.running) /\ Cardinality(s.running) \in Nat
  BY FiniteSlots
<1>2. Cardinality(s.running \cup {o}) \in {Cardinality(s.running), Cardinality(s.running) + 1}
  BY <1>1, FS_AddElement
<1> QED
  BY <1>1, <1>2, LimitAssumption

\* A new transfer, for a task that waits.
LEMMA StartTransferFields ==
  ASSUME NEW s, Known(s), NEW o \in DOMAIN s.obj
  PROVE  LET r == StartTransfer(s, o)
             t == Len(s.net) + 1
         IN  /\ Changes(s, r, o)
             /\ r.obj[o].url = s.obj[o].url /\ r.obj[o].transfer = t
             /\ r.obj[o].status = "running"
             /\ r.running = s.running \cup {o}
             /\ t \in DOMAIN r.net /\ DOMAIN r.net = DOMAIN s.net \cup {t} /\ t # None
             /\ r.net[t].url = s.obj[o].url /\ r.net[t].state = "active"
             /\ r.queue = s.queue /\ r.status = s.status
<1> DEFINE t == Len(s.net) + 1
           e == [url |-> s.obj[o].url, state |-> "active"]
           n == Append(s.net, e)
           d == [s.obj[o] EXCEPT !.status = "running", !.transfer = t]
           q == [s.obj EXCEPT ![o] = d]
           v == s.running \cup {o}
           r == StartTransfer(s, o)
<1>1. /\ s \in Managers /\ s.net \in Seq(Nets) /\ s.obj \in Seq(Objects) /\ s.obj[o] \in Objects
      /\ s.obj[o].url \in Urls /\ s.running \subseteq DOMAIN s.obj /\ o \in Nat
      /\ s.running \in SUBSET Nat
  BY FieldTypes, ObjectTypes DEF Known
<1>2. r = [s EXCEPT !.net = n, !.obj = q, !.running = v, !.due = TRUE]
  <2>1. q = [s.obj EXCEPT ![o].status = "running", ![o].transfer = t]
    BY <1>1
  <2> QED
    BY <1>1, <2>1 DEF StartTransfer, StoreTasks, Managers
<1>3. e \in Nets /\ e.url = s.obj[o].url /\ e.state = "active"
  BY <1>1 DEF Nets
<1> HIDE DEF e
<1>4. /\ n \in Seq(Nets) /\ DOMAIN n = DOMAIN s.net \cup {t} /\ n[t] = e /\ t # None /\ t \in Nat
      /\ \A x \in DOMAIN s.net : n[x] = s.net[x]
  <2>1. /\ n \in Seq(Nets) /\ DOMAIN n = 1..t /\ DOMAIN s.net = 1..Len(s.net) /\ Len(s.net) \in Nat
        /\ n[t] = e /\ \A x \in DOMAIN s.net : n[x] = s.net[x]
    BY <1>1, <1>3
  <2>2. DOMAIN n = DOMAIN s.net \cup {t} /\ t # None
    BY <2>1 DEF None
  <2> QED
    BY <2>1, <2>2
<1> HIDE DEF n, t
<1>5. /\ d \in Objects /\ d.url = s.obj[o].url /\ d.status = "running" /\ d.transfer = t
  BY <1>1, <1>4 DEF Objects, Status
<1> HIDE DEF d
<1>6. /\ q \in Seq(Objects) /\ DOMAIN q = DOMAIN s.obj /\ q[o] = d
      /\ \A p \in DOMAIN s.obj : p # o => q[p] = s.obj[p]
  BY <1>1, <1>5
<1>7. v \in SUBSET Nat /\ v \subseteq DOMAIN s.obj
  BY <1>1
<1> HIDE DEF q, v
<1>8. r \in Managers
  BY <1>1, <1>2, <1>4, <1>6, <1>7 DEF Managers
<1>9. /\ r.obj = q /\ r.net = n /\ r.running = v
      /\ r.status = s.status /\ r.tasks = s.tasks /\ r.mapper = s.mapper
      /\ r.succeeded = s.succeeded /\ r.queue = s.queue /\ r.apart = s.apart
  BY <1>1, <1>2 DEF Managers
<1> HIDE DEF r
<1>10. /\ \A x \in DOMAIN s.net : x \in DOMAIN r.net /\ r.net[x] = s.net[x]
       /\ \A p \in DOMAIN s.obj : p # o => (p \in r.running <=> p \in s.running)
  BY <1>4, <1>9 DEF v
<1>11. Changes(s, r, o)
  <2>1. \A p \in DOMAIN s.obj : r.obj[p].url = s.obj[p].url /\ (p # o => r.obj[p] = s.obj[p])
    BY <1>5, <1>6, <1>9
  <2>2. r.obj[o].transfer = t /\ t \in DOMAIN r.net /\ t # None
    BY <1>4, <1>5, <1>6, <1>9
  <2> QED
    BY <1>6, <1>7, <1>8, <1>9, <1>10, <2>1, <2>2 DEF Changes
<1> QED
  BY <1>3, <1>4, <1>5, <1>6, <1>9, <1>11 DEF v, r, t
LEMMA StartTransferGood ==
  ASSUME NEW s, NEW fs, Good(s, fs), NEW o \in DOMAIN s.obj, ShouldRun(s),
         s.obj[o].status \in {"waiting", "suspended", "failed"}
  PROVE  Good(StartTransfer(s, o), fs) /\ Follows(s, StartTransfer(s, o), fs)
<1> DEFINE r == StartTransfer(s, o)
           t == Len(s.net) + 1
<1>1. Known(s) /\ s \in Managers /\ Cardinality(s.running) < Limit
  BY DEF Good, Known, ShouldRun
<1>2. /\ Changes(s, r, o)
      /\ r.obj[o].url = s.obj[o].url /\ r.obj[o].transfer = t
      /\ r.obj[o].status = "running"
      /\ r.running = s.running \cup {o}
      /\ t \in DOMAIN r.net /\ DOMAIN r.net = DOMAIN s.net \cup {t} /\ t # None
      /\ r.net[t].url = s.obj[o].url /\ r.net[t].state = "active"
      /\ r.queue = s.queue /\ r.status = s.status
  BY <1>1, StartTransferFields
<1>3. Cardinality(r.running) <= Limit
  BY <1>1, <1>2, OneMoreSlot
<1> HIDE DEF r, t
<1>4. ASSUME Whole(s), Owned(s, fs), Whole(r)
      PROVE  /\ OwnsTask(r, o, fs)
             /\ s.obj[o].transfer # None => r.obj[o].transfer = s.obj[o].transfer
             /\ \A x \in DOMAIN r.net \ DOMAIN s.net : LiveIsListed(r, x) /\ r.net[x].state # "finished"
  <2>1. s.obj[o].transfer = None /\ ~HasLocal(s.queue, o)
    BY <1>4, Startable
  <2>2. o \in DOMAIN r.obj /\ r.mapper = s.mapper
    BY <1>2 DEF Changes
  <2>3. HasSlot(r, o)
    <3>1. t \in Live(r)
      BY <1>2 DEF Live
    <3> QED
      BY <1>2, <3>1 DEF HasSlot
  <2>4. EndsOnce(r, o) /\ BlockHasFile(r, o, fs)
    BY <1>2, <2>1 DEF EndsOnce, BlockHasFile, OneLocal, HasLocal
  <2>5. LiveIsListed(r, t)
    <3>1. Listed(r, o)
      BY <1>2, <1>4, <2>2 DEF Whole
    <3>2. r.mapper[r.net[t].url] = o /\ o # None
      BY <1>1, <1>2, <3>1, ObjectTypes DEF Listed
    <3> QED
      BY <1>2, <3>2 DEF LiveIsListed
  <2>6. \A x \in DOMAIN r.net \ DOMAIN s.net : x = t
    BY <1>2
  <2> QED
    BY <1>2, <2>1, <2>3, <2>4, <2>5, <2>6 DEF OwnsTask
<1>5. Good(r, fs)
  BY <1>2, <1>3, <1>4, ChangedGood
<1>6. Follows(s, r, fs)
  BY <1>2, ChangesFollows
<1> QED
  BY <1>5, <1>6 DEF r
-----------------------------------------------------------------------------
(***************************************************************************)
(* The functions of a task                                                 *)
(***************************************************************************)

\* The manager finds its status: it has succeeded only when all files are there.
LEMMA DetermineGood ==
  ASSUME NEW s, NEW fs, Good(s, fs), NEW fromRunning \in BOOLEAN
  PROVE  /\ Good(DetermineStatus(s, fromRunning), fs)
         /\ Follows(s, DetermineStatus(s, fromRunning), fs)
<1> DEFINE r == DetermineStatus(s, fromRunning)
<1>1. Known(s)
  BY DEF Good
<1>2. /\ Quiet(s, r) /\ r.tasks = s.tasks
      /\ r.status = "succeeded" => s.status = "succeeded" \/ AllIn(r, {"succeeded"})
  BY <1>1, DetermineQuiet
<1> HIDE DEF r
<1>3. r.obj = s.obj /\ \A i \in DOMAIN r.tasks : r.tasks[i] \in DOMAIN r.obj
  BY <1>1, <1>2 DEF Quiet, Alike, Known
<1>4. DoneHasFile(r, fs) /\ AllIn(r, {"succeeded"}) => TasksHaveFiles(r, fs)
  BY <1>3 DEF DoneHasFile, AllIn, TasksHaveFiles
<1>5. DoneHasFile(s, fs) => DoneHasFile(r, fs)
  BY <1>3 DEF DoneHasFile
<1>6. Ends(s, r, fs)
  BY <1>2, <1>4, <1>5 DEF Ends
<1>7. Follows(s, r, fs)
  BY <1>2, <1>3, <1>6 DEF Follows
<1>8. Good(r, fs)
  BY <1>2, QuietGood
<1> QED
  BY <1>7, <1>8 DEF r

\* A task is recorded as succeeded.
LEMMA RecordedFields ==
  ASSUME NEW w, Known(w), NEW o \in DOMAIN w.obj
  PROVE  LET v == [w EXCEPT !.succeeded = Append(@, o)]
         IN  /\ Alike(w, v)
             /\ v.tasks = w.tasks /\ v.status = w.status /\ v.apart = w.apart
             /\ v.queue = w.queue /\ v.succeeded = Append(w.succeeded, o)
<1> DEFINE a == Append(w.succeeded, o)
           v == [w EXCEPT !.succeeded = a]
<1>1. w \in Managers /\ o \in Nat /\ o \in DOMAIN w.obj
  BY ObjectTypes DEF Known
<1>2. w.succeeded \in Seq(DOMAIN w.obj) /\ w.succeeded \in Seq(Nat) /\ w.tasks \in Seq(DOMAIN w.obj)
  BY <1>1, FieldTypes DEF Known
<1>3. a \in Seq(DOMAIN w.obj) /\ a \in Seq(Nat)
  BY <1>1, <1>2, AppendType
<1>4. v = [w EXCEPT !.succeeded = Append(@, o)]
  OBVIOUS
<1> HIDE DEF a
<1>5. v \in Managers
  BY <1>1, <1>3 DEF Managers
<1>6. /\ v.obj = w.obj /\ v.net = w.net /\ v.mapper = w.mapper /\ v.running = w.running
      /\ v.tasks = w.tasks /\ v.succeeded = a /\ v.queue = w.queue /\ v.status = w.status
      /\ v.apart = w.apart
  BY <1>1 DEF Managers
<1> HIDE DEF v
<1>7. Alike(w, v)
  BY <1>2, <1>3, <1>5, <1>6 DEF Alike
<1> QED
  BY <1>4, <1>6, <1>7 DEF v, a

\* A task succeeds that has no transfer, and whose file is in the cache.
LEMMA SucceededGood ==
  ASSUME NEW s, NEW fs, Good(s, fs), NEW o \in DOMAIN s.obj, NEW fromRunning \in BOOLEAN,
         Whole(s) /\ Owned(s, fs) => s.obj[o].transfer = None /\ s.obj[o].url \in fs
  PROVE  /\ Good(Succeeded(s, o, fromRunning), fs)
         /\ (DoneHasFile(s, fs) => s.obj[o].url \in fs) => Follows(s, Succeeded(s, o, fromRunning), fs)
<1> DEFINE w == SetStatus(s, o, "succeeded")
           v == [w EXCEPT !.succeeded = Append(@, o)]
           r == DetermineStatus(v, fromRunning)
<1>1. Known(s) /\ s \in Managers /\ "succeeded" \in Status
  BY DEF Good, Known, Status
<1>2. Good(w, fs)
  <2>1. "succeeded" \notin {"waiting", "suspended", "failed", "running", "willSuspend"}
    OBVIOUS
  <2> QED
    BY <1>1, <2>1, SetStatusGood
<1>3. w.status = s.status /\ ((DoneHasFile(s, fs) => s.obj[o].url \in fs) => Follows(s, w, fs))
  <2>1. w.status = s.status
    BY <1>1, SetStatusFields
  <2> QED
    BY <1>1, <2>1, SetStatusFollows
<1>4. DOMAIN w.obj = DOMAIN s.obj
  BY <1>1, SetStatusFields
<1> HIDE DEF w
<1>5. Alike(w, v) /\ v.tasks = w.tasks /\ v.status = w.status
  <2>1. Known(w) /\ o \in DOMAIN w.obj
    BY <1>1, <1>2, <1>4 DEF Good
  <2> QED
    BY <2>1, RecordedFields
<1> HIDE DEF v
<1>6. Good(v, fs)
  BY <1>2, <1>5, AlikeGood
<1>7. Follows(w, v, fs)
  BY <1>5, AlikeFollows
<1>8. Good(r, fs) /\ Follows(v, r, fs)
  BY <1>6, DetermineGood
<1> HIDE DEF r
<1>9. Follows(w, r, fs)
  <2>1. Known(w)
    BY <1>2 DEF Good
  <2> QED
    BY <2>1, <1>7, <1>8, FollowsTwice
<1>10. (DoneHasFile(s, fs) => s.obj[o].url \in fs) => Follows(s, r, fs)
  BY <1>1, <1>3, <1>9, FollowsTwice
<1>11. r = Succeeded(s, o, fromRunning)
  BY DEF Succeeded, r, v, w
<1> QED
  BY <1>8, <1>10, <1>11

\* A task is started: it has its file, gets a transfer, or waits for a slot.
LEMMA DownloadGood ==
  ASSUME NEW s, Good(s, Delivered), NEW o \in DOMAIN s.obj
  PROVE  Good(Download(s, o), Delivered) /\ Follows(s, Download(s, o), Delivered)
<1> DEFINE st == s.obj[o].status
<1>1. Known(s) /\ s \in Managers /\ "running" \in Status /\ "waiting" \in Status
  BY DEF Good, Known, Status
<1>2. CASE st \in {"waiting", "suspended", "failed"}
  <2>1. Whole(s) /\ Owned(s, Delivered) => s.obj[o].transfer = None /\ ~HasLocal(s.queue, o)
    BY <1>2, Startable
  <2>2. CASE s.obj[o].url \in files
    <3>1. Download(s, o) = Async(SetStatus(s, o, "running"), Local(o))
      BY <1>2, <2>2 DEF Download
    <3>2. "running" \in {"running"} \cup Stopping /\ s.obj[o].url \in Delivered
      BY <2>2 DEF Delivered
    <3> QED
      BY <2>1, <3>1, <3>2, PostLocalGood
  <2>3. CASE s.obj[o].url \notin files /\ ShouldRun(s)
    <3>1. Download(s, o) = StartTransfer(s, o)
      BY <1>2, <2>3 DEF Download
    <3> QED
      BY <1>2, <2>3, <3>1, StartTransferGood
  <2>4. CASE s.obj[o].url \notin files /\ ~ShouldRun(s)
    <3>1. Download(s, o) = SetStatus(s, o, "waiting")
      BY <1>2, <2>4 DEF Download
    <3>2. "waiting" \notin {"succeeded", "running", "willSuspend"}
      OBVIOUS
    <3>3. Good(SetStatus(s, o, "waiting"), Delivered)
      BY <1>1, <2>1, <3>2, SetStatusGood
    <3>4. Follows(s, SetStatus(s, o, "waiting"), Delivered)
      BY <1>1, <3>2, SetStatusFollows
    <3> QED
      BY <3>1, <3>3, <3>4
  <2> QED
    BY <2>2, <2>3, <2>4
<1>3. CASE st = "succeeded"
  <2>1. Download(s, o) = Succeeded(s, o, FALSE)
    BY <1>3 DEF Download
  <2>2. DoneHasFile(s, Delivered) => s.obj[o].url \in Delivered
    BY <1>3 DEF DoneHasFile
  <2>3. Whole(s) /\ Owned(s, Delivered) => s.obj[o].transfer = None /\ s.obj[o].url \in Delivered
    <3>1. "succeeded" \notin {"running"} \cup Stopping
      BY DEF Stopping
    <3> QED
      BY <1>3, <2>2, <3>1 DEF Owned, HasSlot
  <2> QED
    BY <2>1, <2>2, <2>3, SucceededGood
<1>4. CASE st \notin {"waiting", "suspended", "failed", "succeeded"}
  <2>1. Download(s, o) = s
    BY <1>4 DEF Download
  <2> QED
    BY <2>1 DEF Follows, Ends
<1> QED
  BY <1>2, <1>3, <1>4
LEMMA StartGood ==
  ASSUME NEW s, Good(s, Delivered), NEW o \in DOMAIN s.obj
  PROVE  Good(Start(s, o), Delivered) /\ Follows(s, Start(s, o), Delivered)
<1> DEFINE w == DidStart(s)
<1>1. Known(s) /\ s \in Managers /\ "running" \in Status
  BY DEF Good, Known, Status
<1>2. Quiet(s, w) /\ w.status = "running" /\ w.tasks = s.tasks
  <2>1. w = [s EXCEPT !.status = "running"]
    BY DEF DidStart
  <2>2. w.tasks = s.tasks
    BY <1>1, <2>1 DEF Managers
  <2> HIDE DEF w
  <2> QED
    BY <1>1, <2>1, <2>2, QuietStatus
<1> HIDE DEF w
<1>3. Good(w, Delivered) /\ o \in DOMAIN w.obj
  BY <1>2, QuietGood DEF Quiet, Alike
<1>4. Follows(s, w, Delivered)
  BY <1>2, AlikeFollows DEF Quiet
<1>5. Good(Download(w, o), Delivered) /\ Follows(w, Download(w, o), Delivered)
  BY <1>3, DownloadGood
<1>6. Follows(s, Download(w, o), Delivered)
  BY <1>1, <1>4, <1>5, FollowsTwice
<1>7. Start(s, o) = Download(w, o)
  BY DEF Start, w
<1> QED
  BY <1>5, <1>6, <1>7

\* A task is stopped: a running one cuts its transfer, any other posts a block.
LEMMA StopGood ==
  ASSUME NEW s, NEW fs, Good(s, fs), NEW o \in DOMAIN s.obj, NEW will \in Stopping,
         will = "willSuspend" => s.obj[o].status \in {"running", "waiting"}
  PROVE  Good(Stop(s, o, will), fs) /\ Follows(s, Stop(s, o, will), fs)
<1>1. Known(s) /\ s \in Managers /\ will \in Status /\ will \in {"running"} \cup Stopping
  BY DEF Good, Known, Status, Stopping
<1>2. will \notin {"waiting", "suspended", "failed", "running", "succeeded"}
  BY DEF Stopping
<1>3. CASE s.obj[o].status = "running"
  <2> DEFINE w == SetStatus(s, o, will)
  <2>1. Stop(s, o, will) = CutTransfer(w, o)
    BY <1>3 DEF Stop
  <2>2. Good(w, fs)
    <3>1. Whole(s) /\ Owned(s, fs) =>
            /\ OneLocal(s.queue, o)
            /\ s.obj[o].transfer # None => ~HasLocal(s.queue, o)
      BY <1>3 DEF Owned, EndsOnce
    <3> QED
      BY <1>1, <1>2, <3>1, SetStatusGood
  <2>3. Follows(s, w, fs)
    BY <1>1, <1>2, SetStatusFollows
  <2>4. DOMAIN w.obj = DOMAIN s.obj
    BY <1>1, SetStatusFields
  <2> HIDE DEF w
  <2>5. Good(CutTransfer(w, o), fs) /\ Follows(w, CutTransfer(w, o), fs)
    BY <2>2, <2>4, CutGood
  <2> QED
    BY <1>1, <2>1, <2>3, <2>5, FollowsTwice
<1>4. CASE s.obj[o].status # "running"
  <2>1. Stop(s, o, will) = Async(SetStatus(s, o, will), Local(o))
    BY <1>4 DEF Stop
  <2>2. Whole(s) /\ Owned(s, fs) /\ will = "willSuspend" =>
          s.obj[o].transfer = None /\ ~HasLocal(s.queue, o)
    BY <1>4, Startable
  <2> QED
    BY <1>1, <1>2, <2>1, <2>2, PostLocalGood
<1> QED
  BY <1>3, <1>4

\* What each request for a task does.
LEMMA RequestsGood ==
  ASSUME NEW s, Good(s, Delivered), NEW o \in DOMAIN s.obj
  PROVE  /\ Good(Suspend(s, o), Delivered) /\ Follows(s, Suspend(s, o), Delivered)
         /\ Good(Cancel(s, o), Delivered) /\ Follows(s, Cancel(s, o), Delivered)
         /\ Good(RemoveTask(s, o), Delivered) /\ Follows(s, RemoveTask(s, o), Delivered)
         /\ Good(StartUnlessSucceeded(s, o), Delivered) /\ Follows(s, StartUnlessSucceeded(s, o), Delivered)
<1>1. Good(s, Delivered) /\ Follows(s, s, Delivered)
  BY DEF Follows, Ends
<1>2. "willSuspend" \in Stopping /\ "willCancel" \in Stopping /\ "willRemove" \in Stopping
  BY DEF Stopping
<1>3. /\ Good(Stop(s, o, "willCancel"), Delivered) /\ Follows(s, Stop(s, o, "willCancel"), Delivered)
      /\ Good(Stop(s, o, "willRemove"), Delivered) /\ Follows(s, Stop(s, o, "willRemove"), Delivered)
  BY <1>2, StopGood
<1>4. s.obj[o].status \in {"running", "waiting"} =>
        Good(Stop(s, o, "willSuspend"), Delivered) /\ Follows(s, Stop(s, o, "willSuspend"), Delivered)
  BY <1>2, StopGood
<1>5. Good(Suspend(s, o), Delivered) /\ Follows(s, Suspend(s, o), Delivered)
  BY <1>1, <1>4 DEF Suspend
<1>6. Good(Cancel(s, o), Delivered) /\ Follows(s, Cancel(s, o), Delivered)
  BY <1>1, <1>3 DEF Cancel
<1>7. Good(RemoveTask(s, o), Delivered) /\ Follows(s, RemoveTask(s, o), Delivered)
  BY <1>3 DEF RemoveTask
<1>8. Good(StartUnlessSucceeded(s, o), Delivered) /\ Follows(s, StartUnlessSucceeded(s, o), Delivered)
  BY <1>1, StartGood DEF StartUnlessSucceeded
<1> QED
  BY <1>5, <1>6, <1>7, <1>8

LEMMA StartNextGood ==
  ASSUME NEW s, Good(s, Delivered)
  PROVE  Good(StartNextTask(s), Delivered) /\ Follows(s, StartNextTask(s), Delivered)
<1> DEFINE waits(i) == s.obj[s.tasks[i]].status = "waiting"
           k == CHOOSE i \in DOMAIN s.tasks : waits(i) /\ \A j \in 1 .. (i - 1) : ~waits(j)
<1>1. \A i \in DOMAIN s.tasks : s.tasks[i] \in DOMAIN s.obj
  BY DEF Good, Known
<1>2. CASE \E i \in DOMAIN s.tasks : waits(i)
  <2>1. \E i \in DOMAIN s.tasks : waits(i) /\ \A j \in 1 .. (i - 1) : ~waits(j)
    <3> DEFINE W == {i \in DOMAIN s.tasks : waits(i)}
    <3>1. s.tasks \in Seq(Nat)
      BY FieldTypes DEF Good, Known
    <3>2. W \subseteq Nat /\ W # {} /\ DOMAIN s.tasks = 1..Len(s.tasks) /\ Len(s.tasks) \in Nat
      BY <1>2, <3>1
    <3> HIDE DEF W
    <3>3. PICK i \in W : \A j \in W : i <= j
      BY <3>2, LeastNumber
    <3>4. ASSUME NEW j \in 1 .. (i - 1) PROVE j \in DOMAIN s.tasks /\ j \notin W
      <4>1. i \in 1..Len(s.tasks)
        BY <3>2, <3>3 DEF W
      <4>2. j \in 1..Len(s.tasks) /\ ~(i <= j)
        BY <3>2, <4>1
      <4> QED
        BY <3>2, <3>3, <4>2
    <3> QED
      BY <3>3, <3>4 DEF W
  <2>2. k \in DOMAIN s.tasks
    BY <2>1
  <2>3. StartNextTask(s) = Download(s, s.tasks[k])
    BY <1>2 DEF StartNextTask
  <2> HIDE DEF k
  <2> QED
    BY <1>1, <2>2, <2>3, DownloadGood
<1>3. CASE ~\E i \in DOMAIN s.tasks : waits(i)
  <2>1. StartNextTask(s) = s
    BY <1>3 DEF StartNextTask
  <2> QED
    BY <2>1 DEF Follows, Ends
<1> QED
  BY <1>2, <1>3
-----------------------------------------------------------------------------
(***************************************************************************)
(* The end of a task                                                       *)
(***************************************************************************)

\* The list without the tasks of an address, kept from its first k tasks
Keeps(f, s, q, u) ==
  \A i \in 0 .. Len(q) :
    f[i] = IF i = 0 THEN <<>>
           ELSE IF s.obj[q[i]].url = u THEN f[i - 1] ELSE Append(f[i - 1], q[i])

LEMMA WithoutKeeps ==
  ASSUME NEW s, NEW S, NEW q \in Seq(S), NEW u
  PROVE  \E f : Keeps(f, s, q, u) /\ Without(s, q, u) = f[Len(q)]
<1> DEFINE n == Len(q)
           E(f, i) == IF i = 0 THEN <<>>
                      ELSE IF s.obj[q[i]].url = u THEN f[i - 1] ELSE Append(f[i - 1], q[i])
           Kept(f, k) == f = [i \in 0 .. k |-> E(f, i)]
           kept == CHOOSE f : Kept(f, n)
<1>1. n \in Nat
  OBVIOUS
<1>2. \A k \in 0 .. n : \E f : Kept(f, k)
  <2> DEFINE T == {k \in 0 .. n : ~\E f : Kept(f, k)}
  <2> SUFFICES ASSUME T # {} PROVE FALSE
    OBVIOUS
  <2>1. PICK k \in T : \A j \in T : k <= j
    <3>1. T \in SUBSET Nat
      BY <1>1
    <3> HIDE DEF T
    <3> QED
      BY <3>1, LeastNumber
  <2>2. k \in 0 .. n /\ k \in Nat
    BY <1>1
  <2>3. CASE k = 0
    <3> DEFINE f == [i \in 0 .. 0 |-> <<>>]
    <3>1. f = [i \in 0 .. 0 |-> E(f, i)]
      OBVIOUS
    <3>2. Kept(f, k)
      BY <2>3, <3>1
    <3> QED
      BY <3>2
  <2>4. CASE k # 0
    <3>1. k - 1 \in 0 .. n /\ ~(k <= k - 1)
      BY <1>1, <2>2, <2>4
    <3>2. k - 1 \notin T
      BY <2>1, <3>1
    <3>3. PICK f : Kept(f, k - 1)
      BY <3>1, <3>2
    <3> DEFINE g == [i \in 0 .. k |-> E(f, i)]
    <3>4. \A i \in 0 .. k : E(g, i) = E(f, i)
      <4> SUFFICES ASSUME NEW i \in 0 .. k, i # 0 PROVE g[i - 1] = f[i - 1]
        <5> HIDE DEF g
        <5> QED
          OBVIOUS
      <4>1. i - 1 \in 0 .. k /\ i - 1 \in 0 .. k - 1
        BY <2>2
      <4>2. g[i - 1] = E(f, i - 1)
        BY <4>1
      <4> HIDE DEF E, g
      <4>3. f[i - 1] = E(f, i - 1)
        BY <3>3, <4>1
      <4> QED
        BY <4>2, <4>3
    <3>5. Kept(g, k)
      <4> HIDE DEF E
      <4> QED
        BY <3>4
    <3> HIDE DEF g, Kept
    <3> QED
      BY <3>5
  <2> QED
    BY <2>3, <2>4
<1>3. Kept(kept, n)
  <2>1. n \in 0 .. n
    BY <1>1
  <2> HIDE DEF Kept, n
  <2> QED
    BY <1>2, <2>1
<1> HIDE DEF kept
<1>4. Keeps(kept, s, q, u)
  <2>1. \A i \in 0 .. n : kept[i] = E(kept, i)
    <3> HIDE DEF E
    <3> QED
      BY <1>3
  <2> QED
    BY <2>1 DEF Keeps
<1>5. Without(s, q, u) = kept[n]
  BY DEF Without, kept
<1> QED
  BY <1>4, <1>5

\* The tasks of r are tasks of q of other addresses, in the same order.
Thins(s, q, u, r) ==
  /\ \A a \in DOMAIN r : \E x \in DOMAIN q : r[a] = q[x] /\ s.obj[q[x]].url # u
  /\ \A a, b \in DOMAIN r : a < b =>
       \E x, y \in DOMAIN q : x < y /\ r[a] = q[x] /\ r[b] = q[y]

\* What is left of a list of tasks has only tasks of it, in its order.
LEMMA WithoutType ==
  ASSUME NEW s, NEW S, NEW q \in Seq(S), NEW u
  PROVE  Without(s, q, u) \in Seq(S) /\ Thins(s, q, u, Without(s, q, u))
<1> DEFINE n == Len(q)
<1>1. n \in Nat /\ DOMAIN q = 1 .. n
  OBVIOUS
<1>2. PICK kept : Keeps(kept, s, q, u) /\ Without(s, q, u) = kept[n]
  BY WithoutKeeps
<1> DEFINE \* what is left of the first i
           Found(i, a) == \E x \in 1 .. i : kept[i][a] = q[x] /\ s.obj[q[x]].url # u
           Ordered(i, a, b) ==
             a < b => \E x, y \in 1 .. i : x < y /\ kept[i][a] = q[x] /\ kept[i][b] = q[y]
           Fine(i) == /\ kept[i] \in Seq(S)
                      /\ \A a \in DOMAIN kept[i] : Found(i, a)
                      /\ \A a, b \in DOMAIN kept[i] : Ordered(i, a, b)
<1>3. \A i \in 0 .. n : Fine(i)
  <2> DEFINE T == {i \in 0 .. n : ~Fine(i)}
  <2> SUFFICES ASSUME T # {} PROVE FALSE
    OBVIOUS
  <2>1. PICK i \in T : \A j \in T : i <= j
    <3>1. T \in SUBSET Nat
      BY <1>1
    <3> HIDE DEF T
    <3> QED
      BY <3>1, LeastNumber
  <2>2. i \in 0 .. n /\ i \in Nat /\ ~Fine(i)
    BY <1>1, <2>1
  <2>3. kept[i] = IF i = 0 THEN <<>>
                  ELSE IF s.obj[q[i]].url = u THEN kept[i - 1] ELSE Append(kept[i - 1], q[i])
    BY <1>2, <2>2 DEF Keeps
  <2>4. CASE i = 0
    <3>1. kept[i] = <<>>
      BY <2>3, <2>4
    <3>2. <<>> \in Seq(S) /\ DOMAIN kept[i] = {}
      BY <3>1
    <3>3. Fine(i)
      BY <3>1, <3>2
    <3> QED
      BY <2>2, <3>3
  <2>5. CASE i # 0
    <3>1. i - 1 \in 0 .. n /\ ~(i <= i - 1) /\ i \in DOMAIN q /\ i \in 1 .. i /\ 1 .. (i - 1) \subseteq 1 .. i
          /\ \A x \in 1 .. (i - 1) : x < i
      BY <1>1, <2>2, <2>5
    <3>2. Fine(i - 1)
      <4>1. i - 1 \notin T
        BY <2>1, <3>1
      <4> QED
        BY <3>1, <4>1
    <3> DEFINE k == kept[i - 1]
    <3>3. k \in Seq(S) /\ DOMAIN k = 1 .. Len(k) /\ Len(k) \in Nat
      BY <3>2
    <3>4. q[i] \in S
      BY <3>1
    <3>5. CASE s.obj[q[i]].url = u
      <4>1. kept[i] = k
        BY <2>3, <2>5, <3>5
      <4>2. \A a \in DOMAIN kept[i] : Found(i, a)
        <5>1. \A a \in DOMAIN k : Found(i - 1, a)
          BY <3>2
        <5> QED
          BY <3>1, <4>1, <5>1
      <4>3. \A a, b \in DOMAIN kept[i] : Ordered(i, a, b)
        <5>1. \A a, b \in DOMAIN k : Ordered(i - 1, a, b)
          BY <3>2
        <5> QED
          BY <3>1, <4>1, <5>1
      <4> HIDE DEF Found, Ordered
      <4>4. Fine(i)
        BY <3>3, <4>1, <4>2, <4>3
      <4> QED
        BY <2>2, <4>4
    <3>6. CASE s.obj[q[i]].url # u
      <4>1. kept[i] = Append(k, q[i])
        BY <2>3, <2>5, <3>6
      <4>2. kept[i] \in Seq(S)
        BY <3>3, <3>4, <4>1, AppendType
      <4>3. /\ DOMAIN kept[i] = 1 .. (Len(k) + 1) /\ kept[i][Len(k) + 1] = q[i]
            /\ \A a \in DOMAIN k : kept[i][a] = k[a]
        BY <3>3, <3>4, <4>1
      <4>4. ASSUME NEW a \in DOMAIN k
            PROVE  \E x \in 1 .. (i - 1) : kept[i][a] = q[x] /\ s.obj[q[x]].url # u
        <5>1. Found(i - 1, a)
          BY <3>2
        <5> QED
          BY <4>3, <5>1
      <4>5. ASSUME NEW a \in DOMAIN kept[i] PROVE Found(i, a)
        <5>1. CASE a \in DOMAIN k
          BY <3>1, <4>4, <5>1
        <5>2. CASE a \notin DOMAIN k
          <6>1. a = Len(k) + 1
            BY <3>3, <4>3, <5>2
          <6> QED
            BY <3>1, <3>6, <4>3, <6>1
        <5> QED
          BY <5>1, <5>2
      <4>6. ASSUME NEW a \in DOMAIN kept[i], NEW b \in DOMAIN kept[i], a < b PROVE Ordered(i, a, b)
        <5>1. a \in DOMAIN k /\ (b \in DOMAIN k \/ b = Len(k) + 1)
          BY <3>3, <4>3, <4>6
        <5>2. CASE b \in DOMAIN k
          <6>1. Ordered(i - 1, a, b)
            BY <3>2, <5>1, <5>2
          <6>2. \E x, y \in 1 .. (i - 1) : x < y /\ kept[i][a] = q[x] /\ kept[i][b] = q[y]
            BY <4>3, <4>6, <5>1, <5>2, <6>1
          <6> QED
            BY <3>1, <6>2
        <5>3. CASE b = Len(k) + 1
          <6>1. PICK x \in 1 .. (i - 1) : kept[i][a] = q[x]
            BY <4>4, <5>1
          <6>2. kept[i][b] = q[i] /\ x < i /\ x \in 1 .. i
            BY <3>1, <4>3, <5>3
          <6> QED
            BY <3>1, <6>1, <6>2
        <5> QED
          BY <5>1, <5>2, <5>3
      <4>7. \A a, b \in DOMAIN kept[i] : Ordered(i, a, b)
        BY <4>6
      <4> HIDE DEF Found, Ordered
      <4>8. Fine(i)
        BY <4>2, <4>5, <4>7
      <4> QED
        BY <2>2, <4>8
    <3> QED
      BY <3>5, <3>6
  <2> QED
    BY <2>4, <2>5
<1>4. Fine(n)
  <2>1. n \in 0 .. n
    BY <1>1
  <2> HIDE DEF Fine, n
  <2> QED
    BY <1>3, <2>1
<1> DEFINE r == Without(s, q, u)
<1>5. r = kept[n]
  BY <1>2
<1> HIDE DEF n, r
<1>6. /\ r \in Seq(S)
      /\ \A a \in DOMAIN r : Found(n, a)
      /\ \A a, b \in DOMAIN r : Ordered(n, a, b)
  BY <1>4, <1>5
<1>7. \A a \in DOMAIN r : \E x \in DOMAIN q : r[a] = q[x] /\ s.obj[q[x]].url # u
  BY <1>1, <1>5, <1>6
<1>8. \A a, b \in DOMAIN r : a < b =>
        \E x, y \in DOMAIN q : x < y /\ r[a] = q[x] /\ r[b] = q[y]
  <2> SUFFICES ASSUME NEW a \in DOMAIN r, NEW b \in DOMAIN r, a < b
               PROVE  \E x, y \in DOMAIN q : x < y /\ r[a] = q[x] /\ r[b] = q[y]
    OBVIOUS
  <2>1. PICK x \in 1 .. n, y \in 1 .. n : x < y /\ kept[n][a] = q[x] /\ kept[n][b] = q[y]
    <3>1. Ordered(n, a, b)
      BY <1>6
    <3> QED
      BY <3>1
  <2> QED
    BY <1>1, <1>5, <2>1
<1>9. Thins(s, q, u, r)
  BY <1>7, <1>8 DEF Thins
<1> QED
  BY <1>6, <1>9 DEF r
\* The lists when a task is dropped from them
Dropped(s, o, f) ==
  LET u == s.obj[o].url
  IN  /\ f \in Managers
      /\ f.obj = s.obj /\ f.net = s.net /\ f.running = s.running /\ f.queue = s.queue
      /\ f.status = s.status
      /\ f.mapper = [s.mapper EXCEPT ![u] = None]
      /\ f.tasks \in Seq(DOMAIN s.obj) /\ f.succeeded \in Seq(DOMAIN s.obj)
      /\ \/ f.tasks \in {<<>>, s.tasks, s.succeeded} /\ s.status \in Stopping
         \/ f.tasks = Without(s, s.tasks, u)
      /\ f.succeeded \in {<<>>, s.succeeded, Without(s, s.succeeded, u)}

LEMMA DropFields ==
  ASSUME NEW s, Known(s), NEW o \in DOMAIN s.obj
  PROVE  Dropped(s, o, DropTask(s, o)) /\ DropTask(s, o).apart = s.apart
<1> DEFINE u == s.obj[o].url
           M == [s.mapper EXCEPT ![u] = None]
           w == [s EXCEPT !.mapper = M]
           D == DOMAIN s.obj
           f == DropTask(s, o)
<1>1. /\ s \in Managers /\ s.tasks \in Seq(D) /\ s.succeeded \in Seq(D)
      /\ u \in Urls /\ s.mapper \in [Urls -> Nat] /\ s.status \in Status /\ D \subseteq Nat
  <2>1. s \in Managers /\ s.tasks \in Seq(D) /\ s.succeeded \in Seq(D)
    BY DEF Known
  <2>2. s.obj \in Seq(Objects)
    BY <2>1, FieldTypes
  <2>3. D \subseteq Nat
    BY <2>2
  <2> QED
    BY <2>1, <2>3, FieldTypes, ObjectTypes
<1>2. M \in [Urls -> Nat]
  BY <1>1 DEF None
<1>3. w = [s EXCEPT !.mapper[u] = None]
  BY <1>1 DEF Managers
<1> HIDE DEF M
<1>4. /\ w \in Managers
      /\ w.obj = s.obj /\ w.net = s.net /\ w.running = s.running /\ w.queue = s.queue
      /\ w.mapper = M /\ w.tasks = s.tasks /\ w.succeeded = s.succeeded /\ w.status = s.status
      /\ w.apart = s.apart
  <2>1. w \in Managers
    BY <1>1, <1>2 DEF Managers
  <2> QED
    BY <1>1, <2>1 DEF Managers
<1> HIDE DEF w
<1> DEFINE Lists(a, b) ==
             /\ f = [w EXCEPT !.tasks = a, !.succeeded = b]
             /\ \/ a \in {<<>>, s.tasks, s.succeeded} /\ s.status \in Stopping
                \/ a = Without(s, s.tasks, u)
             /\ b \in {<<>>, s.succeeded, Without(s, s.succeeded, u)}
<1>5. PICK a \in Seq(D), b \in Seq(D) : Lists(a, b)
  <2>1. w = [w EXCEPT !.tasks = s.tasks, !.succeeded = s.succeeded]
    BY <1>4 DEF Managers
  <2>2. <<>> \in Seq(D)
    OBVIOUS
  <2>3. CASE s.status = "willRemove"
    <3>1. f \in {[w EXCEPT !.tasks = <<>>, !.succeeded = <<>>], w}
      BY <1>3, <2>3 DEF DropTask
    <3>2. s.status \in Stopping
      BY <2>3 DEF Stopping
    <3> HIDE DEF f, D
    <3>3. Lists(<<>>, <<>>) \/ Lists(s.tasks, s.succeeded)
      BY <2>1, <3>1, <3>2
    <3> QED
      BY <1>1, <2>2, <3>3
  <2>4. CASE s.status = "willCancel"
    <3>1. f \in {[w EXCEPT !.tasks = s.succeeded], w}
      BY <1>3, <2>4 DEF DropTask
    <3>2. [w EXCEPT !.tasks = s.succeeded] = [w EXCEPT !.tasks = s.succeeded, !.succeeded = s.succeeded]
      BY <1>4 DEF Managers
    <3>3. s.status \in Stopping
      BY <2>4 DEF Stopping
    <3> HIDE DEF f, D
    <3>4. Lists(s.succeeded, s.succeeded) \/ Lists(s.tasks, s.succeeded)
      BY <2>1, <3>1, <3>2, <3>3
    <3> QED
      BY <1>1, <3>4
  <2>5. CASE s.status \notin {"willRemove", "willCancel"}
    <3> DEFINE a == Without(s, s.tasks, u)
               b == IF s.obj[o].status = "removed" THEN Without(s, s.succeeded, u) ELSE s.succeeded
    <3>1. f = [w EXCEPT !.tasks = Without(s, @, u),
                        !.succeeded = IF s.obj[o].status = "removed" THEN Without(s, @, u) ELSE @]
      BY <1>3, <2>5 DEF DropTask
    <3>2. f = [w EXCEPT !.tasks = a, !.succeeded = b]
      BY <1>4, <3>1
    <3>3. a \in Seq(D) /\ b \in Seq(D)
      <4> HIDE DEF D
      <4> QED
        BY <1>1, WithoutType
    <3>4. b \in {<<>>, s.succeeded, Without(s, s.succeeded, u)} /\ a = Without(s, s.tasks, u)
      OBVIOUS
    <3> HIDE DEF f, a, b
    <3>5. Lists(a, b)
      BY <3>2, <3>4
    <3> QED
      BY <3>3, <3>5
  <2> HIDE DEF Lists
  <2> QED
    BY <2>3, <2>4, <2>5
<1>6. a \in Seq(Nat) /\ b \in Seq(Nat)
  <2> HIDE DEF D
  <2> QED
    BY <1>1, SeqSubset
<1> HIDE DEF f
<1>7. f \in Managers
  BY <1>4, <1>5, <1>6 DEF Managers
<1>8. /\ f.obj = s.obj /\ f.net = s.net /\ f.running = s.running /\ f.queue = s.queue
      /\ f.mapper = M /\ f.tasks = a /\ f.succeeded = b /\ f.status = s.status
      /\ f.apart = s.apart
  BY <1>4, <1>5 DEF Managers
<1> QED
  BY <1>5, <1>7, <1>8 DEF Dropped, f, M

\* A task is dropped, and the tables may not agree any more.
LEMMA ForgetTables ==
  ASSUME NEW s, Known(s), NEW o \in DOMAIN s.obj
  PROVE  LET f == ForgetTask(s, o)
         IN  /\ Dropped(s, o, f)
             /\ ~f.apart => ~s.apart /\ TablesAgree(f)
<1> DEFINE d == DropTask(s, o)
           x == d.apart \/ \E dropped \in {d} : ~TablesAgree(dropped)
           f == [d EXCEPT !.apart = x]
<1>1. Dropped(s, o, d) /\ d.apart = s.apart
  BY DropFields
<1>2. d \in Managers
  BY <1>1 DEF Dropped
<1>3. ForgetTask(s, o) = f
  BY DEF ForgetTask
<1> HIDE DEF d
<1>4. x \in BOOLEAN
  OBVIOUS
<1>5. x = FALSE => ~d.apart /\ TablesAgree(d)
  OBVIOUS
<1> HIDE DEF x
<1>6. f \in Managers
  BY <1>2, <1>4 DEF Managers
<1>7. /\ f.obj = d.obj /\ f.net = d.net /\ f.running = d.running /\ f.queue = d.queue
      /\ f.mapper = d.mapper /\ f.tasks = d.tasks /\ f.succeeded = d.succeeded
      /\ f.status = d.status
  BY <1>2 DEF Managers
<1>8. f.apart = x
  BY <1>2 DEF Managers
<1> HIDE DEF f
<1>9. Dropped(s, o, f)
  BY <1>1, <1>6, <1>7 DEF Dropped
<1>10. TablesAgree(d) => TablesAgree(f)
  BY <1>7 DEF TablesAgree, Mapped
<1>11. ~f.apart => x = FALSE
  BY <1>4, <1>8
<1> QED
  BY <1>1, <1>3, <1>5, <1>9, <1>10, <1>11

LEMMA DroppedKnown ==
  ASSUME NEW s, Known(s), NEW o \in DOMAIN s.obj, NEW f, Dropped(s, o, f)
  PROVE  Known(f)
<1> DEFINE u == s.obj[o].url
<1>1. /\ f \in Managers
      /\ f.obj = s.obj /\ f.net = s.net /\ f.running = s.running /\ f.queue = s.queue
      /\ f.mapper = [s.mapper EXCEPT ![u] = None]
      /\ f.tasks \in Seq(DOMAIN s.obj) /\ f.succeeded \in Seq(DOMAIN s.obj)
  BY DEF Dropped
<1>2. s.mapper \in [Urls -> Nat]
  BY FieldTypes DEF Known
<1> HIDE DEF u
<1>3. \A x \in Urls : f.mapper[x] # None => f.mapper[x] \in DOMAIN f.obj /\ f.obj[f.mapper[x]].url = x
  BY <1>1, <1>2 DEF Known
<1>4. \A job : JobKnown(s, job) => JobKnown(f, job)
  BY <1>1 DEF JobKnown
<1>5. \A i \in DOMAIN f.queue : JobKnown(f, f.queue[i])
  BY <1>1, <1>4 DEF Known
<1> QED
  BY <1>1, <1>3, <1>5 DEF Known

\* The mapper no longer finds a task that was cancelled or removed.
LEMMA ForgetFields ==
  ASSUME NEW s, Known(s), NEW o \in DOMAIN s.obj
  PROVE  LET r == DidCancelOrRemove(s, o)
         IN  /\ r \in Managers
             /\ r.obj = s.obj /\ r.net = s.net /\ r.running = s.running /\ r.queue = s.queue
             /\ r.mapper = [s.mapper EXCEPT ![s.obj[o].url] = None]
             /\ r.tasks \in Seq(DOMAIN s.obj) /\ r.succeeded \in Seq(DOMAIN s.obj)
             /\ r.status \in {s.status, "willCancel", "willRemove"}
<1> DEFINE M == [s.mapper EXCEPT ![s.obj[o].url] = None]
           f == ForgetTask(s, o)
           r == DidCancelOrRemove(s, o)
<1>1. s \in Managers /\ s.status \in Status
  BY FieldTypes DEF Known
<1>5. Dropped(s, o, f)
  BY ForgetTables
<1> HIDE DEF f, M
<1>7. /\ f \in Managers
      /\ f.obj = s.obj /\ f.net = s.net /\ f.running = s.running /\ f.queue = s.queue
      /\ f.mapper = M /\ f.status = s.status
      /\ f.tasks \in Seq(DOMAIN s.obj) /\ f.succeeded \in Seq(DOMAIN s.obj)
  BY <1>5 DEF Dropped, M
<1>8. PICK st \in {s.status, "willCancel", "willRemove"} : r = f \/ r = [f EXCEPT !.status = st]
  BY DEF DidCancelOrRemove, f
<1>9. st \in Status
  BY <1>1 DEF Status
<1> HIDE DEF r
<1>10. /\ r \in Managers
       /\ r.obj = s.obj /\ r.net = s.net /\ r.running = s.running /\ r.queue = s.queue
       /\ r.mapper = M /\ r.tasks = f.tasks /\ r.succeeded = f.succeeded
       /\ r.status \in {s.status, "willCancel", "willRemove"}
  <2>1. CASE r = f
    BY <1>7, <2>1
  <2>2. CASE r = [f EXCEPT !.status = st]
    BY <1>7, <1>9, <2>2 DEF Managers
  <2> QED
    BY <1>8, <2>1, <2>2
<1> QED
  BY <1>7, <1>10 DEF r, M
\* A task is dropped: with its address no other task has a transfer then, unless one is
\* forgotten.
LEMMA DropGood ==
  ASSUME NEW s, NEW fs, Good(s, fs), NEW o \in DOMAIN s.obj, NEW st \in {"canceled", "removed"}
  PROVE  LET r == DidCancelOrRemove(SetStatus(s, o, st), o)
         IN  Good(r, fs) /\ Ends(s, r, fs) /\ (r.status = "succeeded" => s.status = "succeeded")
<1> DEFINE w == SetStatus(s, o, st)
           r == DidCancelOrRemove(w, o)
           u == s.obj[o].url
<1>1. Known(s) /\ s \in Managers /\ st \in Status /\ Cardinality(s.running) <= Limit
  BY DEF Good, Known, Status
<1>2. Changes(s, w, o)
  BY <1>1, StatusChanges
<1>3. Known(w)
  BY <1>1, <1>2, ChangedKnown
<1>4. /\ DOMAIN w.obj = DOMAIN s.obj
      /\ w.obj[o].url = u /\ w.obj[o].transfer = s.obj[o].transfer
      /\ w.obj[o].status = st
      /\ \A p \in DOMAIN s.obj : p # o => w.obj[p] = s.obj[p]
      /\ w.status = s.status /\ w.mapper = s.mapper
      /\ w.running = s.running /\ w.net = s.net /\ w.queue = s.queue
  BY <1>1, SetStatusFields
<1> HIDE DEF w
<1>5. /\ r \in Managers
      /\ r.obj = w.obj /\ r.net = w.net /\ r.running = w.running /\ r.queue = w.queue
      /\ r.mapper = [w.mapper EXCEPT ![w.obj[o].url] = None]
      /\ r.tasks \in Seq(DOMAIN w.obj) /\ r.succeeded \in Seq(DOMAIN w.obj)
      /\ r.status \in {w.status, "willCancel", "willRemove"}
  BY <1>3, <1>4, ForgetFields
<1> HIDE DEF r
<1>6. /\ u \in Urls /\ w.mapper \in [Urls -> Nat] /\ \A p \in DOMAIN s.obj : s.obj[p].url \in Urls
      /\ \A p \in DOMAIN s.obj : p # None
  BY <1>1, <1>3, ObjectTypes, FieldTypes DEF Known
<1>7. /\ r.mapper[u] = None
      /\ \A x \in Urls : x # u => r.mapper[x] = s.mapper[x]
      /\ \A p \in DOMAIN s.obj : r.obj[p].url = s.obj[p].url /\ r.obj[p].transfer = s.obj[p].transfer
  BY <1>4, <1>5, <1>6
<1>8. Known(r)
  <2>1. \A x \in Urls : r.mapper[x] # None => r.mapper[x] \in DOMAIN r.obj /\ r.obj[r.mapper[x]].url = x
    BY <1>3, <1>4, <1>5, <1>7 DEF Known
  <2>2. \A job : JobKnown(w, job) => JobKnown(r, job)
    BY <1>5 DEF JobKnown
  <2>3. \A i \in DOMAIN r.queue : JobKnown(r, r.queue[i])
    BY <1>3, <1>5, <2>2 DEF Known
  <2> QED
    BY <1>3, <1>5, <2>1, <2>3 DEF Known
<1>9. ASSUME Whole(r) PROVE Owned(r, fs)
  <2>1. \A p \in DOMAIN s.obj : s.obj[p].transfer # None =>
          s.obj[p].url # u /\ s.mapper[s.obj[p].url] = p
    BY <1>4, <1>5, <1>6, <1>7, <1>9 DEF Whole, Listed
  <2>2. Owned(s, fs)
    BY <2>1 DEF Good, Whole, Listed
  <2>3. Live(r) = Live(s)
    BY <1>4, <1>5 DEF Live
  <2>4. s.obj[o].transfer = None
    BY <2>1
  <2>5. ASSUME NEW p \in DOMAIN r.obj
        PROVE  HasSlot(r, p) /\ EndsOnce(r, p) /\ BlockHasFile(r, p, fs)
    <3>1. /\ p \in DOMAIN s.obj /\ HasSlot(s, p) /\ EndsOnce(s, p) /\ BlockHasFile(s, p, fs)
          /\ r.net = s.net /\ r.running = s.running /\ r.queue = s.queue
      BY <1>4, <1>5, <2>2 DEF Owned
    <3>2. CASE p = o
      <4>1. r.obj[p].status = st /\ r.obj[p].transfer = None
        BY <1>4, <1>5, <2>4, <3>2
      <4> QED
        BY <2>4, <3>1, <3>2, <4>1 DEF HasSlot, EndsOnce, BlockHasFile
    <3>3. CASE p # o
      <4>1. r.obj[p] = s.obj[p]
        BY <1>4, <1>5, <3>1, <3>3
      <4> QED
        BY <2>3, <3>1, <4>1 DEF HasSlot, EndsOnce, BlockHasFile
    <3> QED
      BY <3>2, <3>3
  <2>6. ASSUME NEW t \in Live(r) PROVE LiveIsListed(r, t)
    <3> DEFINE p == s.mapper[s.net[t].url]
    <3>1. t \in DOMAIN s.net /\ t # None /\ s.net[t].url \in Urls
      <4>1. t \in DOMAIN s.net /\ s.net \in Seq(Nets)
        BY <1>1, <2>3, FieldTypes DEF Live
      <4>2. s.net[t] \in Nets /\ t # None
        BY <4>1 DEF None
      <4> QED
        BY <4>1, <4>2 DEF Nets
    <3>2. p # None /\ s.obj[p].transfer = t
      BY <2>2, <2>3 DEF Owned, LiveIsListed
    <3>3. p \in DOMAIN s.obj /\ s.obj[p].url = s.net[t].url
      BY <1>1, <3>1, <3>2 DEF Known
    <3>4. s.net[t].url # u
      BY <2>1, <3>1, <3>2, <3>3
    <3>5. r.mapper[r.net[t].url] = p /\ r.obj[p].transfer = t
      BY <1>4, <1>5, <1>7, <3>1, <3>2, <3>3, <3>4
    <3> QED
      BY <3>2, <3>5 DEF LiveIsListed
  <2>7. FinishedHasFile(r, fs)
    BY <1>4, <1>5, <2>2 DEF Owned, FinishedHasFile
  <2>8. DoneHasFile(r, fs)
    BY <1>4, <1>5, <2>2 DEF Owned, DoneHasFile
  <2> QED
    BY <2>5, <2>6, <2>7, <2>8 DEF Owned
<1>10. Good(r, fs)
  BY <1>1, <1>4, <1>5, <1>8, <1>9 DEF Good
<1>11. r.status = "succeeded" => s.status = "succeeded"
  BY <1>4, <1>5
<1>12. DoneHasFile(s, fs) => DoneHasFile(r, fs)
  BY <1>4, <1>5 DEF DoneHasFile
<1>13. Ends(s, r, fs)
  BY <1>11, <1>12 DEF Ends
<1> QED
  BY <1>10, <1>11, <1>13 DEF r, w

\* What the end makes of a task, before the manager finds its status.
Ended(s, o) ==
  LET st == s.obj[o].status
  IN  CASE st = "willSuspend" -> SetStatus(s, o, "suspended")
        [] st = "willCancel"  -> DidCancelOrRemove(SetStatus(s, o, "canceled"), o)
        [] st = "willRemove"  -> DidCancelOrRemove(SetStatus(s, o, "removed"), o)
        [] st = "suspended"   -> s
        [] OTHER              -> SetStatus(s, o, "failed")

\* The end of a task that has neither a transfer nor a block any more, or that is dropped.
LEMMA EndedGood ==
  ASSUME NEW s, NEW fs, Good(s, fs), NEW o \in DOMAIN s.obj,
         Whole(s) /\ Owned(s, fs) /\ s.obj[o].status \notin {"willCancel", "willRemove"} =>
           s.obj[o].transfer = None /\ ~HasLocal(s.queue, o)
  PROVE  /\ Good(Ended(s, o), fs) /\ Ends(s, Ended(s, o), fs)
         /\ Ended(s, o).status = "succeeded" => s.status = "succeeded"
<1> DEFINE st == s.obj[o].status
           done == Ended(s, o)
           Fine(r) == Good(r, fs) /\ Ends(s, r, fs) /\ (r.status = "succeeded" => s.status = "succeeded")
<1>1. Known(s) /\ "suspended" \in Status /\ "failed" \in Status
  BY DEF Good, Status
<1>2. Fine(s)
  BY DEF Ends
<1>3. Fine(DidCancelOrRemove(SetStatus(s, o, "canceled"), o))
  BY DropGood
<1>4. Fine(DidCancelOrRemove(SetStatus(s, o, "removed"), o))
  BY DropGood
<1>5. ASSUME NEW x \in {"suspended", "failed"}, st \notin {"willCancel", "willRemove"}
      PROVE  Fine(SetStatus(s, o, x))
  <2>1. x \notin {"succeeded", "running", "willSuspend"} /\ x \in Status
    BY <1>1
  <2>2. Whole(s) /\ Owned(s, fs) => s.obj[o].transfer = None /\ ~HasLocal(s.queue, o)
    BY <1>5
  <2>3. Good(SetStatus(s, o, x), fs)
    BY <2>1, <2>2, SetStatusGood
  <2>4. Follows(s, SetStatus(s, o, x), fs) /\ SetStatus(s, o, x).status = s.status
    BY <1>1, <2>1, SetStatusFollows
  <2> QED
    BY <2>3, <2>4 DEF Follows
<1> HIDE DEF Fine
<1>6. Fine(done)
  <2>1. CASE st = "willCancel"
    BY <1>3, <2>1 DEF Ended
  <2>2. CASE st = "willRemove"
    BY <1>4, <2>2 DEF Ended
  <2>3. CASE st \notin {"willCancel", "willRemove"}
    <3>1. Fine(SetStatus(s, o, "suspended")) /\ Fine(SetStatus(s, o, "failed"))
      BY <1>5, <2>3
    <3>2. done \in {SetStatus(s, o, "suspended"), s, SetStatus(s, o, "failed")}
      BY <2>3 DEF Ended
    <3> HIDE DEF done
    <3> QED
      BY <1>2, <3>1, <3>2
  <2> QED
    BY <2>1, <2>2, <2>3
<1> QED
  BY <1>6 DEF Fine

LEMMA InterruptedGood ==
  ASSUME NEW s, NEW fs, Good(s, fs), NEW o \in DOMAIN s.obj, NEW fromRunning \in BOOLEAN,
         Whole(s) /\ Owned(s, fs) /\ s.obj[o].status \notin {"willCancel", "willRemove"} =>
           s.obj[o].transfer = None /\ ~HasLocal(s.queue, o)
  PROVE  /\ Good(Interrupted(s, o, fromRunning), fs)
         /\ Ends(s, Interrupted(s, o, fromRunning), fs)
<1> DEFINE done == Ended(s, o)
           r == DetermineStatus(done, fromRunning)
<1>1. Interrupted(s, o, fromRunning) = r
  BY DEF Interrupted, Ended
<1>2. /\ Good(done, fs) /\ Ends(s, done, fs)
      /\ done.status = "succeeded" => s.status = "succeeded"
  BY EndedGood
<1> HIDE DEF done
<1>3. Good(r, fs) /\ Follows(done, r, fs)
  BY <1>2, DetermineGood
<1> HIDE DEF r
<1>4. Ends(done, r, fs)
  BY <1>3 DEF Follows
<1>5. Ends(s, r, fs)
  BY <1>2, <1>4, EndsTwice
<1> QED
  BY <1>1, <1>3, <1>5
-----------------------------------------------------------------------------
(***************************************************************************)
(* Blocks of the queue                                                     *)
(***************************************************************************)

\* The first block is taken from the queue.
Taken(s) == [s EXCEPT !.queue = Tail(@)]

LEMMA TakenFields ==
  ASSUME NEW s, Known(s), s.queue # <<>>
  PROVE  LET r == Taken(s)
         IN  /\ r \in Managers
             /\ r.obj = s.obj /\ r.net = s.net /\ r.mapper = s.mapper /\ r.running = s.running
             /\ r.tasks = s.tasks /\ r.succeeded = s.succeeded /\ r.status = s.status
             /\ r.queue = Tail(s.queue) /\ s.queue \in Seq(AllJobs) /\ r.apart = s.apart
<1> DEFINE q == Tail(s.queue)
<1>1. s \in Managers /\ s.queue \in Seq(AllJobs)
  BY FieldTypes DEF Known
<1>2. q \in Seq(AllJobs)
  BY <1>1
<1>3. Taken(s) = [s EXCEPT !.queue = q]
  BY DEF Taken
<1> HIDE DEF q
<1>4. Taken(s) \in Managers
  BY <1>1, <1>2, <1>3 DEF Managers
<1>5. LET r == Taken(s)
      IN  /\ r.obj = s.obj /\ r.net = s.net /\ r.mapper = s.mapper /\ r.running = s.running
          /\ r.tasks = s.tasks /\ r.succeeded = s.succeeded /\ r.status = s.status
          /\ r.queue = q /\ r.apart = s.apart
  BY <1>1, <1>3 DEF Managers
<1> QED
  BY <1>1, <1>4, <1>5 DEF q

LEMMA TakenGood ==
  ASSUME NEW s, NEW fs, Good(s, fs), s.queue # <<>>
  PROVE  /\ Good(Taken(s), fs)
         /\ Follows(s, Taken(s), fs) /\ Taken(s).status = s.status
         /\ Head(s.queue) \in AllJobs /\ JobKnown(Taken(s), Head(s.queue))
<1> DEFINE r == Taken(s)
<1>1. Known(s) /\ Cardinality(s.running) <= Limit
  BY DEF Good
<1>2. /\ r \in Managers
      /\ r.obj = s.obj /\ r.net = s.net /\ r.mapper = s.mapper /\ r.running = s.running
      /\ r.tasks = s.tasks /\ r.succeeded = s.succeeded /\ r.status = s.status
      /\ r.queue = Tail(s.queue) /\ s.queue \in Seq(AllJobs)
  BY <1>1, TakenFields
<1> HIDE DEF r
<1>3. /\ Head(s.queue) \in AllJobs /\ Head(s.queue) = s.queue[1] /\ 1 \in DOMAIN s.queue
      /\ \A i \in DOMAIN r.queue : i + 1 \in DOMAIN s.queue /\ r.queue[i] = s.queue[i + 1]
  BY <1>2, TakenLocal
<1>4. \A o : /\ HasLocal(r.queue, o) => HasLocal(s.queue, o)
             /\ OneLocal(s.queue, o) => OneLocal(r.queue, o)
  BY <1>2, TakenLocal
<1>5. \A job : JobKnown(s, job) => JobKnown(r, job)
  BY <1>2 DEF JobKnown
<1>6. \A i \in DOMAIN s.queue : JobKnown(s, s.queue[i])
  BY <1>1 DEF Known
<1>7. Known(r) /\ JobKnown(r, Head(s.queue))
  <2>1. \A i \in DOMAIN r.queue : JobKnown(r, r.queue[i])
    BY <1>3, <1>5, <1>6
  <2>2. JobKnown(r, Head(s.queue))
    BY <1>3, <1>5, <1>6
  <2> QED
    BY <1>1, <1>2, <2>1, <2>2 DEF Known
<1>8. ASSUME Whole(r) PROVE Owned(r, fs)
  <2>1. Owned(s, fs)
    BY <1>2, <1>8 DEF Good, Whole, Listed
  <2>2. Live(r) = Live(s)
    BY <1>2 DEF Live
  <2>3. \A o \in DOMAIN r.obj : HasSlot(r, o)
    BY <1>2, <2>1, <2>2 DEF Owned, HasSlot
  <2>4. \A o \in DOMAIN r.obj : EndsOnce(r, o) /\ BlockHasFile(r, o, fs)
    BY <1>2, <1>4, <2>1 DEF Owned, EndsOnce, BlockHasFile
  <2>5. \A t \in Live(r) : LiveIsListed(r, t)
    BY <1>2, <2>1, <2>2 DEF Owned, LiveIsListed
  <2>6. FinishedHasFile(r, fs) /\ DoneHasFile(r, fs)
    BY <1>2, <2>1 DEF Owned, FinishedHasFile, DoneHasFile
  <2> QED
    BY <2>3, <2>4, <2>5, <2>6 DEF Owned
<1>9. Good(r, fs)
  BY <1>1, <1>2, <1>7, <1>8 DEF Good
<1>10. Follows(s, r, fs)
  BY <1>2 DEF Follows, Ends, DoneHasFile
<1> QED
  BY <1>2, <1>3, <1>7, <1>9, <1>10 DEF r

\* The block that ends a task is the only one that a running task has, and it has its file.
LEMMA LocallyGood ==
  ASSUME NEW s, NEW fs, Good(s, fs), s.queue # <<>>, NEW o \in DOMAIN s.obj,
         IsLocal(Head(s.queue), o)
  PROVE  /\ Good(CompleteLocally(Taken(s), o), fs)
         /\ Whole(s) => Ends(s, CompleteLocally(Taken(s), o), fs)
<1> DEFINE r == Taken(s)
           st == r.obj[o].status
<1>1. Known(s) /\ Good(r, fs) /\ Follows(s, r, fs) /\ r.status = s.status
  BY TakenGood DEF Good
<1>2. /\ r.obj = s.obj /\ r.mapper = s.mapper
      /\ r.queue = Tail(s.queue) /\ s.queue \in Seq(AllJobs)
  BY <1>1, TakenFields
<1> HIDE DEF r
<1>3. HasLocal(s.queue, o) /\ (OneLocal(s.queue, o) => ~HasLocal(r.queue, o))
  <2>1. Head(s.queue) = s.queue[1] /\ 1 \in DOMAIN s.queue
    BY <1>2, TakenLocal
  <2>2. OneLocal(s.queue, o) => ~HasLocal(r.queue, o)
    BY <1>2, TakenLocal
  <2> QED
    BY <2>1, <2>2 DEF HasLocal
<1>4. Whole(r) <=> Whole(s)
  BY <1>2 DEF Whole, Listed
<1>5. ASSUME Whole(s)
      PROVE  /\ st \in {"running", "willSuspend"} => r.obj[o].transfer = None /\ ~HasLocal(r.queue, o)
             /\ st = "running" => r.obj[o].url \in fs
  <2>1. EndsOnce(s, o) /\ BlockHasFile(s, o, fs)
    BY <1>5 DEF Good, Owned
  <2> QED
    BY <1>2, <1>3, <2>1 DEF EndsOnce, BlockHasFile
<1>6. CASE st \in {"willSuspend", "willCancel", "willRemove"}
  <2>1. CompleteLocally(r, o) = Interrupted(r, o, FALSE)
    BY <1>6 DEF CompleteLocally
  <2>2. Whole(r) /\ Owned(r, fs) /\ r.obj[o].status \notin {"willCancel", "willRemove"} =>
          r.obj[o].transfer = None /\ ~HasLocal(r.queue, o)
    BY <1>4, <1>5, <1>6
  <2>3. Good(Interrupted(r, o, FALSE), fs) /\ Ends(r, Interrupted(r, o, FALSE), fs)
    BY <1>1, <1>2, <2>2, InterruptedGood
  <2>4. Ends(s, Interrupted(r, o, FALSE), fs)
    BY <1>1, <2>3, EndsTwice DEF Follows
  <2> QED
    BY <2>1, <2>3, <2>4 DEF r
<1>7. CASE st = "running"
  <2>1. CompleteLocally(r, o) = Succeeded(r, o, FALSE)
    BY <1>7 DEF CompleteLocally
  <2>2. Whole(r) /\ Owned(r, fs) => r.obj[o].transfer = None /\ r.obj[o].url \in fs
    BY <1>4, <1>5, <1>7
  <2>3. /\ Good(Succeeded(r, o, FALSE), fs)
        /\ (DoneHasFile(r, fs) => r.obj[o].url \in fs) => Follows(r, Succeeded(r, o, FALSE), fs)
    BY <1>1, <1>2, <2>2, SucceededGood
  <2>4. Whole(s) => Follows(r, Succeeded(r, o, FALSE), fs)
    BY <1>5, <1>7, <2>3
  <2>5. Whole(s) => Ends(s, Succeeded(r, o, FALSE), fs)
    BY <1>1, <2>4, EndsTwice DEF Follows
  <2> QED
    BY <2>1, <2>3, <2>5 DEF r
<1>8. CASE st \notin {"willSuspend", "willCancel", "willRemove", "running"}
  <2>1. CompleteLocally(r, o) = r
    BY <1>8 DEF CompleteLocally
  <2> QED
    BY <1>1, <2>1 DEF Follows, r
<1> QED
  BY <1>6, <1>7, <1>8
-----------------------------------------------------------------------------
(***************************************************************************)
(* Callbacks of the session                                                *)
(***************************************************************************)

\* A transfer is in another state.
SetTransfer(s, t, x) == [s EXCEPT !.net[t].state = x]

LEMMA NetFields ==
  ASSUME NEW s, Known(s), NEW t \in DOMAIN s.net, NEW x \in {"finished", "done"}
  PROVE  LET r == SetTransfer(s, t, x)
         IN  /\ r \in Managers
             /\ r.obj = s.obj /\ r.mapper = s.mapper /\ r.running = s.running
             /\ r.tasks = s.tasks /\ r.succeeded = s.succeeded /\ r.status = s.status
             /\ r.queue = s.queue /\ r.apart = s.apart
             /\ DOMAIN r.net = DOMAIN s.net
             /\ r.net[t].state = x /\ r.net[t].url = s.net[t].url
             /\ \A y \in DOMAIN s.net : y # t => r.net[y] = s.net[y]
             /\ s.net[t].url \in Urls /\ t # None
<1> DEFINE e == [s.net[t] EXCEPT !.state = x]
           n == [s.net EXCEPT ![t] = e]
           r == SetTransfer(s, t, x)
<1>1. s \in Managers /\ s.net \in Seq(Nets)
  BY FieldTypes DEF Known
<1>2. s.net[t] \in Nets /\ t # None
  BY <1>1 DEF None
<1>3. e \in Nets /\ e.url = s.net[t].url /\ e.state = x /\ s.net[t].url \in Urls
  BY <1>2 DEF Nets
<1>4. r = [s EXCEPT !.net = n]
  BY <1>1 DEF Managers, SetTransfer
<1> HIDE DEF e
<1>5. /\ n \in Seq(Nets) /\ DOMAIN n = DOMAIN s.net /\ n[t] = e
      /\ \A y \in DOMAIN s.net : y # t => n[y] = s.net[y]
  BY <1>1, <1>3
<1> HIDE DEF n, r
<1>6. r \in Managers
  BY <1>1, <1>4, <1>5 DEF Managers
<1>7. /\ r.obj = s.obj /\ r.mapper = s.mapper /\ r.running = s.running
      /\ r.tasks = s.tasks /\ r.succeeded = s.succeeded /\ r.status = s.status
      /\ r.queue = s.queue /\ r.net = n /\ r.apart = s.apart
  BY <1>1, <1>4 DEF Managers
<1> QED
  BY <1>2, <1>3, <1>5, <1>6, <1>7 DEF r

\* What is known stays known when the tasks, the queue and the mapper stay.
LEMMA NetKnown ==
  ASSUME NEW s, Known(s), NEW t \in DOMAIN s.net, NEW x \in {"finished", "done"}
  PROVE  Known(SetTransfer(s, t, x))
<1> DEFINE r == SetTransfer(s, t, x)
<1>1. /\ r \in Managers
      /\ r.obj = s.obj /\ r.mapper = s.mapper /\ r.running = s.running
      /\ r.tasks = s.tasks /\ r.succeeded = s.succeeded /\ r.queue = s.queue
      /\ DOMAIN r.net = DOMAIN s.net
  BY NetFields
<1> HIDE DEF r
<1>2. \A job : JobKnown(s, job) => JobKnown(r, job)
  BY <1>1 DEF JobKnown
<1>3. \A i \in DOMAIN r.queue : JobKnown(r, r.queue[i])
  BY <1>1, <1>2 DEF Known
<1>4. \A o \in DOMAIN r.obj : r.obj[o].transfer \in DOMAIN r.net \cup {None}
  BY <1>1 DEF Known
<1>5. /\ r.tasks \in Seq(DOMAIN r.obj) /\ r.succeeded \in Seq(DOMAIN r.obj)
      /\ r.running \subseteq DOMAIN r.obj
      /\ \A u \in Urls : r.mapper[u] # None =>
           r.mapper[u] \in DOMAIN r.obj /\ r.obj[r.mapper[u]].url = u
  BY <1>1 DEF Known
<1>6. Known(r)
  BY <1>1, <1>3, <1>4, <1>5 DEF Known
<1> QED
  BY <1>6 DEF r

\* A transfer delivers its file, which goes to the cache when the address has a task.
LEMMA DeliveredGood ==
  ASSUME NEW s, NEW fs, Good(s, fs), NEW t \in DOMAIN s.net, s.net[t].state \in {"active", "cut"},
         NEW f, f = IF s.mapper[s.net[t].url] # None THEN fs \cup {s.net[t].url} ELSE fs
  PROVE  Good(SetTransfer(s, t, "finished"), f)
<1> DEFINE r == SetTransfer(s, t, "finished")
<1>1. Known(s) /\ Known(r) /\ Cardinality(s.running) <= Limit
  BY NetKnown DEF Good
<1>2. /\ r.obj = s.obj /\ r.mapper = s.mapper /\ r.running = s.running /\ r.queue = s.queue
      /\ DOMAIN r.net = DOMAIN s.net
      /\ r.net[t].state = "finished" /\ r.net[t].url = s.net[t].url
      /\ \A y \in DOMAIN s.net : y # t => r.net[y] = s.net[y]
  BY <1>1, NetFields
<1> HIDE DEF r
<1>3. ASSUME Whole(r) PROVE Owned(r, f)
  <2>1. Owned(s, fs)
    BY <1>2, <1>3 DEF Good, Whole, Listed
  <2>2. Live(r) = Live(s) /\ t \in Live(s)
    BY <1>2 DEF Live
  <2>3. f = fs \cup {s.net[t].url}
    BY <2>1, <2>2 DEF Owned, LiveIsListed
  <2>4. \A y \in DOMAIN s.net : r.net[y].url = s.net[y].url
    BY <1>2
  <2>5. ASSUME NEW o \in DOMAIN r.obj PROVE HasSlot(r, o)
    <3>1. HasSlot(s, o) /\ o \in DOMAIN s.obj
      BY <1>2, <2>1 DEF Owned
    <3>2. s.obj[o].transfer # None => s.obj[o].transfer \in DOMAIN s.net
      BY <1>1, <3>1 DEF Known
    <3> QED
      BY <1>2, <2>2, <2>4, <3>1, <3>2 DEF HasSlot
  <2>6. \A o \in DOMAIN r.obj : EndsOnce(r, o) /\ BlockHasFile(r, o, f)
    BY <1>2, <2>1, <2>3 DEF Owned, EndsOnce, BlockHasFile
  <2>7. ASSUME NEW y \in Live(r) PROVE LiveIsListed(r, y)
    <3>1. y \in DOMAIN s.net /\ LiveIsListed(s, y)
      BY <2>1, <2>2 DEF Owned, Live
    <3> QED
      BY <1>2, <2>4, <3>1 DEF LiveIsListed
  <2>8. FinishedHasFile(r, f)
    <3> SUFFICES ASSUME NEW y \in DOMAIN r.net, r.net[y].state = "finished" PROVE r.net[y].url \in f
      BY DEF FinishedHasFile
    <3> QED
      BY <1>2, <2>1, <2>3 DEF Owned, FinishedHasFile
  <2>9. DoneHasFile(r, f)
    BY <1>2, <2>1, <2>3 DEF Owned, DoneHasFile
  <2> QED
    BY <2>5, <2>6, <2>7, <2>8, <2>9 DEF Owned
<1>4. Good(r, f)
  BY <1>1, <1>2, <1>3 DEF Good
<1> QED
  BY <1>4 DEF r
\* The slots of the task are freed, and it has no transfer.
LEMMA FreedFields ==
  ASSUME NEW s, Known(s), NEW o \in DOMAIN s.obj
  PROVE  LET r == FreeSlot(s, o)
         IN  /\ r \in Managers
             /\ DOMAIN r.obj = DOMAIN s.obj
             /\ r.obj[o].url = s.obj[o].url /\ r.obj[o].transfer = None
             /\ r.obj[o].status = s.obj[o].status
             /\ \A p \in DOMAIN s.obj : p # o => r.obj[p] = s.obj[p]
             /\ r.running \subseteq s.running
             /\ \A p \in s.running : p \in r.running <=> s.obj[p].url # s.obj[o].url
             /\ r.status = s.status /\ r.tasks = s.tasks /\ r.mapper = s.mapper
             /\ r.succeeded = s.succeeded /\ r.net = s.net /\ r.queue = s.queue
             /\ r.apart = s.apart
<1> DEFINE e == [s.obj[o] EXCEPT !.transfer = None]
           q == [s.obj EXCEPT ![o] = e]
           v == {p \in s.running : s.obj[p].url # s.obj[o].url}
           r == FreeSlot(s, o)
<1>1. s \in Managers /\ s.obj \in Seq(Objects) /\ s.obj[o] \in Objects /\ s.running \in SUBSET Nat
  BY FieldTypes, ObjectTypes DEF Known
<1>2. /\ e \in Objects /\ e.url = s.obj[o].url /\ e.status = s.obj[o].status
      /\ e.transfer = None
  BY <1>1 DEF Objects, None
<1>3. r = [s EXCEPT !.running = v, !.obj = q]
  <2>1. r = [s EXCEPT !.running = v, !.obj[o].transfer = None]
    BY <1>1 DEF FreeSlot, Managers
  <2>2. q = [s.obj EXCEPT ![o].transfer = None]
    BY <1>1
  <2> HIDE DEF v, q, r
  <2> QED
    BY <1>1, <2>1, <2>2 DEF Managers
<1> HIDE DEF e
<1>4. /\ q \in Seq(Objects) /\ DOMAIN q = DOMAIN s.obj /\ q[o] = e
      /\ \A p \in DOMAIN s.obj : p # o => q[p] = s.obj[p]
  BY <1>1, <1>2
<1>5. v \in SUBSET Nat
  BY <1>1
<1> HIDE DEF q, v, r
<1>6. r \in Managers
  BY <1>1, <1>3, <1>4, <1>5 DEF Managers
<1>7. /\ r.obj = q /\ r.running = v /\ r.apart = s.apart
      /\ r.status = s.status /\ r.tasks = s.tasks /\ r.mapper = s.mapper
      /\ r.succeeded = s.succeeded /\ r.net = s.net /\ r.queue = s.queue
  BY <1>1, <1>3 DEF Managers
<1>8. v \subseteq s.running /\ \A p \in s.running : p \in v <=> s.obj[p].url # s.obj[o].url
  BY DEF v
<1> QED
  BY <1>2, <1>4, <1>6, <1>7, <1>8 DEF r

\* The transfer t is done, and the task o of its address has no slot and no transfer.
Freed(s, r, t, o) ==
  /\ r \in Managers
  /\ r.mapper = s.mapper /\ r.tasks = s.tasks /\ r.succeeded = s.succeeded
  /\ r.queue = s.queue /\ r.status = s.status /\ r.apart = s.apart
  /\ DOMAIN r.net = DOMAIN s.net /\ r.net[t].state = "done"
  /\ \A y \in DOMAIN s.net : r.net[y].url = s.net[y].url /\ (y # t => r.net[y] = s.net[y])
  /\ DOMAIN r.obj = DOMAIN s.obj
  /\ \A p \in DOMAIN s.obj :
       /\ r.obj[p].url = s.obj[p].url /\ r.obj[p].status = s.obj[p].status
       /\ p # o => r.obj[p] = s.obj[p]
  /\ r.obj[o].transfer = None
  /\ r.running \subseteq s.running
  /\ \A p \in s.running : p \in r.running <=> s.obj[p].url # s.obj[o].url

\* The callback of t finds the task o.
Finds(s, t, o) ==
  /\ t \in Live(s)
  /\ o = s.mapper[s.net[t].url] /\ o # None

LEMMA FindsFields ==
  ASSUME NEW s, Known(s), NEW t, NEW o, Finds(s, t, o)
  PROVE  /\ t \in DOMAIN s.net /\ t # None /\ s.net[t].url \in Urls
         /\ o \in DOMAIN s.obj /\ s.obj[o].url = s.net[t].url /\ s.mapper[s.net[t].url] = o
<1>1. s.net \in Seq(Nets)
  BY FieldTypes DEF Known
<1>2. t \in DOMAIN s.net /\ o = s.mapper[s.net[t].url] /\ o # None
  BY DEF Finds, Live
<1>3. s.net[t] \in Nets /\ t # None
  BY <1>1, <1>2 DEF None
<1>4. s.net[t].url \in Urls
  BY <1>3 DEF Nets
<1>5. o \in DOMAIN s.obj /\ s.obj[o].url = s.net[t].url
  BY <1>2, <1>4 DEF Known
<1> QED
  BY <1>2, <1>3, <1>4, <1>5

LEMMA FreeSlotFrees ==
  ASSUME NEW s, Known(s), NEW t, NEW o, Finds(s, t, o)
  PROVE  Freed(s, FreeSlot(SetTransfer(s, t, "done"), o), t, o)
<1> DEFINE w == SetTransfer(s, t, "done")
           r == FreeSlot(w, o)
<1>1. t \in DOMAIN s.net /\ o \in DOMAIN s.obj
  BY FindsFields
<1>2. /\ w.obj = s.obj /\ w.mapper = s.mapper /\ w.running = s.running
      /\ w.tasks = s.tasks /\ w.succeeded = s.succeeded /\ w.status = s.status
      /\ w.queue = s.queue /\ w.apart = s.apart
      /\ DOMAIN w.net = DOMAIN s.net
      /\ w.net[t].state = "done" /\ w.net[t].url = s.net[t].url
      /\ \A y \in DOMAIN s.net : y # t => w.net[y] = s.net[y]
  BY <1>1, NetFields
<1>3. Known(w)
  BY <1>1, NetKnown
<1> HIDE DEF w
<1>4. o \in DOMAIN w.obj
  BY <1>1, <1>2
<1>5. /\ r \in Managers
      /\ DOMAIN r.obj = DOMAIN w.obj
      /\ r.obj[o].url = w.obj[o].url /\ r.obj[o].transfer = None
      /\ r.obj[o].status = w.obj[o].status
      /\ \A p \in DOMAIN w.obj : p # o => r.obj[p] = w.obj[p]
      /\ r.running \subseteq w.running
      /\ \A p \in w.running : p \in r.running <=> w.obj[p].url # w.obj[o].url
      /\ r.status = w.status /\ r.tasks = w.tasks /\ r.mapper = w.mapper
      /\ r.succeeded = w.succeeded /\ r.net = w.net /\ r.queue = w.queue
      /\ r.apart = w.apart
  BY <1>3, <1>4, FreedFields
<1> HIDE DEF r
<1>6. \A y \in DOMAIN s.net : r.net[y].url = s.net[y].url /\ (y # t => r.net[y] = s.net[y])
  BY <1>2, <1>5
<1>7. \A p \in DOMAIN s.obj :
        /\ r.obj[p].url = s.obj[p].url /\ r.obj[p].status = s.obj[p].status
        /\ p # o => r.obj[p] = s.obj[p]
  BY <1>2, <1>5
<1>8. r.net[t].state = "done" /\ DOMAIN r.net = DOMAIN s.net
  BY <1>2, <1>5
<1>9. \A p \in s.running : p \in r.running <=> s.obj[p].url # s.obj[o].url
  BY <1>2, <1>5
<1>10. /\ r.mapper = s.mapper /\ r.tasks = s.tasks /\ r.succeeded = s.succeeded
       /\ r.queue = s.queue /\ r.status = s.status /\ r.apart = s.apart
       /\ DOMAIN r.obj = DOMAIN s.obj /\ r.running \subseteq s.running
  BY <1>2, <1>5
<1>11. Freed(s, r, t, o)
  BY <1>5, <1>6, <1>7, <1>8, <1>9, <1>10 DEF Freed
<1> QED
  BY <1>11 DEF r, w

LEMMA FreedKnown ==
  ASSUME NEW s, Known(s), NEW t, NEW o, Finds(s, t, o), NEW r, Freed(s, r, t, o)
  PROVE  Known(r) /\ (Cardinality(s.running) <= Limit => Cardinality(r.running) <= Limit)
<1>1. \A job : JobKnown(s, job) => JobKnown(r, job)
  BY DEF JobKnown, Freed
<1>2. \A i \in DOMAIN r.queue : JobKnown(r, r.queue[i])
  BY <1>1 DEF Known, Freed
<1>3. \A p \in DOMAIN r.obj : r.obj[p].transfer \in DOMAIN r.net \cup {None}
  BY DEF Known, Freed
<1>4. /\ r.tasks \in Seq(DOMAIN r.obj) /\ r.succeeded \in Seq(DOMAIN r.obj)
      /\ r.running \subseteq DOMAIN r.obj
  BY DEF Known, Freed
<1>5. \A x \in Urls : r.mapper[x] # None => r.mapper[x] \in DOMAIN r.obj /\ r.obj[r.mapper[x]].url = x
  BY DEF Known, Freed
<1>6. Known(r)
  BY <1>2, <1>3, <1>4, <1>5 DEF Known, Freed
<1>7. IsFiniteSet(s.running) /\ Cardinality(s.running) \in Nat
  BY FiniteSlots
<1>8. Cardinality(r.running) <= Cardinality(s.running) /\ Cardinality(r.running) \in Nat
  <2>1. r.running \subseteq s.running
    BY DEF Freed
  <2>2. Cardinality(r.running) <= Cardinality(s.running)
    BY <1>7, <2>1, FS_Subset
  <2>3. Cardinality(r.running) \in Nat
    BY <1>6, FiniteSlots
  <2> QED
    BY <2>2, <2>3
<1> QED
  BY <1>6, <1>7, <1>8, LimitAssumption

\* No other task of the address of o has a transfer.
OnlyTransfer(s, o) ==
  \A p \in DOMAIN s.obj : s.obj[p].transfer # None /\ p # o => s.obj[p].url # s.obj[o].url

\* With no forgotten task the task is that of the transfer, and the only one of its address.
LEMMA FoundIsOwner ==
  ASSUME NEW s, Known(s), NEW fs, NEW t, NEW o, Finds(s, t, o), Whole(s), Owned(s, fs)
  PROVE  /\ s.obj[o].transfer = t /\ OnlyTransfer(s, o)
         /\ s.obj[o].status \in {"running", "willSuspend"} => ~HasLocal(s.queue, o)
         /\ s.net[t].state = "finished" => s.obj[o].url \in fs
<1>1. /\ t \in DOMAIN s.net /\ t # None
      /\ o \in DOMAIN s.obj /\ s.obj[o].url = s.net[t].url /\ s.mapper[s.net[t].url] = o
  BY FindsFields
<1>2. s.obj[o].transfer = t
  BY <1>1 DEF Finds, Owned, LiveIsListed
<1>3. EndsOnce(s, o) /\ FinishedHasFile(s, fs)
  BY <1>1 DEF Owned
<1>4. ASSUME NEW p \in DOMAIN s.obj, s.obj[p].transfer # None, p # o
      PROVE  s.obj[p].url # s.obj[o].url
  BY <1>1, <1>4 DEF Whole, Listed
<1>5. s.obj[o].status \in {"running", "willSuspend"} => ~HasLocal(s.queue, o)
  BY <1>1, <1>2, <1>3 DEF EndsOnce
<1>6. s.net[t].state = "finished" => s.obj[o].url \in fs
  BY <1>1, <1>3 DEF FinishedHasFile
<1>7. OnlyTransfer(s, o)
  BY <1>4 DEF OnlyTransfer
<1> QED
  BY <1>2, <1>5, <1>6, <1>7

LEMMA FreedWhole ==
  ASSUME NEW s, Known(s), NEW t, NEW o, Finds(s, t, o), NEW r, Freed(s, r, t, o), Whole(r)
  PROVE  Whole(s)
<1> SUFFICES ASSUME NEW p \in DOMAIN s.obj, s.obj[p].transfer # None PROVE Listed(s, p)
  BY DEF Whole
<1>1. o \in DOMAIN s.obj /\ s.obj[o].url = s.net[t].url /\ s.mapper[s.net[t].url] = o
  BY FindsFields
<1>2. CASE p = o
  BY <1>1, <1>2 DEF Listed
<1>3. CASE p # o
  BY <1>3 DEF Whole, Listed, Freed
<1> QED
  BY <1>2, <1>3

LEMMA FreedOwned ==
  ASSUME NEW s, Known(s), NEW fs, NEW t, NEW o, Finds(s, t, o), Whole(s), Owned(s, fs),
         NEW r, Freed(s, r, t, o)
  PROVE  Owned(r, fs)
<1>1. s.obj[o].transfer = t /\ OnlyTransfer(s, o)
  BY FoundIsOwner
<1>2. /\ t \in DOMAIN s.net /\ t # None
      /\ o \in DOMAIN s.obj /\ s.obj[o].url = s.net[t].url /\ s.mapper[s.net[t].url] = o
  BY FindsFields
<1>3. Live(r) = Live(s) \ {t}
  <2>1. DOMAIN r.net = DOMAIN s.net /\ r.net[t].state = "done"
        /\ \A y \in DOMAIN s.net : y # t => r.net[y].state = s.net[y].state
    BY DEF Freed
  <2> QED
    BY <1>2, <2>1 DEF Live
<1>4. ASSUME NEW p \in DOMAIN r.obj
      PROVE  HasSlot(r, p) /\ EndsOnce(r, p) /\ BlockHasFile(r, p, fs)
  <2>1. /\ p \in DOMAIN s.obj /\ HasSlot(s, p) /\ EndsOnce(s, p) /\ BlockHasFile(s, p, fs)
        /\ s.obj[p].transfer \in DOMAIN s.net \cup {None}
        /\ r.obj[p].url = s.obj[p].url /\ r.obj[p].status = s.obj[p].status
        /\ r.queue = s.queue
    BY DEF Owned, Known, Freed
  <2>2. BlockHasFile(r, p, fs)
    BY <2>1 DEF BlockHasFile
  <2>3. CASE p = o
    <3>1. r.obj[p].transfer = None /\ p \notin r.running
      BY <2>3 DEF Freed
    <3>2. HasSlot(r, p)
      BY <3>1 DEF HasSlot
    <3>3. EndsOnce(r, p)
      BY <2>1, <3>1 DEF EndsOnce
    <3> QED
      BY <2>2, <3>2, <3>3
  <2>4. CASE p # o
    <3> DEFINE y == s.obj[p].transfer
    <3>1. r.obj[p] = s.obj[p]
      BY <2>1, <2>4 DEF Freed
    <3>2. EndsOnce(r, p)
      BY <2>1, <3>1 DEF EndsOnce
    <3>3. p \in r.running => y # None
      BY <2>1 DEF HasSlot, Freed
    <3>4. ASSUME y # None PROVE p \in r.running /\ y \in Live(r) /\ r.net[y].url = s.net[y].url
      <4>1. s.obj[p].url # s.obj[o].url /\ y \in DOMAIN s.net /\ p \in s.running /\ y \in Live(s)
            /\ s.net[y].url = s.obj[p].url
        BY <1>1, <2>1, <2>4, <3>4 DEF HasSlot, OnlyTransfer
      <4>2. y # t
        BY <1>2, <4>1
      <4> QED
        BY <1>3, <4>1, <4>2 DEF Freed
    <3>5. HasSlot(r, p)
      BY <2>1, <3>1, <3>3, <3>4 DEF HasSlot
    <3> QED
      BY <2>2, <3>2, <3>5
  <2> QED
    BY <2>3, <2>4
<1>5. ASSUME NEW y \in Live(r) PROVE LiveIsListed(r, y)
  <2> DEFINE p == s.mapper[s.net[y].url]
  <2>1. y \in DOMAIN s.net /\ y \in Live(s) /\ y # t /\ y # None
    <3>1. s.net \in Seq(Nets)
      BY FieldTypes DEF Known
    <3> QED
      BY <1>3, <3>1 DEF Live, None
  <2>2. LiveIsListed(s, y)
    BY <2>1 DEF Owned
  <2>3. Finds(s, y, p)
    BY <2>1, <2>2 DEF Finds, LiveIsListed
  <2>4. p \in DOMAIN s.obj /\ s.obj[p].transfer = y /\ p # None
    BY <2>2, <2>3, FindsFields DEF LiveIsListed
  <2>5. p # o
    BY <1>1, <2>1, <2>4
  <2>6. r.obj[p].transfer = y /\ r.mapper[r.net[y].url] = p
    BY <2>1, <2>4, <2>5 DEF Freed
  <2> QED
    BY <2>4, <2>6 DEF LiveIsListed
<1>6. FinishedHasFile(r, fs)
  <2> SUFFICES ASSUME NEW y \in DOMAIN r.net, r.net[y].state = "finished" PROVE r.net[y].url \in fs
    BY DEF FinishedHasFile
  <2>1. y # t /\ y \in DOMAIN s.net /\ r.net[y] = s.net[y]
    BY DEF Freed
  <2> QED
    BY <2>1 DEF Owned, FinishedHasFile
<1>7. DoneHasFile(r, fs)
  BY DEF Owned, DoneHasFile, Freed
<1> QED
  BY <1>4, <1>5, <1>6, <1>7 DEF Owned

\* The callback frees the slot of the task that it finds.
LEMMA FreedGood ==
  ASSUME NEW s, NEW fs, Good(s, fs), NEW t, NEW o, Finds(s, t, o), NEW r, Freed(s, r, t, o)
  PROVE  /\ o \in DOMAIN r.obj /\ r.obj[o].status = s.obj[o].status
         /\ Good(r, fs) /\ Follows(s, r, fs) /\ r.status = s.status
         /\ Whole(r) => Whole(s)
         /\ Whole(s) =>
              /\ r.obj[o].transfer = None
              /\ r.obj[o].status \in {"running", "willSuspend"} => ~HasLocal(r.queue, o)
              /\ s.net[t].state = "finished" => r.obj[o].url \in fs
<1>1. Known(s) /\ Cardinality(s.running) <= Limit /\ (Whole(s) => Owned(s, fs))
  BY DEF Good
<1>2. Known(r) /\ Cardinality(r.running) <= Limit
  BY <1>1, FreedKnown
<1>3. Whole(r) => Whole(s)
  BY <1>1, FreedWhole
<1>4. Whole(s) => Owned(r, fs)
  BY <1>1, FreedOwned
<1>5. Good(r, fs)
  BY <1>2, <1>3, <1>4 DEF Good
<1>6. o \in DOMAIN s.obj
  BY <1>1, FindsFields
<1>7. /\ o \in DOMAIN r.obj /\ r.obj[o].status = s.obj[o].status /\ r.obj[o].url = s.obj[o].url
      /\ r.obj[o].transfer = None /\ r.queue = s.queue /\ r.status = s.status
  BY <1>6 DEF Freed
<1>8. ASSUME Whole(s)
      PROVE  /\ r.obj[o].status \in {"running", "willSuspend"} => ~HasLocal(r.queue, o)
             /\ s.net[t].state = "finished" => r.obj[o].url \in fs
  <2>1. /\ s.obj[o].status \in {"running", "willSuspend"} => ~HasLocal(s.queue, o)
        /\ s.net[t].state = "finished" => s.obj[o].url \in fs
    BY <1>1, <1>8, FoundIsOwner
  <2> QED
    BY <1>7, <2>1
<1>9. Ends(s, r, fs)
  BY DEF Ends, DoneHasFile, Freed
<1>10. Follows(s, r, fs)
  BY <1>9 DEF Follows, Freed
<1> QED
  BY <1>3, <1>5, <1>7, <1>8, <1>10

LEMMA OutcomeGood ==
  ASSUME NEW s, NEW fs, Good(s, fs), NEW o \in DOMAIN s.obj,
         NEW outcome \in {"ok", "failed", "system", "cancelled"},
         s.obj[o].status \in {"willSuspend", "running"},
         Whole(s) /\ Owned(s, fs) =>
           /\ s.obj[o].transfer = None /\ ~HasLocal(s.queue, o)
           /\ outcome = "ok" => s.obj[o].url \in fs
  PROVE  /\ Good(AfterOutcome(s, o, outcome), fs)
         /\ (outcome = "ok" => s.obj[o].url \in fs) => Ends(s, AfterOutcome(s, o, outcome), fs)
<1>1. Known(s) /\ s \in Managers
  BY DEF Good, Known
<1>2. CASE outcome = "ok"
  <2>1. AfterOutcome(s, o, outcome) = Succeeded(s, o, TRUE)
    BY <1>2 DEF AfterOutcome
  <2>2. /\ Good(Succeeded(s, o, TRUE), fs)
        /\ (DoneHasFile(s, fs) => s.obj[o].url \in fs) => Follows(s, Succeeded(s, o, TRUE), fs)
    BY <1>2, SucceededGood
  <2> QED
    BY <1>2, <2>1, <2>2 DEF Follows
<1>3. ASSUME NEW st \in {"failed", "suspended"}
      PROVE  LET r == Interrupted(SetStatus(s, o, st), o, TRUE) IN Good(r, fs) /\ Ends(s, r, fs)
  <2> DEFINE w == SetStatus(s, o, st)
             r == Interrupted(w, o, TRUE)
  <2>1. st \in Status /\ st \notin {"running", "willSuspend", "succeeded", "willCancel", "willRemove"}
    BY DEF Status
  <2>2. Good(w, fs)
    BY <2>1, SetStatusGood
  <2>3. Follows(s, w, fs) /\ w.status = s.status
    BY <1>1, <2>1, SetStatusFollows
  <2>4. o \in DOMAIN w.obj /\ w.obj[o].status = st
    BY <1>1, <2>1, SetStatusFields
  <2> HIDE DEF w
  <2>5. Whole(w) /\ Owned(w, fs) => w.obj[o].transfer = None /\ ~HasLocal(w.queue, o)
    BY <2>4, Startable
  <2>6. Good(r, fs) /\ Ends(w, r, fs)
    BY <2>2, <2>4, <2>5, InterruptedGood
  <2> HIDE DEF r
  <2>7. Ends(s, r, fs)
    BY <2>3, <2>6, EndsTwice DEF Follows
  <2> QED
    BY <2>6, <2>7 DEF r, w
<1>4. CASE outcome \in {"failed", "system"}
  <2>1. AfterOutcome(s, o, outcome) = Interrupted(SetStatus(s, o, "failed"), o, TRUE)
        \/ AfterOutcome(s, o, outcome) = Interrupted(SetStatus(s, o, "suspended"), o, TRUE)
    BY <1>4 DEF AfterOutcome
  <2> QED
    BY <1>3, <2>1
<1>5. CASE outcome = "cancelled"
  <2>1. AfterOutcome(s, o, outcome) = Interrupted(s, o, TRUE)
    BY <1>5 DEF AfterOutcome
  <2> QED
    BY <2>1, InterruptedGood
<1> QED
  BY <1>2, <1>4, <1>5

\* A transfer is complete.
CompleteTransfer(s, t, outcome) ==
  LET w == SetTransfer(s, t, "done")
      o == FetchTask(w, s.net[t].url)
  IN  IF o = None THEN w ELSE CompleteFromNetwork(w, o, outcome)

LEMMA CompleteGood ==
  ASSUME NEW s, NEW fs, Good(s, fs), NEW t \in DOMAIN s.net,
         NEW outcome \in Outcomes(s.net[t].state)
  PROVE  /\ Good(CompleteTransfer(s, t, outcome), fs)
         /\ Whole(s) => Ends(s, CompleteTransfer(s, t, outcome), fs)
<1> DEFINE o == s.mapper[s.net[t].url]
           w == SetTransfer(s, t, "done")
           r == FreeSlot(w, o)
<1>1. Known(s) /\ s.net \in Seq(Nets)
  BY FieldTypes DEF Good, Known
<1>2. /\ t \in Live(s) /\ outcome \in {"ok", "failed", "system", "cancelled"}
      /\ outcome = "ok" => s.net[t].state = "finished"
  <2>1. s.net[t].state \in {"active", "cut", "finished", "done"}
    <3>1. s.net[t] \in Nets
      BY <1>1
    <3> QED
      BY <3>1 DEF Nets
  <2>2. s.net[t].state # "done"
    BY DEF Outcomes
  <2> QED
    BY <2>1, <2>2 DEF Outcomes, Live
<1>3. /\ w \in Managers
      /\ w.obj = s.obj /\ w.mapper = s.mapper /\ w.running = s.running
      /\ w.tasks = s.tasks /\ w.succeeded = s.succeeded /\ w.status = s.status
      /\ w.queue = s.queue
  BY <1>1, NetFields
<1>4. FetchTask(w, s.net[t].url) = o
  BY <1>3 DEF FetchTask
<1>5. CASE o = None
  <2>1. CompleteTransfer(s, t, outcome) = w
    BY <1>4, <1>5 DEF CompleteTransfer
  <2>2. ~Whole(s)
    BY <1>2, <1>5 DEF Good, Owned, LiveIsListed
  <2>3. ~Whole(w)
    BY <1>3, <2>2 DEF Whole, Listed
  <2>4. Known(w)
    BY <1>1, NetKnown
  <2> HIDE DEF w
  <2>5. Good(w, fs)
    BY <1>3, <2>3, <2>4 DEF Good
  <2> QED
    BY <2>1, <2>2, <2>5
<1>6. CASE o # None
  <2>1. Finds(s, t, o)
    BY <1>2, <1>6 DEF Finds
  <2> HIDE DEF o
  <2>2. Freed(s, r, t, o)
    BY <1>1, <2>1, FreeSlotFrees
  <2>4. CompleteTransfer(s, t, outcome) = CompleteFromNetwork(w, o, outcome)
    BY <1>4, <1>6 DEF CompleteTransfer
  <2>5. w.obj[o].status = s.obj[o].status
    BY <1>3
  <2> DEFINE c == CompleteFromNetwork(w, o, outcome)
             st == s.obj[o].status
  <2> HIDE DEF w
  <2>6. /\ st \in {"willCancel", "willRemove"} => c = Interrupted(r, o, TRUE)
        /\ st \in {"willSuspend", "running"} => c = AfterOutcome(r, o, outcome)
        /\ st \notin {"willCancel", "willRemove", "willSuspend", "running"} => c = r
    BY <2>5 DEF CompleteFromNetwork
  <2> HIDE DEF r, c
  <2>7. /\ o \in DOMAIN r.obj /\ r.obj[o].status = st
        /\ Good(r, fs) /\ Follows(s, r, fs) /\ r.status = s.status
        /\ Whole(r) => Whole(s)
        /\ Whole(s) =>
             /\ r.obj[o].transfer = None
             /\ r.obj[o].status \in {"running", "willSuspend"} => ~HasLocal(r.queue, o)
             /\ s.net[t].state = "finished" => r.obj[o].url \in fs
    BY <2>1, <2>2, FreedGood
  <2>8. CASE st \in {"willCancel", "willRemove"}
    <3>1. c = Interrupted(r, o, TRUE)
      BY <2>6, <2>8
    <3>2. Good(c, fs) /\ Ends(r, c, fs)
      BY <2>7, <2>8, <3>1, InterruptedGood
    <3>3. Ends(s, c, fs)
      BY <2>7, <3>2, EndsTwice DEF Follows
    <3> QED
      BY <2>4, <3>2, <3>3 DEF c
  <2>9. CASE st \in {"willSuspend", "running"}
    <3>1. c = AfterOutcome(r, o, outcome)
      BY <2>6, <2>9
    <3>2. Whole(r) /\ Owned(r, fs) =>
            /\ r.obj[o].transfer = None /\ ~HasLocal(r.queue, o)
            /\ outcome = "ok" => r.obj[o].url \in fs
      BY <1>2, <2>7, <2>9
    <3>3. /\ Good(AfterOutcome(r, o, outcome), fs)
          /\ (outcome = "ok" => r.obj[o].url \in fs) => Ends(r, AfterOutcome(r, o, outcome), fs)
      BY <1>2, <2>7, <2>9, <3>2, OutcomeGood
    <3>4. Whole(s) => Ends(r, c, fs)
      BY <1>2, <2>7, <3>1, <3>3
    <3>5. Whole(s) => Ends(s, c, fs)
      BY <2>7, <3>4, EndsTwice DEF Follows
    <3> QED
      BY <2>4, <3>1, <3>3, <3>5 DEF c
  <2>10. CASE st \notin {"willCancel", "willRemove", "willSuspend", "running"}
    BY <2>4, <2>6, <2>7, <2>10 DEF Follows, c
  <2> QED
    BY <2>8, <2>9, <2>10
<1> QED
  BY <1>5, <1>6
-----------------------------------------------------------------------------
(***************************************************************************)
(* New tasks, and blocks for several tasks                                 *)
(***************************************************************************)

\* A task that is made waits, and no address loses its task.
Makes(s, r, fs) ==
  /\ r.status = s.status
  /\ DoneHasFile(s, fs) => DoneHasFile(r, fs)
  /\ \A u \in Urls : s.mapper[u] # None => r.mapper[u] # None

LEMMA NewTaskFields ==
  ASSUME NEW s, Known(s), NEW u \in Urls
  PROVE  LET r == NewTask(s, u)
             o == Len(s.obj) + 1
         IN  /\ r \in Managers
             /\ o \notin DOMAIN s.obj /\ DOMAIN r.obj = DOMAIN s.obj \cup {o} /\ o # None
             /\ r.obj[o] = [url |-> u, status |-> "waiting", transfer |-> None]
             /\ \A p \in DOMAIN s.obj : r.obj[p] = s.obj[p]
             /\ r.mapper[u] = o /\ \A x \in Urls : x # u => r.mapper[x] = s.mapper[x]
             /\ r.tasks = Append(s.tasks, o)
             /\ r.status = s.status /\ r.succeeded = s.succeeded /\ r.running = s.running
             /\ r.net = s.net /\ r.queue = s.queue /\ r.apart = s.apart
<1> DEFINE o == Len(s.obj) + 1
           e == [url |-> u, status |-> "waiting", transfer |-> None]
           q == Append(s.obj, e)
           k == Append(s.tasks, o)
           M == [s.mapper EXCEPT ![u] = o]
           r == NewTask(s, u)
<1>1. /\ s \in Managers /\ s.obj \in Seq(Objects) /\ s.tasks \in Seq(Nat)
      /\ s.mapper \in [Urls -> Nat]
  BY FieldTypes DEF Known
<1>2. e \in Objects
  BY DEF Objects, Status, None
<1>3. r = [s EXCEPT !.obj = q, !.tasks = k, !.mapper = M]
  BY <1>1 DEF NewTask, Managers
<1> HIDE DEF e
<1>4. /\ q \in Seq(Objects) /\ o \notin DOMAIN s.obj /\ DOMAIN q = DOMAIN s.obj \cup {o}
      /\ o \in Nat /\ o # None /\ q[o] = e /\ \A p \in DOMAIN s.obj : q[p] = s.obj[p]
  <2>1. /\ q \in Seq(Objects) /\ DOMAIN q = 1..o /\ DOMAIN s.obj = 1..Len(s.obj)
        /\ Len(s.obj) \in Nat /\ q[o] = e /\ \A p \in DOMAIN s.obj : q[p] = s.obj[p]
    BY <1>1, <1>2
  <2>2. DOMAIN q = DOMAIN s.obj \cup {o} /\ o \notin DOMAIN s.obj /\ o # None /\ o \in Nat
    BY <2>1 DEF None
  <2> QED
    BY <2>1, <2>2
<1> HIDE DEF q, o
<1>5. /\ M \in [Urls -> Nat] /\ M[u] = o /\ \A x \in Urls : x # u => M[x] = s.mapper[x]
  BY <1>1, <1>4
<1>6. k \in Seq(Nat)
  BY <1>1, <1>4, AppendType
<1> HIDE DEF k, M, r
<1>7. r \in Managers
  BY <1>1, <1>3, <1>4, <1>5, <1>6 DEF Managers
<1>8. /\ r.obj = q /\ r.tasks = k /\ r.mapper = M
      /\ r.status = s.status /\ r.succeeded = s.succeeded /\ r.running = s.running
      /\ r.net = s.net /\ r.queue = s.queue /\ r.apart = s.apart
  BY <1>1, <1>3 DEF Managers
<1> QED
  BY <1>4, <1>5, <1>7, <1>8 DEF r, o, e, k

\* A new task has no slot, no transfer and no block.
LEMMA NewTaskGood ==
  ASSUME NEW s, NEW fs, Good(s, fs), NEW u \in Urls, s.mapper[u] = None
  PROVE  LET r == NewTask(s, u) IN Good(r, fs) /\ Makes(s, r, fs) /\ r.mapper[u] # None
<1> DEFINE r == NewTask(s, u)
           o == Len(s.obj) + 1
<1>1. Known(s) /\ s \in Managers /\ Cardinality(s.running) <= Limit
  BY DEF Good, Known
<1>2. /\ r \in Managers
      /\ o \notin DOMAIN s.obj /\ DOMAIN r.obj = DOMAIN s.obj \cup {o} /\ o # None
      /\ r.obj[o] = [url |-> u, status |-> "waiting", transfer |-> None]
      /\ \A p \in DOMAIN s.obj : r.obj[p] = s.obj[p]
      /\ r.mapper[u] = o /\ \A x \in Urls : x # u => r.mapper[x] = s.mapper[x]
      /\ r.tasks = Append(s.tasks, o)
      /\ r.status = s.status /\ r.succeeded = s.succeeded /\ r.running = s.running
      /\ r.net = s.net /\ r.queue = s.queue
  BY <1>1, NewTaskFields
<1> HIDE DEF r, o
<1>3. r.obj[o].url = u /\ r.obj[o].status = "waiting" /\ r.obj[o].transfer = None
  BY <1>2
<1>4. Known(r)
  <2>1. \A p \in DOMAIN r.obj : r.obj[p].transfer \in DOMAIN r.net \cup {None}
    BY <1>1, <1>2, <1>3 DEF Known
  <2>2. /\ s.tasks \in Seq(DOMAIN s.obj) /\ s.succeeded \in Seq(DOMAIN s.obj)
        /\ DOMAIN s.obj \subseteq DOMAIN r.obj /\ o \in DOMAIN r.obj
    BY <1>1, <1>2 DEF Known
  <2>3. s.tasks \in Seq(DOMAIN r.obj) /\ s.succeeded \in Seq(DOMAIN r.obj)
    BY <2>2, SeqSubset
  <2>4. r.tasks \in Seq(DOMAIN r.obj) /\ r.succeeded \in Seq(DOMAIN r.obj)
    BY <1>2, <2>2, <2>3, AppendType
  <2>5. r.running \subseteq DOMAIN r.obj
    BY <1>1, <1>2 DEF Known
  <2>6. \A x \in Urls : r.mapper[x] # None => r.mapper[x] \in DOMAIN r.obj /\ r.obj[r.mapper[x]].url = x
    <3> SUFFICES ASSUME NEW x \in Urls, r.mapper[x] # None
                 PROVE  r.mapper[x] \in DOMAIN r.obj /\ r.obj[r.mapper[x]].url = x
      OBVIOUS
    <3>1. CASE x = u
      BY <1>2, <1>3, <3>1
    <3>2. CASE x # u
      <4>1. r.mapper[x] = s.mapper[x] /\ s.mapper[x] \in DOMAIN s.obj /\ s.obj[s.mapper[x]].url = x
        BY <1>1, <1>2, <3>2 DEF Known
      <4> QED
        BY <1>2, <4>1
    <3> QED
      BY <3>1, <3>2
  <2>7. ASSUME NEW job, JobKnown(s, job) PROVE JobKnown(r, job)
    <3>1. job.op \in {"startTask", "local"} => job.task \in DOMAIN r.obj
      BY <2>2, <2>7 DEF JobKnown
    <3>2. job.op = "startTasks" => job.tasks \in Seq(DOMAIN r.obj)
      BY <2>2, <2>7, SeqSubset DEF JobKnown
    <3> QED
      BY <3>1, <3>2 DEF JobKnown
  <2>8. \A i \in DOMAIN r.queue : JobKnown(r, r.queue[i])
    BY <1>1, <1>2, <2>7 DEF Known
  <2> QED
    BY <1>2, <2>1, <2>4, <2>5, <2>6, <2>8 DEF Known
<1>5. ASSUME Whole(r) PROVE Owned(r, fs)
  <2>1. Whole(s)
    <3> SUFFICES ASSUME NEW p \in DOMAIN s.obj, s.obj[p].transfer # None PROVE Listed(s, p)
      BY DEF Whole
    <3>1. /\ p \in DOMAIN r.obj /\ r.obj[p] = s.obj[p] /\ p # o /\ s.obj[p].url \in Urls
      BY <1>1, <1>2, ObjectTypes
    <3>2. r.mapper[s.obj[p].url] = p
      BY <1>5, <3>1 DEF Whole, Listed
    <3>3. s.obj[p].url # u
      BY <1>2, <3>1, <3>2
    <3> QED
      BY <1>2, <3>1, <3>2, <3>3 DEF Listed
  <2>2. Owned(s, fs)
    BY <2>1 DEF Good
  <2>3. Live(r) = Live(s)
    BY <1>2 DEF Live
  <2>4. ASSUME NEW p \in DOMAIN r.obj
        PROVE  HasSlot(r, p) /\ EndsOnce(r, p) /\ BlockHasFile(r, p, fs)
    <3>1. CASE p = o
      <4>1. o \notin r.running
        BY <1>1, <1>2 DEF Known
      <4>2. HasSlot(r, o)
        BY <1>3, <4>1 DEF HasSlot
      <4>3. ~HasLocal(r.queue, o)
        BY <1>1, <1>2 DEF HasLocal, IsLocal, Known, JobKnown
      <4>4. EndsOnce(r, o) /\ BlockHasFile(r, o, fs)
        BY <1>3, <4>3 DEF EndsOnce, BlockHasFile
      <4> QED
        BY <3>1, <4>2, <4>4
    <3>2. CASE p # o
      <4>1. p \in DOMAIN s.obj /\ r.obj[p] = s.obj[p]
        BY <1>2, <3>2
      <4>2. HasSlot(s, p) /\ EndsOnce(s, p) /\ BlockHasFile(s, p, fs)
        BY <2>2, <4>1 DEF Owned
      <4> QED
        BY <1>2, <2>3, <4>1, <4>2 DEF HasSlot, EndsOnce, BlockHasFile
    <3> QED
      BY <3>1, <3>2
  <2>5. ASSUME NEW t \in Live(r) PROVE LiveIsListed(r, t)
    <3> DEFINE p == s.mapper[s.net[t].url]
    <3>1. LiveIsListed(s, t) /\ t \in Live(s)
      BY <2>2, <2>3 DEF Owned
    <3>2. Finds(s, t, p)
      BY <3>1 DEF Finds, LiveIsListed
    <3>3. /\ p # None /\ p \in DOMAIN s.obj /\ s.obj[p].transfer = t /\ s.obj[p].url = s.net[t].url
          /\ s.net[t].url \in Urls
      <4>1. p # None /\ s.obj[p].transfer = t
        BY <3>1 DEF LiveIsListed
      <4>2. s \in Managers /\ Known(s) /\ t \in DOMAIN s.net
        BY <1>1, <3>1 DEF Live, Known
      <4> HIDE DEF p
      <4> QED
        BY <3>2, <4>1, <4>2, FindsFields
    <3>4. r.mapper[r.net[t].url] = p
      <4>1. s.net[t].url # u
        BY <3>3
      <4> QED
        BY <1>2, <3>3, <4>1
    <3> QED
      BY <1>2, <3>3, <3>4 DEF LiveIsListed
  <2>6. FinishedHasFile(r, fs)
    BY <1>2, <2>2 DEF Owned, FinishedHasFile
  <2>7. DoneHasFile(r, fs)
    BY <1>2, <1>3, <2>2 DEF Owned, DoneHasFile
  <2> QED
    BY <2>4, <2>5, <2>6, <2>7 DEF Owned
<1>6. Good(r, fs)
  BY <1>1, <1>2, <1>4, <1>5 DEF Good
<1>7. DoneHasFile(s, fs) => DoneHasFile(r, fs)
  BY <1>2, <1>3 DEF DoneHasFile
<1>8. ASSUME NEW x \in Urls, s.mapper[x] # None PROVE r.mapper[x] # None
  <2>1. CASE x = u
    BY <1>2, <2>1
  <2>2. CASE x # u
    BY <1>2, <1>8, <2>2
  <2> QED
    BY <2>1, <2>2
<1>9. Makes(s, r, fs)
  BY <1>2, <1>7, <1>8 DEF Makes
<1> QED
  BY <1>2, <1>6, <1>9 DEF r

LEMMA FindOrMakeGood ==
  ASSUME NEW s, NEW fs, Good(s, fs), NEW u \in Urls
  PROVE  LET r == FindOrMakeTask(s, u) IN Good(r, fs) /\ Makes(s, r, fs) /\ r.mapper[u] # None
<1>1. CASE s.mapper[u] = None
  <2>1. FindOrMakeTask(s, u) = NewTask(s, u)
    BY <1>1 DEF FindOrMakeTask, FetchTask
  <2> QED
    BY <1>1, <2>1, NewTaskGood
<1>2. CASE s.mapper[u] # None
  <2>1. FindOrMakeTask(s, u) = s
    BY <1>2 DEF FindOrMakeTask, FetchTask
  <2> QED
    BY <1>2, <2>1 DEF Makes
<1> QED
  BY <1>1, <1>2
\* The states between the tasks of a list
Passes(f, s, do, q) ==
  /\ f[0] = s
  /\ \A i \in 1 .. Len(q) : f[i] = Each(f[i - 1], do, q[i])
  /\ ForEach(s, do, q) = f[Len(q)]

LEMMA ForEachPasses ==
  ASSUME NEW s, NEW do, NEW S, NEW q \in Seq(S)
  PROVE  \E f : Passes(f, s, do, q)
<1> DEFINE n == Len(q)
           E(f, i) == IF i = 0 THEN s ELSE Each(f[i - 1], do, q[i])
           After(f, k) == f = [i \in 0 .. k |-> E(f, i)]
           after == CHOOSE f : After(f, n)
<1>1. n \in Nat
  OBVIOUS
<1>2. \A k \in 0 .. n : \E f : After(f, k)
  <2> DEFINE T == {k \in 0 .. n : ~\E f : After(f, k)}
  <2> SUFFICES ASSUME T # {} PROVE FALSE
    OBVIOUS
  <2>1. PICK k \in T : \A j \in T : k <= j
    <3>1. T \in SUBSET Nat
      BY <1>1
    <3> HIDE DEF T
    <3> QED
      BY <3>1, LeastNumber
  <2>2. k \in 0 .. n /\ k \in Nat
    BY <1>1
  <2>3. CASE k = 0
    <3> DEFINE f == [i \in 0 .. 0 |-> s]
    <3>1. f = [i \in 0 .. 0 |-> E(f, i)]
      OBVIOUS
    <3>2. After(f, k)
      BY <2>3, <3>1
    <3> QED
      BY <3>2
  <2>4. CASE k # 0
    <3>1. k - 1 \in 0 .. n /\ ~(k <= k - 1)
      BY <1>1, <2>2, <2>4
    <3>2. k - 1 \notin T
      BY <2>1, <3>1
    <3>3. PICK f : After(f, k - 1)
      BY <3>1, <3>2
    <3> DEFINE g == [i \in 0 .. k |-> E(f, i)]
    <3>4. \A i \in 0 .. k : E(g, i) = E(f, i)
      <4> SUFFICES ASSUME NEW i \in 0 .. k, i # 0 PROVE g[i - 1] = f[i - 1]
        <5> HIDE DEF g
        <5> QED
          OBVIOUS
      <4>1. i - 1 \in 0 .. k /\ i - 1 \in 0 .. k - 1
        BY <2>2
      <4>2. g[i - 1] = E(f, i - 1)
        BY <4>1
      <4> HIDE DEF E, g
      <4>3. f[i - 1] = E(f, i - 1)
        BY <3>3, <4>1
      <4> QED
        BY <4>2, <4>3
    <3>5. After(g, k)
      <4> HIDE DEF E
      <4> QED
        BY <3>4
    <3> HIDE DEF g, After
    <3> QED
      BY <3>5
  <2> QED
    BY <2>3, <2>4
<1>3. After(after, n)
  <2>1. n \in 0 .. n
    BY <1>1
  <2> HIDE DEF After, n
  <2> QED
    BY <1>2, <2>1
<1>4. ForEach(s, do, q) = after[n]
  BY DEF ForEach, after
<1> HIDE DEF after
<1>5. \A i \in 0 .. n : after[i] = E(after, i)
  <2> HIDE DEF E
  <2> QED
    BY <1>3
<1>6. after[0] = s
  BY <1>1, <1>5
<1>7. ASSUME NEW i \in 1 .. n PROVE after[i] = Each(after[i - 1], do, q[i])
  <2>1. i \in 0 .. n /\ i # 0
    BY <1>1
  <2> QED
    BY <1>5, <2>1
<1>8. Passes(after, s, do, q)
  BY <1>4, <1>6, <1>7 DEF Passes
<1> QED
  BY <1>8

\* The start of several tasks, or their stop, is that of one after the other.
LEMMA ForEachGood ==
  ASSUME NEW s, Good(s, Delivered), NEW q \in Seq(DOMAIN s.obj),
         NEW do \in {"start", "suspend", "cancel", "remove"}
  PROVE  Good(ForEach(s, do, q), Delivered) /\ Follows(s, ForEach(s, do, q), Delivered)
<1> DEFINE n == Len(q)
           Fine(r) == Good(r, Delivered) /\ Follows(s, r, Delivered)
<1>1. PICK f : Passes(f, s, do, q)
  BY ForEachPasses
<1>2. n \in Nat /\ Known(s)
  BY DEF Good
<1>3. Fine(f[0])
  BY <1>1 DEF Passes, Follows, Ends
<1>4. ASSUME NEW i \in 1 .. n, Fine(f[i - 1]) PROVE Fine(f[i])
  <2> DEFINE r == f[i - 1]
             w == Each(r, do, q[i])
  <2>1. Good(r, Delivered) /\ Follows(s, r, Delivered)
    BY <1>4
  <2>2. q[i] \in DOMAIN s.obj
    BY <1>2
  <2>3. q[i] \in DOMAIN r.obj
    BY <2>1, <2>2 DEF Follows
  <2> HIDE DEF r
  <2>4. Good(w, Delivered) /\ Follows(r, w, Delivered)
    <3>1. w \in {StartUnlessSucceeded(r, q[i]), Suspend(r, q[i]), Cancel(r, q[i]), RemoveTask(r, q[i])}
      BY DEF Each
    <3> HIDE DEF w
    <3> QED
      BY <2>1, <2>3, <3>1, RequestsGood
  <2>5. Follows(s, w, Delivered)
    BY <1>2, <2>1, <2>4, FollowsTwice
  <2>6. f[i] = w
    BY <1>1 DEF Passes, r
  <2> QED
    BY <2>4, <2>5, <2>6
<1> HIDE DEF Fine
<1>5. \A i \in 0 .. n : Fine(f[i])
  <2> DEFINE T == {i \in 0 .. n : ~Fine(f[i])}
  <2> SUFFICES ASSUME T # {} PROVE FALSE
    OBVIOUS
  <2>1. PICK i \in T : \A j \in T : i <= j
    <3>1. T \in SUBSET Nat
      BY <1>2
    <3> HIDE DEF T
    <3> QED
      BY <3>1, LeastNumber
  <2>2. i \in 0 .. n /\ ~Fine(f[i])
    BY <2>1
  <2>3. i \in 1 .. n /\ i - 1 \in 0 .. n /\ ~(i <= i - 1)
    BY <1>2, <1>3, <2>2
  <2>4. i - 1 \notin T
    BY <2>1, <2>3
  <2>5. Fine(f[i - 1])
    BY <2>3, <2>4
  <2> QED
    BY <1>4, <2>2, <2>3, <2>5
<1>6. Fine(f[n])
  BY <1>2, <1>5
<1>7. ForEach(s, do, q) = f[n]
  BY <1>1 DEF Passes
<1> QED
  BY <1>6, <1>7 DEF Fine

\* Each address of a list has a task afterwards.
LEMMA AppendGood ==
  ASSUME NEW s, NEW fs, Good(s, fs), NEW q \in Seq(Urls)
  PROVE  LET r == ForEach(s, "append", q)
         IN  Good(r, fs) /\ Makes(s, r, fs) /\ \A i \in DOMAIN q : r.mapper[q[i]] # None
<1> DEFINE n == Len(q)
           Fine(r, k) ==
             Good(r, fs) /\ Makes(s, r, fs) /\ \A j \in 1 .. k : r.mapper[q[j]] # None
<1>1. PICK f : Passes(f, s, "append", q)
  BY ForEachPasses
<1>2. n \in Nat /\ DOMAIN q = 1 .. n
  OBVIOUS
<1>3. Fine(f[0], 0)
  BY <1>1 DEF Passes, Makes
<1>4. ASSUME NEW i \in 1 .. n, Fine(f[i - 1], i - 1) PROVE Fine(f[i], i)
  <2> DEFINE r == f[i - 1]
             w == FindOrMakeTask(r, q[i])
  <2>1. Good(r, fs) /\ Makes(s, r, fs) /\ \A j \in 1 .. i - 1 : r.mapper[q[j]] # None
    BY <1>4
  <2>2. \A j \in 1 .. n : q[j] \in Urls
    BY <1>2
  <2> HIDE DEF r
  <2>3. Good(w, fs) /\ Makes(r, w, fs) /\ w.mapper[q[i]] # None
    BY <2>1, <2>2, FindOrMakeGood
  <2>4. f[i] = w
    BY <1>1 DEF Passes, Each, r
  <2> HIDE DEF w
  <2>5. Makes(s, w, fs)
    BY <2>1, <2>3 DEF Makes
  <2>6. ASSUME NEW j \in 1 .. i PROVE w.mapper[q[j]] # None
    <3>1. CASE j = i
      BY <2>3, <3>1
    <3>2. CASE j # i
      <4>1. j \in 1 .. i - 1 /\ j \in 1 .. n
        BY <1>2, <3>2
      <4> QED
        BY <2>1, <2>2, <2>3, <4>1 DEF Makes
    <3> QED
      BY <3>1, <3>2
  <2> QED
    BY <2>3, <2>4, <2>5, <2>6
<1> HIDE DEF Fine
<1>5. \A i \in 0 .. n : Fine(f[i], i)
  <2> DEFINE T == {i \in 0 .. n : ~Fine(f[i], i)}
  <2> SUFFICES ASSUME T # {} PROVE FALSE
    OBVIOUS
  <2>1. PICK i \in T : \A j \in T : i <= j
    <3>1. T \in SUBSET Nat
      BY <1>2
    <3> HIDE DEF T
    <3> QED
      BY <3>1, LeastNumber
  <2>2. i \in 0 .. n /\ ~Fine(f[i], i)
    BY <2>1
  <2>3. i \in 1 .. n /\ i - 1 \in 0 .. n /\ ~(i <= i - 1)
    BY <1>2, <1>3, <2>2
  <2>4. i - 1 \notin T
    BY <2>1, <2>3
  <2>5. Fine(f[i - 1], i - 1)
    BY <2>3, <2>4
  <2> QED
    BY <1>4, <2>2, <2>3, <2>5
<1>6. Fine(f[n], n)
  BY <1>2, <1>5
<1>7. ForEach(s, "append", q) = f[n]
  BY <1>1 DEF Passes
<1> QED
  BY <1>2, <1>6, <1>7 DEF Fine
-----------------------------------------------------------------------------
(***************************************************************************)
(* Steps of the manager                                                    *)
(***************************************************************************)

\* After a change, the tasks are stored and a block is posted.
LEMMA PostGood ==
  ASSUME NEW s, NEW r, NEW fs, Good(r, fs), Makes(s, r, fs),
         NEW job \in AllJobs, job.op # "local", JobKnown(r, job)
  PROVE  LET w == Async(StoreTasks(r), job) IN Good(w, fs) /\ Ends(s, w, fs)
<1> DEFINE v == StoreTasks(r)
           w == Async(v, job)
<1>1. Known(r)
  BY DEF Good
<1>2. Quiet(r, r)
  BY <1>1, QuietSelf
<1>3. Quiet(r, v) /\ v.status = r.status
  BY <1>2, StoreQuiet
<1>4. v.queue = r.queue
  BY <1>1 DEF Known, Managers, StoreTasks
<1> HIDE DEF v
<1>5. Quiet(r, w) /\ w.status = r.status
  <2>1. Quiet(r, v) /\ v.queue = r.queue /\ Known(r) /\ job \in AllJobs /\ job.op # "local" /\ JobKnown(r, job)
    BY <1>1, <1>3, <1>4
  <2> QED
    BY <1>3, <2>1, PostQuiet
<1> HIDE DEF w
<1>6. Good(w, fs)
  BY <1>5, QuietGood
<1>7. DoneHasFile(r, fs) => DoneHasFile(w, fs)
  BY <1>5 DEF Quiet, Alike, DoneHasFile
<1>8. Ends(s, w, fs)
  BY <1>5, <1>7 DEF Makes, Ends
<1> QED
  BY <1>6, <1>8 DEF w, v

LEMMA DownloadBlockGood ==
  ASSUME NEW s, NEW fs, Good(s, fs), NEW u \in Urls
  PROVE  Good(DownloadBlock(s, u), fs) /\ Ends(s, DownloadBlock(s, u), fs)
<1> DEFINE r == FindOrMakeTask(s, u)
           job == [op |-> "startTask", task |-> FetchTask(r, u)]
<1>1. Good(r, fs) /\ Makes(s, r, fs) /\ r.mapper[u] # None
  BY FindOrMakeGood
<1>2. DownloadBlock(s, u) = Async(StoreTasks(r), job)
  BY DEF DownloadBlock
<1> HIDE DEF r
<1>3. Known(r) /\ r.mapper[u] \in DOMAIN r.obj /\ r.mapper[u] \in Nat
  <2>1. Known(r) /\ r.mapper[u] \in DOMAIN r.obj
    BY <1>1 DEF Good, Known
  <2> QED
    BY <2>1, ObjectTypes DEF Known
<1>4. job \in AllJobs /\ job.op # "local" /\ JobKnown(r, job)
  BY <1>3 DEF AllJobs, JobKnown, FetchTask
<1> HIDE DEF job
<1> QED
  BY <1>1, <1>2, <1>4, PostGood

\* The addresses can be put in order.
LEMMA UrlsInOrder == SetToSeq(Urls) \in Seq(Urls)
<1> DEFINE n == Cardinality(Urls)
           B == [1 .. n -> Urls]
<1>1. n \in Nat
  BY UrlsAssumption, FS_CardinalityType
<1>2. \E f \in B : IsInjective(f)
  <2>1. ExistsBijection(1 .. n, Urls)
    BY UrlsAssumption, FS_NatBijection, FS_CardinalityType
  <2>2. PICK f \in Bijection(1 .. n, Urls) : TRUE
    BY <2>1 DEF ExistsBijection
  <2>3. f \in B /\ IsInjective(f)
    BY <2>2 DEF Bijection, Injection, IsInjective
  <2> QED
    BY <2>3
<1>3. SetToSeq(Urls) \in B
  BY <1>2 DEF SetToSeq
<1> QED
  BY <1>1, <1>3
LEMMA MultiDownloadGood ==
  ASSUME NEW s, NEW fs, Good(s, fs)
  PROVE  Good(MultiDownload(s), fs) /\ Ends(s, MultiDownload(s), fs)
<1> DEFINE batch == SetToSeq(Urls)
           r == ForEach(s, "append", batch)
           k == [i \in DOMAIN batch |-> FetchTask(r, batch[i])]
           job == [op |-> "startTasks", tasks |-> k]
<1>1. batch \in Seq(Urls)
  BY UrlsInOrder
<1>2. MultiDownload(s) = Async(StoreTasks(r), job)
  BY DEF MultiDownload
<1> HIDE DEF batch
<1>3. Good(r, fs) /\ Makes(s, r, fs) /\ \A i \in DOMAIN batch : r.mapper[batch[i]] # None
  BY <1>1, AppendGood
<1> HIDE DEF r
<1>4. \A i \in DOMAIN batch : batch[i] \in Urls /\ FetchTask(r, batch[i]) \in DOMAIN r.obj
  BY <1>1, <1>3 DEF FetchTask, Good, Known
<1>5. k \in Seq(DOMAIN r.obj)
  <2>1. k \in [1 .. Len(batch) -> DOMAIN r.obj] /\ Len(batch) \in Nat
    BY <1>1, <1>4
  <2> QED
    BY <2>1
<1>6. k \in Seq(Nat)
  <2>1. r.obj \in Seq(Objects)
    BY <1>3, FieldTypes DEF Good, Known
  <2>2. DOMAIN r.obj \subseteq Nat
    BY <2>1
  <2> QED
    BY <1>5, <2>2, SeqSubset
<1> HIDE DEF k
<1>7. job \in AllJobs /\ job.op # "local" /\ JobKnown(r, job)
  BY <1>5, <1>6 DEF AllJobs, JobKnown
<1> HIDE DEF job
<1> QED
  BY <1>2, <1>3, <1>7, PostGood

\* A request for all tasks sets the status of the manager first.
LEMMA TotalGood ==
  ASSUME NEW s, Good(s, Delivered), NEW will \in Stopping, NEW do \in {"suspend", "cancel", "remove"}
  PROVE  LET r == ForEach([s EXCEPT !.status = will], do, s.tasks)
         IN  Good(r, Delivered) /\ Ends(s, r, Delivered)
<1> DEFINE w == [s EXCEPT !.status = will]
           r == ForEach(w, do, s.tasks)
<1>1. Known(s) /\ will \in Status /\ will # "succeeded"
  BY DEF Good, Status, Stopping
<1>2. Quiet(s, w) /\ w.status = will
  BY <1>1, QuietStatus
<1>3. w.tasks = s.tasks
  BY <1>1 DEF Known, Managers
<1> HIDE DEF w
<1>4. Good(w, Delivered) /\ s.tasks \in Seq(DOMAIN w.obj)
  <2>1. Good(w, Delivered)
    BY <1>2, QuietGood
  <2> QED
    BY <1>3, <2>1 DEF Good, Known
<1>5. Follows(s, w, Delivered)
  BY <1>1, <1>2, <1>3, AlikeFollows DEF Quiet
<1>6. Good(r, Delivered) /\ Follows(w, r, Delivered)
  BY <1>4, ForEachGood
<1> HIDE DEF r
<1>7. Follows(s, r, Delivered)
  BY <1>1, <1>5, <1>6, FollowsTwice
<1> QED
  BY <1>6, <1>7 DEF Follows, r, w

\* A handler would be called on the main queue: there is none here.
LEMMA ExecuteSame ==
  ASSUME NEW s, Known(s)
  PROVE  ExecuteCompletion(s) = s
<1>1. s \in Managers /\ s.main = <<>> /\ s.handler = <<>>
  BY FieldTypes DEF Known
<1>2. s.main \o s.handler = <<>>
  BY <1>1
<1>3. ExecuteCompletion(s) = [s EXCEPT !.main = <<>>]
  BY <1>2 DEF ExecuteCompletion
<1> QED
  BY <1>1, <1>3 DEF Managers

\* Every block but those that end a task.
LEMMA BlockGood ==
  ASSUME NEW s, Good(s, Delivered), NEW job \in AllJobs, JobKnown(s, job), job.op # "local"
  PROVE  Good(Run(s, job), Delivered) /\ Ends(s, Run(s, job), Delivered)
<1> DEFINE Fine(r) == Good(r, Delivered) /\ Ends(s, r, Delivered)
<1>1. Known(s) /\ s \in Managers
  BY DEF Good, Known
<1>2. Fine(s)
  BY DEF Ends
<1>3. ASSUME NEW r, Good(r, Delivered), Follows(s, r, Delivered) PROVE Fine(r)
  BY <1>3 DEF Follows
<1>4. \A u \in Urls : FetchTask(s, u) # None => FetchTask(s, u) \in DOMAIN s.obj
  BY <1>1 DEF Known, FetchTask
<1>5. /\ job.op \in SingleRequests \cup TotalRequests
                    \cup {"multiDownload", "next", "execute", "startTask", "local", "startTasks"}
      /\ job.op \in SingleRequests => job.url \in Urls
      /\ job.op \in {"startTask", "local"} => job.task \in Nat
      /\ job.op = "startTasks" => job.tasks \in Seq(Nat)
  BY JobFields
<1> HIDE DEF Fine
<1>6. CASE job.op = "download"
  <2>1. job.url \in Urls /\ Run(s, job) = DownloadBlock(s, job.url)
    BY <1>5, <1>6 DEF SingleRequests, Run
  <2> QED
    BY <2>1, DownloadBlockGood
<1>7. CASE job.op \in {"start", "suspend", "cancel", "remove"}
  <2> DEFINE o == FetchTask(s, job.url)
  <2>1. job.url \in Urls
    BY <1>5, <1>7 DEF SingleRequests
  <2>2. o = None => Run(s, job) = s
    BY <1>7 DEF Run, OnTask
  <2>3. o # None => Run(s, job) \in {Start(s, o), Suspend(s, o), Cancel(s, o), RemoveTask(s, o)}
    BY <1>7 DEF Run, OnTask
  <2>4. ASSUME o # None
        PROVE  Fine(Start(s, o)) /\ Fine(Suspend(s, o)) /\ Fine(Cancel(s, o)) /\ Fine(RemoveTask(s, o))
    <3>1. o \in DOMAIN s.obj
      BY <1>4, <2>1, <2>4
    <3> HIDE DEF o
    <3>2. Good(Start(s, o), Delivered) /\ Follows(s, Start(s, o), Delivered)
      BY <3>1, StartGood
    <3>3. /\ Good(Suspend(s, o), Delivered) /\ Follows(s, Suspend(s, o), Delivered)
          /\ Good(Cancel(s, o), Delivered) /\ Follows(s, Cancel(s, o), Delivered)
          /\ Good(RemoveTask(s, o), Delivered) /\ Follows(s, RemoveTask(s, o), Delivered)
      BY <3>1, RequestsGood
    <3> QED
      BY <1>3, <3>2, <3>3
  <2> HIDE DEF o
  <2> QED
    BY <1>2, <2>2, <2>3, <2>4 DEF Fine
<1>8. CASE job.op = "startTask"
  <2>1. job.task \in DOMAIN s.obj
    BY <1>8 DEF JobKnown
  <2>2. Run(s, job) \in {s, Start(s, job.task)}
    BY <1>8 DEF Run, OnTask
  <2>3. Fine(Start(s, job.task))
    BY <1>3, <2>1, StartGood
  <2> QED
    BY <1>2, <2>2, <2>3 DEF Fine
<1>9. CASE job.op \in {"totalStart", "startTasks"}
  <2>1. PICK q \in Seq(DOMAIN s.obj) : Run(s, job) = ForEach(s, "start", q)
    <3>1. s.tasks \in Seq(DOMAIN s.obj)
      BY <1>1 DEF Known
    <3>2. job.op = "startTasks" => job.tasks \in Seq(DOMAIN s.obj)
      BY DEF JobKnown
    <3> QED
      BY <1>9, <3>1, <3>2 DEF Run
  <2>2. Fine(ForEach(s, "start", q))
    BY <1>3, ForEachGood
  <2> QED
    BY <2>1, <2>2 DEF Fine
<1>10. CASE job.op \in {"totalSuspend", "totalCancel", "totalRemove"}
  <2>1. \/ Run(s, job) = s
        \/ Run(s, job) = ForEach([s EXCEPT !.status = "willSuspend"], "suspend", s.tasks)
        \/ Run(s, job) = ForEach([s EXCEPT !.status = "willCancel"], "cancel", s.tasks)
        \/ Run(s, job) = ForEach([s EXCEPT !.status = "willRemove"], "remove", s.tasks)
    BY <1>10 DEF Run
  <2>2. "willSuspend" \in Stopping /\ "willCancel" \in Stopping /\ "willRemove" \in Stopping
    BY DEF Stopping
  <2>3. Fine(ForEach([s EXCEPT !.status = "willSuspend"], "suspend", s.tasks))
    BY <2>2, TotalGood DEF Fine
  <2>4. Fine(ForEach([s EXCEPT !.status = "willCancel"], "cancel", s.tasks))
    BY <2>2, TotalGood DEF Fine
  <2>5. Fine(ForEach([s EXCEPT !.status = "willRemove"], "remove", s.tasks))
    BY <2>2, TotalGood DEF Fine
  <2>6. Fine(Run(s, job))
    BY <1>2, <2>1, <2>3, <2>4, <2>5
  <2> QED
    BY <2>6 DEF Fine
<1>11. CASE job.op = "multiDownload"
  <2>1. Run(s, job) = MultiDownload(s)
    BY <1>11 DEF Run
  <2> QED
    BY <2>1, MultiDownloadGood
<1>12. CASE job.op = "execute"
  <2>1. Run(s, job) = ExecuteCompletion(s)
    BY <1>12 DEF Run
  <2>2. ExecuteCompletion(s) = s
    BY <1>1, ExecuteSame
  <2> QED
    BY <1>2, <2>1, <2>2 DEF Fine
<1>13. CASE job.op = "next"
  <2>1. Run(s, job) = StartNextTask(s)
    BY <1>13 DEF Run
  <2> QED
    BY <2>1, StartNextGood DEF Follows
<1> QED
  BY <1>5, <1>6, <1>7, <1>8, <1>9, <1>10, <1>11, <1>12, <1>13 DEF SingleRequests, TotalRequests

LEMMA RunGood ==
  ASSUME NEW s, Good(s, Delivered), s.queue # <<>>
  PROVE  LET r == Run(Taken(s), Head(s.queue))
         IN  Good(r, Delivered) /\ (Whole(s) => Ends(s, r, Delivered))
<1> DEFINE job == Head(s.queue)
           w == Taken(s)
           r == Run(w, job)
<1>1. /\ Good(w, Delivered) /\ Follows(s, w, Delivered) /\ w.status = s.status
      /\ job \in AllJobs /\ JobKnown(w, job)
  BY TakenGood
<1>2. CASE job.op = "local"
  <2> DEFINE o == job.task
  <2>1. o \in DOMAIN s.obj
    BY <1>1, <1>2 DEF JobKnown, Follows
  <2>2. IsLocal(Head(s.queue), o)
    BY <1>2 DEF IsLocal
  <2>3. r = CompleteLocally(w, o)
    BY <1>2 DEF Run
  <2> HIDE DEF o, r
  <2>4. Good(CompleteLocally(w, o), Delivered) /\ (Whole(s) => Ends(s, CompleteLocally(w, o), Delivered))
    BY <2>1, <2>2, LocallyGood
  <2>5. Good(r, Delivered) /\ (Whole(s) => Ends(s, r, Delivered))
    BY <2>3, <2>4
  <2> QED
    BY <2>5 DEF r
<1>3. CASE job.op # "local"
  <2> HIDE DEF w, job
  <2>1. Good(r, Delivered) /\ Ends(w, r, Delivered)
    BY <1>1, <1>3, BlockGood
  <2> HIDE DEF r
  <2>2. Ends(s, r, Delivered)
    BY <1>1, <2>1, EndsTwice DEF Follows
  <2> QED
    BY <2>1, <2>2 DEF r, w, job
<1> QED
  BY <1>2, <1>3
\* A request is a block.
LEMMA RequestGood ==
  ASSUME NEW s, NEW fs, Good(s, fs), NEW job \in AllJobs, job.op # "local", JobKnown(s, job)
  PROVE  Good(Async(s, job), fs) /\ Async(s, job).status = s.status
<1>1. Known(s)
  BY DEF Good
<1>2. Quiet(s, s)
  BY <1>1, QuietSelf
<1>3. Quiet(s, Async(s, job)) /\ Async(s, job).status = s.status
  BY <1>1, <1>2, PostQuiet
<1> QED
  BY <1>3, QuietGood

\* What a step does: it keeps the invariant, and the manager has succeeded only with files.
StepGood ==
  /\ ManagerInv'
  /\ Whole(m) /\ m.status # "succeeded" /\ m'.status = "succeeded" => TasksHaveFiles(m, Delivered)'

LEMMA RequestPosts ==
  Request => \E job \in AllJobs : job.op # "local" /\ JobKnown(m, job) /\ m' = Async(m, job)
<1> SUFFICES ASSUME Request
             PROVE  \E job \in AllJobs : job.op # "local" /\ JobKnown(m, job) /\ m' = Async(m, job)
  OBVIOUS
<1> DEFINE Posts(job) == job \in AllJobs /\ job.op # "local" /\ JobKnown(m, job)
<1>1. ASSUME NEW op \in SingleRequests, NEW u \in Urls PROVE Posts([op |-> op, url |-> u])
  BY DEF AllJobs, JobKnown, SingleRequests
<1>2. ASSUME NEW op \in TotalRequests \cup {"multiDownload"} PROVE Posts([op |-> op])
  BY DEF AllJobs, JobKnown, TotalRequests
<1> HIDE DEF Posts
<1>3. \E job : Posts(job) /\ m' = Async(m, job)
  BY <1>1, <1>2 DEF Request
<1> QED
  BY <1>3 DEF Posts

LEMMA RequestStep == ManagerInv /\ Request => StepGood
<1> SUFFICES ASSUME ManagerInv, Request PROVE StepGood
  OBVIOUS
<1>1. /\ Good(m, Delivered) /\ files \subseteq Urls /\ unstored \subseteq Urls /\ requests \in 0 .. MaxRequests
      /\ files' = files /\ unstored' = unstored /\ Delivered' = Delivered
  BY DEF ManagerInv, Request, Delivered
<1>2. PICK job \in AllJobs : job.op # "local" /\ JobKnown(m, job) /\ m' = Async(m, job)
  BY RequestPosts
<1>3. Good(m', Delivered) /\ m'.status = m.status
  <2>1. Good(Async(m, job), Delivered) /\ Async(m, job).status = m.status
    BY <1>1, <1>2, RequestGood
  <2> QED
    BY <1>2, <2>1
<1>4. requests' \in 0 .. MaxRequests
  <2>1. Cardinality(Urls) \in Nat /\ MaxRequests \in Nat
    BY UrlsAssumption, RequestsAssumption, FS_CardinalityType
  <2>2. \/ requests < MaxRequests /\ requests' = requests + 1
        \/ requests + Cardinality(Urls) <= MaxRequests /\ requests' = requests + Cardinality(Urls)
    BY DEF Request
  <2> QED
    BY <1>1, <2>1, <2>2
<1>5. ManagerInv'
  BY <1>1, <1>3, <1>4 DEF ManagerInv
<1> QED
  BY <1>3, <1>5 DEF StepGood

LEMMA BlockStep == ManagerInv /\ RunBlock => StepGood
<1> SUFFICES ASSUME ManagerInv, RunBlock PROVE StepGood
  OBVIOUS
<1>1. /\ Good(m, Delivered) /\ files \subseteq Urls /\ unstored \subseteq Urls /\ requests \in 0 .. MaxRequests
      /\ files' = files /\ unstored' = unstored /\ Delivered' = Delivered /\ requests' = requests
      /\ m.queue # <<>> /\ m' = Run(Taken(m), Head(m.queue))
  BY DEF ManagerInv, RunBlock, Taken, Delivered
<1>2. Good(m', Delivered) /\ (Whole(m) => Ends(m, m', Delivered))
  <2>1. LET r == Run(Taken(m), Head(m.queue))
        IN  Good(r, Delivered) /\ (Whole(m) => Ends(m, r, Delivered))
    BY <1>1, RunGood
  <2> QED
    BY <1>1, <2>1
<1>3. ManagerInv'
  BY <1>1, <1>2 DEF ManagerInv
<1>4. Whole(m) => DoneHasFile(m, Delivered)
  BY <1>1 DEF Good, Owned
<1> QED
  BY <1>1, <1>2, <1>3, <1>4 DEF StepGood, Ends, TasksHaveFiles

LEMMA DeliveredStep ==
  ASSUME NEW t \in DOMAIN m.net
  PROVE  ManagerInv /\ DidFinishDownloading(t) => StepGood
<1> SUFFICES ASSUME ManagerInv, DidFinishDownloading(t) PROVE StepGood
  OBVIOUS
<1> DEFINE u == m.net[t].url
<1>1. /\ Good(m, Delivered) /\ files \subseteq Urls /\ unstored \subseteq Urls /\ requests \in 0 .. MaxRequests
      /\ m.net[t].state \in {"active", "cut"} /\ m' = SetTransfer(m, t, "finished")
      /\ requests' = requests
  BY DEF ManagerInv, DidFinishDownloading, SetTransfer
<1>2. Known(m)
  BY <1>1 DEF Good
<1>3. u \in Urls
  BY <1>2, NetFields
<1>4. /\ Delivered' = IF m.mapper[u] # None THEN Delivered \cup {u} ELSE Delivered
      /\ files' \subseteq Urls /\ unstored' \subseteq Urls
  BY <1>1, <1>3 DEF DidFinishDownloading, FetchTask, StoreFile, Delivered
<1>5. Good(m', Delivered')
  <2>1. Good(SetTransfer(m, t, "finished"), Delivered')
    BY <1>1, <1>4, DeliveredGood
  <2> QED
    BY <1>1, <2>1
<1>6. m'.status = m.status
  BY <1>1, <1>2, NetFields
<1>7. ManagerInv'
  BY <1>1, <1>4, <1>5 DEF ManagerInv
<1> QED
  BY <1>6, <1>7 DEF StepGood

LEMMA CompleteStep ==
  ASSUME NEW t \in DOMAIN m.net
  PROVE  ManagerInv /\ DidComplete(t) => StepGood
<1> SUFFICES ASSUME ManagerInv, DidComplete(t) PROVE StepGood
  OBVIOUS
<1>1. /\ Good(m, Delivered) /\ files \subseteq Urls /\ unstored \subseteq Urls /\ requests \in 0 .. MaxRequests
      /\ files' = files /\ unstored' = unstored /\ Delivered' = Delivered /\ requests' = requests
  BY DEF ManagerInv, DidComplete, Delivered
<1>2. PICK outcome \in Outcomes(m.net[t].state) : m' = CompleteTransfer(m, t, outcome)
  BY DEF DidComplete, CompleteTransfer, SetTransfer
<1>3. Good(m', Delivered) /\ (Whole(m) => Ends(m, m', Delivered))
  <2>1. /\ Good(CompleteTransfer(m, t, outcome), Delivered)
        /\ Whole(m) => Ends(m, CompleteTransfer(m, t, outcome), Delivered)
    BY <1>1, CompleteGood
  <2> QED
    BY <1>2, <2>1
<1>4. ManagerInv'
  BY <1>1, <1>3 DEF ManagerInv
<1>5. Whole(m) => DoneHasFile(m, Delivered)
  BY <1>1 DEF Good, Owned
<1> QED
  BY <1>1, <1>3, <1>4, <1>5 DEF StepGood, Ends, TasksHaveFiles

LEMMA NextStep == ManagerInv /\ [Next]_vars => StepGood
<1> SUFFICES ASSUME ManagerInv, [Next]_vars PROVE StepGood
  OBVIOUS
<1>1. CASE Request
  BY <1>1, RequestStep
<1>2. CASE RunBlock
  BY <1>2, BlockStep
<1>3. ASSUME NEW t \in DOMAIN m.net, DidFinishDownloading(t) \/ DidComplete(t) PROVE StepGood
  BY <1>3, DeliveredStep, CompleteStep
<1>4. CASE UNCHANGED vars
  <2>1. m' = m /\ files' = files /\ unstored' = unstored /\ Delivered' = Delivered /\ requests' = requests
    BY <1>4 DEF vars, Delivered
  <2> QED
    BY <2>1 DEF StepGood, ManagerInv
<1> QED
  BY <1>1, <1>2, <1>3, <1>4 DEF Next, Network

LEMMA InitGood == Init => ManagerInv
<1> SUFFICES ASSUME Init PROVE ManagerInv
  OBVIOUS
<1>1. /\ m.status = "waiting" /\ m.tasks = <<>> /\ m.mapper = [u \in Urls |-> None]
      /\ m.running = {} /\ m.succeeded = <<>> /\ m.obj = <<>> /\ m.net = <<>> /\ m.queue = <<>>
      /\ m.due = FALSE /\ m.handler = <<>> /\ m.main = <<>> /\ m.apart = FALSE
      /\ files = {} /\ unstored = {} /\ requests = 0
  BY DEF Init
<1>2. m \in Managers
  <2>1. /\ <<>> \in Seq(Nat) /\ <<>> \in Seq(Objects) /\ <<>> \in Seq(Nets) /\ <<>> \in Seq(AllJobs)
        /\ "waiting" \in Status /\ [u \in Urls |-> None] \in [Urls -> Nat]
    BY DEF Status, None
  <2> QED
    BY <2>1 DEF Init, Managers
<1>3. DOMAIN m.obj = {} /\ DOMAIN m.net = {} /\ DOMAIN m.queue = {} /\ \A S : <<>> \in Seq(S)
  BY <1>1
<1>4. \A u \in Urls : m.mapper[u] = None
  BY <1>1
<1>5. Known(m)
  BY <1>1, <1>2, <1>3, <1>4 DEF Known
<1>6. Cardinality(m.running) <= Limit
  BY <1>1, FS_EmptySet, LimitAssumption
<1>7. Owned(m, Delivered)
  BY <1>3 DEF Owned, Live, FinishedHasFile, DoneHasFile
<1>8. requests \in 0 .. MaxRequests
  BY <1>1, RequestsAssumption
<1> QED
  BY <1>1, <1>5, <1>6, <1>7, <1>8 DEF ManagerInv, Good
-----------------------------------------------------------------------------
(***************************************************************************)
(* Waiting tasks                                                           *)
(*                                                                         *)
(* A task that waits beside a free slot is one that a block is about to     *)
(* start, or a block for the next task is in the queue.  What a state says  *)
(* of this is Rest below, with the tasks P that the block that runs has     *)
(* still to start, the tasks L that it has to end, and with slots that it   *)
(* has freed or blocks that it took from the queue: e and f of them.        *)
(***************************************************************************)

\* A task that has been stopped for good or has succeeded, never to wait again
Past == Gone \cup {"succeeded"}

\* A task that waits and can be looked up
Waits(s, o) == s.obj[o].status = "waiting" /\ Listed(s, o)

\* A block that starts the task
Starts(job, o) ==
  \/ job.op = "startTask" /\ job.task = o
  \/ job.op = "startTasks" /\ \E i \in DOMAIN job.tasks : job.tasks[i] = o

Asked(s, o, P) == o \in P \/ \E i \in DOMAIN s.queue : Starts(s.queue[i], o)

\* The blocks after the p-th that start a task which waits
NextAfter(q, p) == {i \in DOMAIN q : p < i /\ q[i].op = "next"}

\* With the blocks after the p-th, every slot is taken or will be offered.
Enough(s, p, e) == Limit <= Cardinality(s.running) + Cardinality(NextAfter(s.queue, p)) + e

\* A task before b that would not need a slot is started before the slots are offered.
Before(s, fs, P, f, b) ==
  \A a \in DOMAIN s.obj : Waits(s, a) /\ s.obj[a].url \in fs /\ a < b =>
    a \in P \/ \E p \in DOMAIN s.queue : Starts(s.queue[p], a) /\ Enough(s, p, f)

\* A task that waits for a slot, and that no block starts, is served in time.
ServedTask(s, fs, e, P, f, b) ==
  /\ s.obj[b].url \notin fs /\ s.status \notin Stopping
  /\ Enough(s, 0, e) /\ Before(s, fs, P, f, b)

Served(s, fs, P, e, f) ==
  \A b \in DOMAIN s.obj : Waits(s, b) /\ ~Asked(s, b, P) => ServedTask(s, fs, e, P, f, b)

\* A task of a manager that has succeeded
SettledTask(s, P, L, o) ==
  \/ s.obj[o].status = "succeeded"
  \/ Asked(s, o, P) /\ s.mapper[s.obj[o].url] # None
  \/ s.obj[o].status \in {"willCancel", "willRemove"} /\ HasLocal(s.queue, o)
  \/ s.obj[o].status \in Gone /\ o \in L

Settled(s, P, L) ==
  s.status = "succeeded" => \A i \in DOMAIN s.tasks : SettledTask(s, P, L, s.tasks[i])

\* The tasks that are recorded as succeeded do not wait.
RecordedPast(s) == \A i \in DOMAIN s.succeeded : s.obj[s.succeeded[i]].status \in Past

\* Tasks that may wait are in the order in which they were made.
InOrder(s) ==
  \A i, j \in DOMAIN s.tasks :
    i < j /\ s.obj[s.tasks[i]].status \notin Past /\ s.obj[s.tasks[j]].status \notin Past
      => s.tasks[i] <= s.tasks[j]

Rest(s, fs, P, L, e, f) ==
  /\ RecordedPast(s) /\ InOrder(s)
  /\ ~s.apart => TablesAgree(s)
  /\ ~s.apart /\ Whole(s) => Served(s, fs, P, e, f)
  /\ Settled(s, P, L)
-----------------------------------------------------------------------------
(***************************************************************************)
(* Blocks for the next task                                                *)
(***************************************************************************)

\* The queue r goes on from the queue q, with n blocks more for the next task.
Extends(q, r, n) ==
  /\ \A i \in DOMAIN q : i \in DOMAIN r /\ r[i] = q[i]
  /\ \A p \in DOMAIN q \cup {0} : Cardinality(NextAfter(q, p)) + n <= Cardinality(NextAfter(r, p))

LEMMA NextsFinite ==
  ASSUME NEW q \in Seq(AllJobs), NEW p
  PROVE  IsFiniteSet(NextAfter(q, p)) /\ Cardinality(NextAfter(q, p)) \in Nat
<1>1. DOMAIN q = 1..Len(q) /\ Len(q) \in Nat
  OBVIOUS
<1>2. IsFiniteSet(DOMAIN q)
  BY <1>1, FS_Interval
<1>3. NextAfter(q, p) \subseteq DOMAIN q
  BY DEF NextAfter
<1> QED
  BY <1>2, <1>3, FS_Subset, FS_CardinalityType

LEMMA ExtendsSelf ==
  ASSUME NEW q \in Seq(AllJobs)
  PROVE  Extends(q, q, 0)
<1>1. \A p : Cardinality(NextAfter(q, p)) + 0 <= Cardinality(NextAfter(q, p))
  <2> TAKE p
  <2>1. Cardinality(NextAfter(q, p)) \in Nat
    BY NextsFinite
  <2> QED
    BY <2>1
<1> QED
  BY <1>1 DEF Extends

LEMMA ExtendsPosted ==
  ASSUME NEW q \in Seq(AllJobs), NEW job \in AllJobs
  PROVE  /\ Extends(q, Append(q, job), 0)
         /\ job.op = "next" => Extends(q, Append(q, job), 1)
<1> DEFINE r == Append(q, job)
           k == Len(q) + 1
<1>1. /\ r \in Seq(AllJobs) /\ DOMAIN r = 1..k /\ DOMAIN q = 1..Len(q) /\ Len(q) \in Nat
      /\ r[k] = job /\ \A i \in DOMAIN q : r[i] = q[i]
  BY Posted
<1> HIDE DEF r
<1>2. \A i \in DOMAIN q : i \in DOMAIN r /\ r[i] = q[i]
  BY <1>1
<1>3. k \in DOMAIN r /\ \A p \in DOMAIN q \cup {0} : p < k
  BY <1>1
<1>4. k \notin DOMAIN q
  BY <1>1
<1> HIDE DEF k
<1>5. ASSUME NEW p \in DOMAIN q \cup {0}
      PROVE  /\ Cardinality(NextAfter(q, p)) + 0 <= Cardinality(NextAfter(r, p))
             /\ job.op = "next" => Cardinality(NextAfter(q, p)) + 1 <= Cardinality(NextAfter(r, p))
  <2> DEFINE A == NextAfter(q, p)
             B == NextAfter(r, p)
  <2>1. /\ IsFiniteSet(A) /\ Cardinality(A) \in Nat
        /\ IsFiniteSet(B) /\ Cardinality(B) \in Nat
    BY <1>1, NextsFinite
  <2>2. A \subseteq B /\ k \notin A
    BY <1>2, <1>4 DEF NextAfter
  <2>3. job.op = "next" => k \in B
    BY <1>1, <1>3 DEF NextAfter
  <2> HIDE DEF A, B
  <2>4. Cardinality(A) <= Cardinality(B)
    BY <2>1, <2>2, FS_Subset
  <2>5. ASSUME job.op = "next" PROVE Cardinality(A) + 1 <= Cardinality(B)
    <3>1. A \cup {k} \subseteq B
      BY <2>2, <2>3, <2>5
    <3>2. Cardinality(A \cup {k}) = Cardinality(A) + 1
      BY <2>1, <2>2, FS_AddElement
    <3>3. Cardinality(A \cup {k}) <= Cardinality(B)
      BY <2>1, <3>1, FS_Subset
    <3> QED
      BY <3>2, <3>3
  <2> QED
    BY <2>1, <2>4, <2>5 DEF A, B
<1> QED
  BY <1>2, <1>5 DEF Extends, r

\* The first block is taken: those that are left are counted from it.
LEMMA NextsTaken ==
  ASSUME NEW q \in Seq(AllJobs), q # <<>>
  PROVE  /\ \A p \in DOMAIN q :
              Cardinality(NextAfter(Tail(q), p - 1)) = Cardinality(NextAfter(q, p))
         /\ Cardinality(NextAfter(q, 0)) <= Cardinality(NextAfter(Tail(q), 0)) + 1
         /\ Head(q).op # "next" =>
              Cardinality(NextAfter(q, 0)) <= Cardinality(NextAfter(Tail(q), 0))
<1> DEFINE r == Tail(q)
<1>1. /\ r \in Seq(AllJobs) /\ DOMAIN r = 1..Len(q) - 1 /\ Len(q) \in Nat /\ Len(q) # 0
      /\ DOMAIN q = 1..Len(q) /\ Head(q) = q[1]
      /\ \A i \in DOMAIN r : i + 1 \in DOMAIN q /\ r[i] = q[i + 1]
  <2>1. /\ r \in Seq(AllJobs) /\ DOMAIN r = 1..Len(q) - 1 /\ Len(q) \in Nat /\ Len(q) # 0
        /\ DOMAIN q = 1..Len(q) /\ Head(q) = q[1]
    OBVIOUS
  <2> QED
    BY <2>1, TakenLocal
<1> HIDE DEF r
<1>2. ASSUME NEW p \in DOMAIN q
      PROVE  Cardinality(NextAfter(r, p - 1)) = Cardinality(NextAfter(q, p))
  <2> DEFINE A == NextAfter(r, p - 1)
             B == NextAfter(q, p)
             g == [i \in A |-> i + 1]
  <2>1. IsFiniteSet(A)
    BY <1>1, NextsFinite
  <2>2. A \subseteq DOMAIN r /\ B \subseteq DOMAIN q
    BY DEF NextAfter
  <2>3. \A i \in A : i + 1 \in B
    BY <1>1 DEF NextAfter
  <2>4. \A i \in B : i - 1 \in A
    <3> TAKE i \in B
    <3>1. i \in DOMAIN q /\ p < i /\ q[i].op = "next"
      BY DEF NextAfter
    <3>2. i - 1 \in DOMAIN r /\ p - 1 < i - 1 /\ (i - 1) + 1 = i
      BY <1>1, <3>1
    <3>3. r[i - 1] = q[i]
      BY <1>1, <3>2
    <3> QED
      BY <3>1, <3>2, <3>3 DEF NextAfter
  <2>5. \A i, j \in A : i + 1 = j + 1 => i = j
    BY <1>1, <2>2
  <2> HIDE DEF A, B
  <2>6. g \in Bijection(A, B)
    <3>1. g \in [A -> B]
      BY <2>3
    <3>2. \A i, j \in A : g[i] = g[j] => i = j
      BY <2>5
    <3>3. \A y \in B : \E i \in A : g[i] = y
      <4> TAKE y \in B
      <4>1. y - 1 \in A /\ y \in Int
        BY <1>1, <2>2, <2>4
      <4>2. g[y - 1] = y
        BY <4>1
      <4> QED
        BY <4>1, <4>2
    <3> HIDE DEF g
    <3> QED
      BY <3>1, <3>2, <3>3, Fun_IsBij
  <2>7. ExistsBijection(A, B)
    BY <2>6 DEF ExistsBijection
  <2> QED
    BY <2>1, <2>7, FS_Bijection DEF A, B
<1>3. 1 \in DOMAIN q /\ 1 - 1 = 0
  BY <1>1
<1>4. Cardinality(NextAfter(r, 0)) = Cardinality(NextAfter(q, 1))
  BY <1>2, <1>3
<1>5. /\ IsFiniteSet(NextAfter(q, 0)) /\ Cardinality(NextAfter(q, 0)) \in Nat
      /\ IsFiniteSet(NextAfter(q, 1)) /\ Cardinality(NextAfter(q, 1)) \in Nat
  BY NextsFinite
<1>6. Cardinality(NextAfter(q, 0)) <= Cardinality(NextAfter(q, 1)) + 1
  <2>1. NextAfter(q, 0) \subseteq NextAfter(q, 1) \cup {1} /\ 1 \notin NextAfter(q, 1)
    BY <1>1 DEF NextAfter
  <2>2. /\ IsFiniteSet(NextAfter(q, 1) \cup {1})
        /\ Cardinality(NextAfter(q, 1) \cup {1}) = Cardinality(NextAfter(q, 1)) + 1
    BY <1>5, <2>1, FS_AddElement
  <2>3. Cardinality(NextAfter(q, 0)) <= Cardinality(NextAfter(q, 1) \cup {1})
    BY <2>1, <2>2, FS_Subset
  <2> QED
    BY <2>2, <2>3
<1>7. ASSUME Head(q).op # "next"
      PROVE  Cardinality(NextAfter(q, 0)) <= Cardinality(NextAfter(q, 1))
  <2>1. NextAfter(q, 0) \subseteq NextAfter(q, 1)
    BY <1>1, <1>7 DEF NextAfter
  <2> QED
    BY <1>5, <2>1, FS_Subset
<1> QED
  BY <1>2, <1>4, <1>6, <1>7 DEF r

\* The blocks after a later one are fewer.
LEMMA NextsFewer ==
  ASSUME NEW q \in Seq(AllJobs), NEW p \in DOMAIN q
  PROVE  Cardinality(NextAfter(q, p)) <= Cardinality(NextAfter(q, 0))
<1>1. DOMAIN q = 1..Len(q) /\ Len(q) \in Nat
  OBVIOUS
<1>2. NextAfter(q, p) \subseteq NextAfter(q, 0)
  BY <1>1 DEF NextAfter
<1>3. IsFiniteSet(NextAfter(q, 0))
  BY NextsFinite
<1> QED
  BY <1>2, <1>3, FS_Subset
-----------------------------------------------------------------------------
(***************************************************************************)
(* Waiting tasks through a change                                          *)
(***************************************************************************)

\* The slots and the blocks for the next task are counted.
LEMMA EnoughNumbers ==
  ASSUME NEW s, Known(s), NEW p
  PROVE  /\ Cardinality(s.running) \in Nat /\ Cardinality(NextAfter(s.queue, p)) \in Nat
         /\ s.queue \in Seq(AllJobs) /\ Limit \in Nat /\ Limit # 0
<1>1. s.queue \in Seq(AllJobs)
  BY FieldTypes DEF Known
<1> QED
  BY <1>1, FiniteSlots, NextsFinite, LimitAssumption

\* At most k slots are freed, and n blocks for the next task are posted.
LEMMA EnoughStays ==
  ASSUME NEW s, Known(s), NEW r, Known(r), NEW p \in DOMAIN s.queue \cup {0},
         NEW e \in Nat, NEW d \in Nat, NEW n \in Nat, NEW k \in Nat, e + k <= d + n,
         Cardinality(s.running) <= Cardinality(r.running) + k, Extends(s.queue, r.queue, n)
  PROVE  Enough(s, p, e) => Enough(r, p, d)
<1>1. /\ Cardinality(s.running) \in Nat /\ Cardinality(NextAfter(s.queue, p)) \in Nat
      /\ Cardinality(r.running) \in Nat /\ Cardinality(NextAfter(r.queue, p)) \in Nat
      /\ Limit \in Nat
  BY EnoughNumbers
<1>2. Cardinality(NextAfter(s.queue, p)) + n <= Cardinality(NextAfter(r.queue, p))
  BY DEF Extends
<1> QED
  BY <1>1, <1>2 DEF Enough

\* Every slot is taken.
LEMMA EnoughFull ==
  ASSUME NEW s, Known(s), NEW p, NEW e \in Nat, Limit <= Cardinality(s.running)
  PROVE  Enough(s, p, e)
<1>1. /\ Cardinality(s.running) \in Nat /\ Cardinality(NextAfter(s.queue, p)) \in Nat
      /\ Limit \in Nat
  BY EnoughNumbers
<1> QED
  BY <1>1 DEF Enough

\* A task that waits afterwards has waited, or is one of Q, or did not get a slot.
StillWaits(s, r, fs, P, Q) ==
  \A o \in DOMAIN r.obj : Waits(r, o) =>
    \/ o \in DOMAIN s.obj /\ Waits(s, o) /\ (o \in P => o \in Q)
    \/ o \in Q
    \/ r.obj[o].url \notin fs /\ r.status \notin Stopping /\ Limit <= Cardinality(r.running)

\* Tasks are served through a change that frees k slots and takes no block.
LEMMA ServedStays ==
  ASSUME NEW s, Known(s), NEW r, Known(r), NEW fs, NEW P, NEW Q, NEW n \in Nat, NEW k \in Nat,
         NEW e \in Nat, NEW d \in Nat, e + k <= d + n,
         NEW f \in Nat, NEW g \in Nat, f + k <= g + n,
         Cardinality(s.running) <= Cardinality(r.running) + k, Extends(s.queue, r.queue, n),
         r.status \in Stopping => s.status \in Stopping,
         \A o \in DOMAIN s.obj : o \in DOMAIN r.obj /\ r.obj[o].url = s.obj[o].url,
         StillWaits(s, r, fs, P, Q),
         Served(s, fs, P, e, f)
  PROVE  Served(r, fs, Q, d, g)
<1> DEFINE Waited(o) == o \in DOMAIN s.obj /\ Waits(s, o) /\ (o \in P => o \in Q)
           Full(o) == r.obj[o].url \notin fs /\ r.status \notin Stopping /\ Limit <= Cardinality(r.running)
<1>1. \A o \in DOMAIN r.obj : Waits(r, o) => Waited(o) \/ o \in Q \/ Full(o)
  BY DEF StillWaits
<1>2. \A i \in DOMAIN s.queue : i \in DOMAIN r.queue /\ r.queue[i] = s.queue[i]
  BY DEF Extends
<1>3. \A p \in DOMAIN s.queue \cup {0} : Enough(s, p, f) => Enough(r, p, g)
  BY EnoughStays
<1>4. Enough(s, 0, e) => Enough(r, 0, d)
  BY EnoughStays
<1>5. \A p : Limit <= Cardinality(r.running) => Enough(r, p, g) /\ Enough(r, p, d)
  BY EnoughFull
<1>6. \A o \in DOMAIN s.obj : r.obj[o].url = s.obj[o].url
  OBVIOUS
<1> SUFFICES ASSUME NEW b \in DOMAIN r.obj, Waits(r, b), ~Asked(r, b, Q)
             PROVE  ServedTask(r, fs, d, Q, g, b)
  BY DEF Served
<1>7. b \notin Q /\ \A i \in DOMAIN r.queue : ~Starts(r.queue[i], b)
  BY DEF Asked
<1>8. CASE Waited(b)
  <2>1. ~Asked(s, b, P)
    BY <1>2, <1>7, <1>8 DEF Asked
  <2>2. ServedTask(s, fs, e, P, f, b)
    BY <1>8, <2>1 DEF Served
  <2>3. r.obj[b].url \notin fs /\ r.status \notin Stopping /\ Enough(r, 0, d)
    BY <1>4, <1>6, <1>8, <2>2 DEF ServedTask
  <2>4. ASSUME NEW a \in DOMAIN r.obj, Waits(r, a), r.obj[a].url \in fs, a < b
        PROVE  a \in Q \/ \E p \in DOMAIN r.queue : Starts(r.queue[p], a) /\ Enough(r, p, g)
    <3>1. CASE Waited(a)
      <4>1. a \in P \/ \E p \in DOMAIN s.queue : Starts(s.queue[p], a) /\ Enough(s, p, f)
        BY <1>6, <2>2, <2>4, <3>1 DEF ServedTask, Before
      <4> QED
        BY <1>2, <1>3, <3>1, <4>1
    <3> QED
      BY <1>1, <2>4, <3>1
  <2>5. Before(r, fs, Q, g, b)
    BY <2>4 DEF Before
  <2> QED
    BY <2>3, <2>5 DEF ServedTask
<1>9. CASE Full(b)
  <2>1. ASSUME NEW a \in DOMAIN r.obj, Waits(r, a), r.obj[a].url \in fs, a < b
        PROVE  a \in Q \/ \E p \in DOMAIN r.queue : Starts(r.queue[p], a) /\ Enough(r, p, g)
    <3>1. CASE Waited(a)
      <4>1. Asked(s, a, P)
        BY <1>6, <2>1, <3>1 DEF Served, ServedTask
      <4>2. a \in P \/ \E p \in DOMAIN s.queue : Starts(s.queue[p], a)
        BY <4>1 DEF Asked
      <4> QED
        BY <1>2, <1>5, <1>9, <3>1, <4>2
    <3> QED
      BY <1>1, <2>1, <3>1
  <2>2. Before(r, fs, Q, g, b)
    BY <2>1 DEF Before
  <2> QED
    BY <1>5, <1>9, <2>2 DEF ServedTask
<1> QED
  BY <1>1, <1>7, <1>8, <1>9

\* Every task that waits is still to be handled, or there is none.
LEMMA ServedAll ==
  ASSUME NEW s, NEW fs, NEW P, NEW e, NEW f, \A b \in DOMAIN s.obj : Waits(s, b) => b \in P
  PROVE  Served(s, fs, P, e, f)
BY DEF Served, Asked

\* With tables that agree, a task that waits is in the list.
LEMMA WaitsInList ==
  ASSUME NEW s, Known(s), TablesAgree(s), NEW b \in DOMAIN s.obj, Waits(s, b)
  PROVE  \E i \in DOMAIN s.tasks : s.tasks[i] = b
<1>1. s \in Managers /\ s.obj[b].url \in Urls /\ b # None
  BY ObjectTypes DEF Known
<1>2. s.mapper[s.obj[b].url] = b /\ s.obj[b].url \in Mapped(s)
  BY <1>1 DEF Waits, Listed, Mapped
<1> QED
  BY <1>2 DEF TablesAgree
\* A task that is stopped for good stays so, and one that has succeeded never waits.
Moves(s, r, o) ==
  /\ s.obj[o].status \in Gone => r.obj[o].status \in Gone
  /\ s.obj[o].status \in Past => r.obj[o].status \in Past

\* The task o waits afterwards only if it did, or is one of Q, or did not get a slot.
MayWait(s, r, fs, P, Q, o) ==
  Waits(r, o) =>
    \/ Waits(s, o) /\ (o \in P => o \in Q)
    \/ o \in Q
    \/ r.obj[o].url \notin fs /\ r.status \notin Stopping /\ Limit <= Cardinality(r.running)

\* A change of one task adds at most a block.
LEMMA ChangesExtends ==
  ASSUME NEW s, Known(s), NEW o \in DOMAIN s.obj, NEW r, Changes(s, r, o)
  PROVE  /\ Extends(s.queue, r.queue, 0)
         /\ \A i \in DOMAIN s.queue : i \in DOMAIN r.queue /\ r.queue[i] = s.queue[i]
         /\ Whole(r) => Whole(s)
<1>1. s.queue \in Seq(AllJobs) /\ o \in Nat
  BY FieldTypes, ObjectTypes DEF Known
<1>2. Extends(s.queue, r.queue, 0)
  <2>1. Local(o) \in AllJobs
    BY <1>1, LocalJob
  <2>2. CASE r.queue = s.queue
    BY <1>1, <2>2, ExtendsSelf
  <2>3. CASE r.queue = Append(s.queue, Local(o))
    BY <1>1, <2>1, <2>3, ExtendsPosted
  <2> QED
    BY <2>2, <2>3 DEF Changes
<1>3. ASSUME Whole(r) PROVE Whole(s)
  <2> SUFFICES ASSUME NEW p \in DOMAIN s.obj, s.obj[p].transfer # None PROVE Listed(s, p)
    BY DEF Whole
  <2>1. r.obj[p].transfer # None /\ p \in DOMAIN r.obj
    BY DEF Changes
  <2>2. Listed(r, p)
    BY <1>3, <2>1 DEF Whole
  <2> QED
    BY <2>2 DEF Listed, Changes
<1> QED
  BY <1>2, <1>3 DEF Extends

\* The change of one task that is handled
LEMMA ChangedRest ==
  ASSUME NEW s, Known(s), NEW o \in DOMAIN s.obj, NEW r, Changes(s, r, o), r.status = s.status,
         NEW fs, NEW P, NEW Q, P \ {o} \subseteq Q, NEW L, NEW K, L \ {o} \subseteq K,
         NEW e \in Nat, NEW f \in Nat,
         Moves(s, r, o), Cardinality(s.running) <= Cardinality(r.running),
         ~s.apart /\ Whole(r) => MayWait(s, r, fs, P, Q, o),
         s.status = "succeeded" /\ SettledTask(s, P, L, o) => SettledTask(r, Q, K, o),
         Rest(s, fs, P, L, e, f)
  PROVE  Rest(r, fs, Q, K, e, f)
<1>1. /\ Known(r) /\ Extends(s.queue, r.queue, 0)
      /\ \A i \in DOMAIN s.queue : i \in DOMAIN r.queue /\ r.queue[i] = s.queue[i]
      /\ Whole(r) => Whole(s)
  <2>1. Known(r)
    BY ChangedKnown
  <2> QED
    BY <2>1, ChangesExtends
<1>2. /\ r.mapper = s.mapper /\ r.tasks = s.tasks /\ r.succeeded = s.succeeded
      /\ r.apart = s.apart /\ DOMAIN r.obj = DOMAIN s.obj
      /\ \A p \in DOMAIN s.obj : r.obj[p].url = s.obj[p].url /\ (p # o => r.obj[p] = s.obj[p])
  BY DEF Changes
<1>3. s.tasks \in Seq(DOMAIN s.obj) /\ s.succeeded \in Seq(DOMAIN s.obj)
  BY DEF Known
<1>4. /\ \A i \in DOMAIN s.tasks : s.tasks[i] \in DOMAIN s.obj
      /\ \A i \in DOMAIN s.succeeded : s.succeeded[i] \in DOMAIN s.obj
  BY <1>3
<1>5. /\ \A p \in DOMAIN s.obj : s.obj[p].status \in Gone => r.obj[p].status \in Gone
      /\ \A p \in DOMAIN s.obj : s.obj[p].status \in Past => r.obj[p].status \in Past
  BY <1>2 DEF Moves
<1>6. RecordedPast(r)
  BY <1>2, <1>4, <1>5 DEF Rest, RecordedPast
<1>7. InOrder(r)
  BY <1>2, <1>4, <1>5 DEF Rest, InOrder
<1>8. ASSUME ~r.apart PROVE TablesAgree(r)
  <2>1. TablesAgree(s)
    BY <1>2, <1>8 DEF Rest
  <2>2. Mapped(r) = Mapped(s)
    BY <1>2 DEF Mapped
  <2>3. \A u \in Mapped(r) : \E i \in DOMAIN r.tasks : r.tasks[i] = r.mapper[u]
    BY <1>2, <2>1, <2>2 DEF TablesAgree
  <2>4. ASSUME NEW i \in DOMAIN r.tasks
        PROVE  \/ r.mapper[r.obj[r.tasks[i]].url] = r.tasks[i]
               \/ r.obj[r.tasks[i]].status \in Gone
    <3>1. \/ s.mapper[s.obj[s.tasks[i]].url] = s.tasks[i]
          \/ s.obj[s.tasks[i]].status \in Gone
      BY <1>2, <2>1 DEF TablesAgree
    <3>2. s.tasks[i] \in DOMAIN s.obj
      BY <1>2, <1>4
    <3> QED
      BY <1>2, <1>5, <3>1, <3>2
  <2> QED
    BY <2>3, <2>4 DEF TablesAgree
<1>9. ASSUME ~r.apart, Whole(r) PROVE Served(r, fs, Q, e, f)
  <2>1. Served(s, fs, P, e, f)
    BY <1>1, <1>2, <1>9 DEF Rest
  <2>2. MayWait(s, r, fs, P, Q, o)
    BY <1>2, <1>9
  <2>3. StillWaits(s, r, fs, P, Q)
    <3> SUFFICES ASSUME NEW p \in DOMAIN r.obj, Waits(r, p)
                 PROVE  \/ p \in DOMAIN s.obj /\ Waits(s, p) /\ (p \in P => p \in Q)
                        \/ p \in Q
                        \/ /\ r.obj[p].url \notin fs /\ r.status \notin Stopping
                           /\ Limit <= Cardinality(r.running)
      BY DEF StillWaits
    <3>1. CASE p = o
      BY <2>2, <3>1 DEF MayWait
    <3>2. CASE p # o
      BY <1>2, <3>2 DEF Waits, Listed
    <3> QED
      BY <3>1, <3>2
  <2>4. /\ 0 \in Nat /\ e + 0 <= e + 0 /\ f + 0 <= f + 0
        /\ r.status \in Stopping => s.status \in Stopping
        /\ \A p \in DOMAIN s.obj : p \in DOMAIN r.obj /\ r.obj[p].url = s.obj[p].url
    BY <1>2
  <2>5. Cardinality(s.running) <= Cardinality(r.running) + 0
    <3>1. Cardinality(r.running) \in Nat
      BY <1>1, FiniteSlots
    <3> QED
      BY <3>1
  <2> QED
    BY <1>1, <2>1, <2>3, <2>4, <2>5, ServedStays
<1>10. Settled(r, Q, K)
  <2> SUFFICES ASSUME r.status = "succeeded", NEW i \in DOMAIN r.tasks
               PROVE  SettledTask(r, Q, K, r.tasks[i])
    BY DEF Settled
  <2> DEFINE p == r.tasks[i]
  <2>1. SettledTask(s, P, L, p) /\ p \in DOMAIN s.obj
    BY <1>2, <1>4 DEF Rest, Settled
  <2> HIDE DEF p
  <2>2. CASE p = o
    BY <2>1, <2>2 DEF p
  <2>3. CASE p # o
    <3>1. r.obj[p] = s.obj[p] /\ (p \in P => p \in Q) /\ (p \in L => p \in K)
      BY <1>2, <2>1, <2>3
    <3>2. Asked(s, p, P) => Asked(r, p, Q)
      BY <1>1, <3>1 DEF Asked
    <3>3. HasLocal(s.queue, p) => HasLocal(r.queue, p)
      BY <1>1 DEF HasLocal
    <3> QED
      BY <1>2, <2>1, <3>1, <3>2, <3>3 DEF SettledTask, p
  <2> QED
    BY <2>2, <2>3
<1> QED
  BY <1>6, <1>7, <1>8, <1>9, <1>10 DEF Rest

\* What follows from the manager having succeeded
SettledNow(s, r) ==
  r.status = "succeeded" => s.status = "succeeded" \/ AllIn(r, {"succeeded"})

\* A change of the status of the manager, or of its queue
LEMMA QuietRest ==
  ASSUME NEW s, Known(s), NEW r, Quiet(s, r), Known(r), NEW fs, NEW P, NEW L, NEW n \in Nat,
         Extends(s.queue, r.queue, n),
         NEW e \in Nat, NEW d \in Nat, e <= d + n, NEW f \in Nat, NEW g \in Nat, f <= g + n,
         r.status \in Stopping => s.status \in Stopping,
         SettledNow(s, r),
         Rest(s, fs, P, L, e, f)
  PROVE  Rest(r, fs, P, L, d, g)
<1>1. /\ r.obj = s.obj /\ r.net = s.net /\ r.mapper = s.mapper /\ r.running = s.running
      /\ r.tasks = s.tasks /\ r.succeeded = s.succeeded /\ r.apart = s.apart
  BY DEF Quiet, Alike
<1>2. RecordedPast(r) /\ InOrder(r)
  BY <1>1 DEF Rest, RecordedPast, InOrder
<1>3. ~r.apart => TablesAgree(r)
  BY <1>1 DEF Rest, TablesAgree, Mapped
<1>4. ASSUME ~r.apart, Whole(r) PROVE Served(r, fs, P, d, g)
  <2>1. Served(s, fs, P, e, f)
    BY <1>1, <1>4 DEF Rest, Whole, Listed
  <2>2. StillWaits(s, r, fs, P, P)
    BY <1>1 DEF StillWaits, Waits, Listed
  <2>3. /\ Cardinality(s.running) <= Cardinality(r.running) + 0
        /\ e + 0 <= d + n /\ f + 0 <= g + n /\ 0 \in Nat
    <3>1. Cardinality(s.running) \in Nat
      BY FiniteSlots
    <3> QED
      BY <1>1, <3>1
  <2>4. \A p \in DOMAIN s.obj : p \in DOMAIN r.obj /\ r.obj[p].url = s.obj[p].url
    BY <1>1
  <2> QED
    BY <2>1, <2>2, <2>3, <2>4, ServedStays
<1>5. Settled(r, P, L)
  <2> SUFFICES ASSUME r.status = "succeeded", NEW i \in DOMAIN r.tasks
               PROVE  SettledTask(r, P, L, r.tasks[i])
    BY DEF Settled
  <2> DEFINE p == r.tasks[i]
  <2>1. CASE AllIn(r, {"succeeded"})
    BY <2>1 DEF AllIn, SettledTask
  <2>2. CASE s.status = "succeeded"
    <3>1. SettledTask(s, P, L, p)
      BY <1>1, <2>2 DEF Rest, Settled
    <3>2. \A j \in DOMAIN s.queue : j \in DOMAIN r.queue /\ r.queue[j] = s.queue[j]
      BY DEF Extends
    <3> HIDE DEF p
    <3>3. Asked(s, p, P) => Asked(r, p, P)
      BY <3>2 DEF Asked
    <3>4. HasLocal(s.queue, p) => HasLocal(r.queue, p)
      BY <3>2 DEF HasLocal
    <3> QED
      BY <1>1, <3>1, <3>3, <3>4 DEF SettledTask, p
  <2> QED
    BY <2>1, <2>2 DEF SettledNow
<1> QED
  BY <1>2, <1>3, <1>4, <1>5 DEF Rest
LEMMA QuietExtends ==
  ASSUME NEW s, Known(s), NEW r, Quiet(s, r)
  PROVE  Extends(s.queue, r.queue, 0)
<1>1. s.queue \in Seq(AllJobs)
  BY FieldTypes DEF Known
<1> QED
  BY <1>1, ExtendsSelf, ExtendsPosted DEF Quiet, Alike

\* When every task that waits is still to be started, no slot has to be offered.
LEMMA RestAsked ==
  ASSUME NEW s, NEW fs, NEW P, NEW L, NEW e, NEW f, NEW d, NEW g, Rest(s, fs, P, L, e, f),
         ~s.apart /\ Whole(s) => \A b \in DOMAIN s.obj : Waits(s, b) => Asked(s, b, P)
  PROVE  Rest(s, fs, P, L, d, g)
BY DEF Rest, Served

\* The manager finds its status: it posts a block for the next task when a slot was freed,
\* unless no task waits for it, or those that wait are started by a block.
LEMMA DetermineRest ==
  ASSUME NEW s, NEW c, Good(s, c), NEW fromRunning \in BOOLEAN, NEW fs, NEW P, NEW L,
         NEW e \in {0, 1}, e = 1 => fromRunning, Rest(s, fs, P, L, e, e)
  PROVE  Rest(DetermineStatus(s, fromRunning), fs, P, L, 0, 0)
<1> DEFINE r == DetermineStatus(s, fromRunning)
<1>1. Known(s) /\ s.queue \in Seq(AllJobs)
  BY FieldTypes DEF Good, Known
<1>2. Quiet(s, r) /\ (r.status = "succeeded" => s.status = "succeeded" \/ AllIn(r, {"succeeded"}))
  BY <1>1, DetermineQuiet
<1>3. Known(r)
  BY DetermineGood DEF Good
<1>4. r.status \in Stopping => s.status \in Stopping
  <2>1. r.status \in {s.status, "removed", "canceled", "succeeded", "failed", "suspended"}
    <3>1. \A st \in Status : End(s, st).status = st
      BY <1>1, EndQuiet
    <3>2. StoreTasks(s).status = s.status
      BY <1>1, QuietSelf, StoreQuiet
    <3>3. Async(StoreTasks(s), [op |-> "next"]).status = s.status
      <4>1. [op |-> "next"] \in AllJobs /\ [op |-> "next"].op = "next"
        BY DEF AllJobs
      <4>2. StoreTasks(s) \in Managers
        BY <1>1, QuietSelf, StoreQuiet DEF Quiet, Alike
      <4> QED
        BY <3>2, <4>2 DEF Async, Managers
    <3> QED
      BY <3>1, <3>2, <3>3 DEF DetermineStatus, Status
  <2> QED
    BY <2>1 DEF Stopping
<1>5. e \in Nat /\ e <= e + 0 /\ 0 \in Nat /\ 1 \in Nat /\ e <= 0 + 1
  OBVIOUS
<1>6. SettledNow(s, r)
  BY <1>2 DEF SettledNow
<1>7. Rest(r, fs, P, L, e, e)
  <2>1. Extends(s.queue, r.queue, 0)
    BY <1>1, <1>2, QuietExtends
  <2> HIDE DEF r
  <2> QED
    BY <1>1, <1>2, <1>3, <1>4, <1>5, <1>6, <2>1, QuietRest
<1>8. CASE e = 0
  BY <1>7, <1>8
<1>9. CASE \/ s.status \in Stopping
           \/ AllIn(s, {"succeeded", "failed"}) \/ AllIn(s, {"suspended", "succeeded", "failed"})
  <2>1. ASSUME ~r.apart, Whole(r), NEW b \in DOMAIN r.obj, Waits(r, b) PROVE Asked(r, b, P)
    <3>1. /\ r.obj = s.obj /\ r.mapper = s.mapper /\ r.tasks = s.tasks /\ r.apart = s.apart
          /\ b \in DOMAIN s.obj /\ Waits(s, b) /\ Whole(s)
      BY <1>2, <2>1 DEF Quiet, Alike, Waits, Listed, Whole
    <3>2. TablesAgree(s) /\ Served(s, fs, P, e, e)
      BY <2>1, <3>1 DEF Rest
    <3>3. PICK i \in DOMAIN s.tasks : s.tasks[i] = b
      BY <1>1, <3>1, <3>2, WaitsInList
    <3>4. s.status \in Stopping
      BY <1>9, <3>1, <3>3 DEF AllIn, Waits
    <3>5. Asked(s, b, P)
      BY <3>1, <3>2, <3>4 DEF Served, ServedTask
    <3>6. \A k \in DOMAIN s.queue : k \in DOMAIN r.queue /\ r.queue[k] = s.queue[k]
      BY <1>1, <1>2, QuietExtends DEF Extends
    <3> QED
      BY <3>5, <3>6 DEF Asked
  <2> HIDE DEF r
  <2>2. ~r.apart /\ Whole(r) => \A b \in DOMAIN r.obj : Waits(r, b) => Asked(r, b, P)
    BY <2>1
  <2>3. Rest(r, fs, P, L, 0, 0)
    BY <1>7, <2>2, RestAsked
  <2> QED
    BY <2>3 DEF r
<1>10. CASE /\ e = 1 /\ s.status \notin Stopping
            /\ ~AllIn(s, {"succeeded", "failed"}) /\ ~AllIn(s, {"suspended", "succeeded", "failed"})
  <2> DEFINE job == [op |-> "next"]
             w == StoreTasks(s)
  <2>1. r = Async(w, job)
    <3>1. s.status \notin {"willRemove", "willCancel", "willSuspend"} /\ fromRunning
      BY <1>10 DEF Stopping
    <3> QED
      BY <1>10, <3>1 DEF DetermineStatus
  <2>2. job \in AllJobs /\ job.op = "next"
    BY DEF AllJobs
  <2>3. r.queue = Append(s.queue, job)
    <3>1. w \in Managers
      BY <1>1, QuietSelf, StoreQuiet DEF Quiet, Alike
    <3>2. w.queue = s.queue
      BY <1>1 DEF StoreTasks, Known, Managers
    <3> HIDE DEF w, job
    <3> QED
      BY <2>1, <3>1, <3>2 DEF Async, Managers
  <2> HIDE DEF job
  <2>4. Extends(s.queue, r.queue, 1)
    BY <1>1, <2>2, <2>3, ExtendsPosted
  <2> HIDE DEF r
  <2>5. Rest(r, fs, P, L, 0, 0)
    BY <1>1, <1>2, <1>3, <1>4, <1>5, <1>6, <2>4, QuietRest
  <2> QED
    BY <2>5 DEF r
<1> QED
  BY <1>8, <1>9, <1>10
-----------------------------------------------------------------------------
(***************************************************************************)
(* Waiting tasks and the functions of a task                               *)
(***************************************************************************)

\* A task gets another status.
LEMMA SetStatusRest ==
  ASSUME NEW s, Known(s), NEW o \in DOMAIN s.obj, NEW st \in Status,
         NEW fs, NEW P, NEW Q, P \ {o} \subseteq Q, NEW L, NEW K, L \ {o} \subseteq K,
         NEW e \in Nat, NEW f \in Nat,
         s.obj[o].status \in Gone => st \in Gone,
         s.obj[o].status \in Past => st \in Past,
         ~s.apart /\ Whole(s) => MayWait(s, SetStatus(s, o, st), fs, P, Q, o),
         s.status = "succeeded" /\ SettledTask(s, P, L, o) => SettledTask(SetStatus(s, o, st), Q, K, o),
         Rest(s, fs, P, L, e, f)
  PROVE  Rest(SetStatus(s, o, st), fs, Q, K, e, f)
<1> DEFINE r == SetStatus(s, o, st)
<1>1. s \in Managers
  BY DEF Known
<1>2. Changes(s, r, o)
  BY StatusChanges
<1>3. /\ r.status = s.status /\ r.running = s.running /\ r.obj[o].status = st
  BY <1>1, SetStatusFields
<1>4. Whole(r) => Whole(s)
  BY <1>2, ChangesExtends
<1> HIDE DEF r
<1>5. Moves(s, r, o)
  BY <1>3 DEF Moves
<1>6. Cardinality(s.running) <= Cardinality(r.running)
  <2>1. Cardinality(s.running) \in Nat
    BY FiniteSlots
  <2> QED
    BY <1>3, <2>1
<1>7. /\ ~s.apart /\ Whole(r) => MayWait(s, r, fs, P, Q, o)
      /\ s.status = "succeeded" /\ SettledTask(s, P, L, o) => SettledTask(r, Q, K, o)
  BY <1>4 DEF r
<1>8. Rest(r, fs, Q, K, e, f)
  BY <1>2, <1>3, <1>5, <1>6, <1>7, ChangedRest
<1> QED
  BY <1>8 DEF r

\* A task succeeds.
LEMMA SucceededRest ==
  ASSUME NEW s, NEW c, Good(s, c), NEW o \in DOMAIN s.obj, NEW fromRunning \in BOOLEAN,
         Whole(s) /\ Owned(s, c) => s.obj[o].transfer = None /\ s.obj[o].url \in c,
         s.obj[o].status \notin Gone,
         NEW fs, NEW P, NEW Q, P \ {o} \subseteq Q, NEW L, NEW K, L \ {o} \subseteq K,
         NEW e \in {0, 1}, e = 1 => fromRunning, Rest(s, fs, P, L, e, e)
  PROVE  Rest(Succeeded(s, o, fromRunning), fs, Q, K, 0, 0)
<1> DEFINE w == SetStatus(s, o, "succeeded")
           v == [w EXCEPT !.succeeded = Append(@, o)]
<1>1. Known(s) /\ s \in Managers /\ "succeeded" \in Status /\ e \in Nat
  BY DEF Good, Known, Status
<1>2. Good(w, c)
  <2>1. "succeeded" \notin {"waiting", "suspended", "failed", "running", "willSuspend"}
    OBVIOUS
  <2> QED
    BY <1>1, <2>1, SetStatusGood
<1>3. w.obj[o].status = "succeeded" /\ DOMAIN w.obj = DOMAIN s.obj
  BY <1>1, SetStatusFields
<1>4. Rest(w, fs, Q, K, e, e)
  <2>1. "succeeded" \in Past
    BY DEF Past
  <2> HIDE DEF w
  <2>2. MayWait(s, w, fs, P, Q, o) /\ SettledTask(w, Q, K, o)
    BY <1>3 DEF MayWait, Waits, SettledTask
  <2> QED
    BY <1>1, <2>1, <2>2, SetStatusRest DEF w
<1>5. Known(w) /\ o \in DOMAIN w.obj
  BY <1>2, <1>3 DEF Good
<1> HIDE DEF w
<1>6. /\ Alike(w, v)
      /\ v.tasks = w.tasks /\ v.status = w.status /\ v.apart = w.apart
      /\ v.queue = w.queue /\ v.succeeded = Append(w.succeeded, o)
  BY <1>5, RecordedFields
<1> HIDE DEF v
<1>7. Good(v, c)
  BY <1>2, <1>6, AlikeGood
<1>8. Rest(v, fs, Q, K, e, e)
  <2>1. v.obj = w.obj /\ v.mapper = w.mapper /\ v.running = w.running /\ v.net = w.net
    BY <1>6 DEF Alike
  <2>2. RecordedPast(v)
    <3>1. w.succeeded \in Seq(DOMAIN w.obj)
      BY <1>5 DEF Known
    <3>2. \A i \in DOMAIN v.succeeded :
             v.succeeded[i] = o \/ (i \in DOMAIN w.succeeded /\ v.succeeded[i] = w.succeeded[i])
      <4>1. /\ DOMAIN w.succeeded = 1..Len(w.succeeded) /\ Len(w.succeeded) \in Nat
            /\ DOMAIN v.succeeded = 1..Len(w.succeeded) + 1
            /\ v.succeeded[Len(w.succeeded) + 1] = o
            /\ \A i \in 1..Len(w.succeeded) : v.succeeded[i] = w.succeeded[i]
        BY <1>5, <1>6, <3>1
      <4> QED
        BY <4>1
    <3> QED
      BY <1>3, <1>4, <2>1, <3>2 DEF Rest, RecordedPast, Past
  <2>3. InOrder(v) /\ (~v.apart => TablesAgree(v))
    <3>1. InOrder(w) /\ (~w.apart => TablesAgree(w))
      BY <1>4 DEF Rest
    <3>2. v.obj = w.obj /\ v.mapper = w.mapper /\ v.tasks = w.tasks /\ v.apart = w.apart
      BY <1>6, <2>1
    <3>3. InOrder(v)
      BY <3>1, <3>2 DEF InOrder
    <3>4. ~v.apart => TablesAgree(v)
      BY <3>1, <3>2 DEF TablesAgree, Mapped
    <3> QED
      BY <3>3, <3>4
  <2>4. ~v.apart /\ Whole(v) => Served(v, fs, Q, e, e)
    BY <1>4, <1>6, <2>1
       DEF Rest, Whole, Listed, Served, Waits, Asked, ServedTask, Enough, Before
  <2>5. Settled(v, Q, K)
    BY <1>4, <1>6, <2>1 DEF Rest, Settled, SettledTask, Asked
  <2> QED
    BY <2>2, <2>3, <2>4, <2>5 DEF Rest
<1>9. Rest(DetermineStatus(v, fromRunning), fs, Q, K, 0, 0)
  BY <1>7, <1>8, DetermineRest
<1> QED
  BY <1>9 DEF Succeeded, v, w

\* A task that is to be started has its file, or gets a slot, or waits.
LEMMA StartableRest ==
  ASSUME NEW s, Good(s, Delivered), NEW o \in DOMAIN s.obj,
         s.obj[o].status \in {"waiting", "suspended", "failed"},
         NEW P, NEW Q, P \ {o} \subseteq Q, NEW L, NEW e \in Nat, NEW f \in Nat,
         s.status \in Stopping \cup {"succeeded"} => s.obj[o].status = "waiting" /\ o \notin P,
         Rest(s, files, P, L, e, f)
  PROVE  Rest(Download(s, o), files, Q, L, e, f)
<1>1. Known(s) /\ s \in Managers /\ {"running", "waiting"} \subseteq Status
  BY DEF Good, Known, Status
<1>2. Cardinality(s.running) \in Nat /\ IsFiniteSet(s.running) /\ Limit \in Nat
  BY <1>1, FiniteSlots, LimitAssumption
<1>3. s.obj[o].status \notin Past /\ s.obj[o].status \notin Gone /\ L \ {o} \subseteq L
  BY DEF Past, Gone
<1>4. ASSUME NEW r, Changes(s, r, o), r.status = s.status, s.status = "succeeded",
             SettledTask(s, P, L, o)
      PROVE  SettledTask(r, Q, L, o)
  <2>1. o \notin P /\ Asked(s, o, P) /\ s.mapper[s.obj[o].url] # None
    BY <1>3, <1>4 DEF SettledTask, Gone, Stopping
  <2>2. Asked(r, o, Q)
    <3>1. \A i \in DOMAIN s.queue : i \in DOMAIN r.queue /\ r.queue[i] = s.queue[i]
      BY <1>1, <1>4, ChangesExtends
    <3> QED
      BY <2>1, <3>1 DEF Asked
  <2>3. r.mapper[r.obj[o].url] # None
    BY <1>4, <2>1 DEF Changes
  <2> QED
    BY <2>2, <2>3 DEF SettledTask
<1>5. CASE s.obj[o].url \in files
  <2> DEFINE r == Async(SetStatus(s, o, "running"), Local(o))
  <2>1. /\ Changes(s, r, o) /\ r.status = s.status /\ r.obj[o].status = "running"
        /\ r.running = s.running
    BY <1>1, PostLocalFields
  <2>2. Download(s, o) = r
    BY <1>5 DEF Download
  <2> HIDE DEF r
  <2>3. /\ Moves(s, r, o) /\ MayWait(s, r, files, P, Q, o)
        /\ Cardinality(s.running) <= Cardinality(r.running)
    BY <1>2, <1>3, <2>1 DEF Moves, MayWait, Waits
  <2>4. s.status = "succeeded" /\ SettledTask(s, P, L, o) => SettledTask(r, Q, L, o)
    BY <1>4, <2>1
  <2> QED
    BY <1>1, <1>3, <2>1, <2>2, <2>3, <2>4, ChangedRest
<1>6. CASE s.obj[o].url \notin files /\ ShouldRun(s)
  <2> DEFINE r == StartTransfer(s, o)
  <2>1. /\ Changes(s, r, o) /\ r.status = s.status /\ r.obj[o].status = "running"
        /\ r.running = s.running \cup {o}
    BY <1>1, StartTransferFields
  <2>2. Download(s, o) = r
    BY <1>6 DEF Download
  <2> HIDE DEF r
  <2>3. Cardinality(s.running) <= Cardinality(r.running)
    BY <1>2, <2>1, FS_AddElement, FS_Subset
  <2>4. Moves(s, r, o) /\ MayWait(s, r, files, P, Q, o)
    BY <1>3, <2>1 DEF Moves, MayWait, Waits
  <2>5. s.status = "succeeded" /\ SettledTask(s, P, L, o) => SettledTask(r, Q, L, o)
    BY <1>4, <2>1
  <2> QED
    BY <1>1, <1>3, <2>1, <2>2, <2>3, <2>4, <2>5, ChangedRest
<1>7. CASE s.obj[o].url \notin files /\ ~ShouldRun(s)
  <2> DEFINE r == SetStatus(s, o, "waiting")
  <2>1. Changes(s, r, o)
    BY <1>1, StatusChanges
  <2>2. /\ r.status = s.status /\ r.obj[o].status = "waiting" /\ r.obj[o].url = s.obj[o].url
        /\ r.running = s.running /\ r.mapper = s.mapper
    BY <1>1, SetStatusFields
  <2>3. Download(s, o) = r
    BY <1>7 DEF Download
  <2> HIDE DEF r
  <2>4. Limit <= Cardinality(r.running)
    BY <1>2, <1>7, <2>2 DEF ShouldRun
  <2>5. MayWait(s, r, files, P, Q, o)
    <3>1. CASE s.status \in Stopping
      BY <2>2, <3>1 DEF MayWait, Waits, Listed
    <3>2. CASE s.status \notin Stopping
      BY <1>7, <2>2, <2>4, <3>2 DEF MayWait
    <3> QED
      BY <3>1, <3>2
  <2>6. Moves(s, r, o) /\ Cardinality(s.running) <= Cardinality(r.running)
    BY <1>2, <1>3, <2>2 DEF Moves
  <2>7. s.status = "succeeded" /\ SettledTask(s, P, L, o) => SettledTask(r, Q, L, o)
    BY <1>4, <2>1, <2>2
  <2> QED
    BY <1>1, <1>3, <2>1, <2>2, <2>3, <2>5, <2>6, <2>7, ChangedRest
<1> QED
  BY <1>5, <1>6, <1>7
\* A task that needs not be handled
LEMMA SameRest ==
  ASSUME NEW s, Known(s), NEW o \in DOMAIN s.obj,
         NEW fs, NEW P, NEW Q, P \ {o} \subseteq Q, NEW L, NEW K, L \ {o} \subseteq K,
         NEW e \in Nat, NEW f \in Nat,
         MayWait(s, s, fs, P, Q, o),
         s.status = "succeeded" /\ SettledTask(s, P, L, o) => SettledTask(s, Q, K, o),
         Rest(s, fs, P, L, e, f)
  PROVE  Rest(s, fs, Q, K, e, f)
<1>1. Changes(s, s, o)
  BY DEF Changes, Known
<1>2. Moves(s, s, o)
  BY DEF Moves
<1>3. Cardinality(s.running) \in Nat
  BY FiniteSlots
<1>4. Cardinality(s.running) <= Cardinality(s.running)
  BY <1>3
<1> QED
  BY <1>1, <1>2, <1>4, ChangedRest

\* The manager runs, and the task is started.
LEMMA StartRest ==
  ASSUME NEW s, Good(s, Delivered), NEW o \in DOMAIN s.obj,
         NEW P, NEW Q, P \ {o} \subseteq Q, NEW L, Rest(s, files, P, L, 0, 0)
  PROVE  Rest(Start(s, o), files, Q, L, 0, 0)
<1> DEFINE w == DidStart(s)
<1>1. Known(s) /\ s \in Managers /\ "running" \in Status /\ s.queue \in Seq(AllJobs)
  BY FieldTypes DEF Good, Known, Status
<1>2. Quiet(s, w) /\ w.status = "running"
  BY <1>1, QuietStatus DEF DidStart
<1>3. Good(w, Delivered) /\ Known(w)
  BY <1>2, QuietGood DEF Good
<1>4. w.obj = s.obj
  BY <1>2 DEF Quiet, Alike
<1> HIDE DEF w
<1>5. Extends(s.queue, w.queue, 0) /\ w.status \notin Stopping /\ SettledNow(s, w)
  BY <1>1, <1>2, QuietExtends DEF Stopping, SettledNow
<1>6. Rest(w, files, P, L, 0, 0)
  <2>1. 0 \in Nat /\ 0 <= 0 + 0
    OBVIOUS
  <2> QED
    BY <1>1, <1>2, <1>3, <1>5, <2>1, QuietRest
<1>7. 0 \in Nat /\ 0 \in {0, 1} /\ L \ {o} \subseteq L /\ o \in DOMAIN w.obj
  BY <1>4
<1>8. Rest(Download(w, o), files, Q, L, 0, 0)
  <2>1. CASE w.obj[o].status \in {"waiting", "suspended", "failed"}
    BY <1>2, <1>3, <1>5, <1>6, <1>7, <2>1, StartableRest
  <2>2. CASE w.obj[o].status = "succeeded"
    <3>1. Download(w, o) = Succeeded(w, o, FALSE)
      BY <2>2 DEF Download
    <3>2. Whole(w) /\ Owned(w, Delivered) => w.obj[o].transfer = None /\ w.obj[o].url \in Delivered
      BY <1>7, <2>2 DEF Owned, HasSlot, DoneHasFile, Stopping
    <3>3. w.obj[o].status \notin Gone /\ FALSE \in BOOLEAN /\ 0 # 1
      BY <2>2 DEF Gone
    <3>4. Rest(Succeeded(w, o, FALSE), files, Q, L, 0, 0)
      BY <1>3, <1>6, <1>7, <3>2, <3>3, SucceededRest
    <3> QED
      BY <3>1, <3>4
  <2>3. CASE w.obj[o].status \notin {"waiting", "suspended", "failed", "succeeded"}
    <3>1. Download(w, o) = w
      BY <2>3 DEF Download
    <3>2. MayWait(w, w, files, P, Q, o)
      BY <2>3 DEF MayWait, Waits
    <3>3. Rest(w, files, Q, L, 0, 0)
      BY <1>2, <1>3, <1>6, <1>7, <3>2, SameRest
    <3> QED
      BY <3>1, <3>3
  <2> QED
    BY <2>1, <2>2, <2>3
<1> QED
  BY <1>8 DEF Start, w

\* A task that is stopped does not wait any more, and is not started by the manager.
LEMMA StopRest ==
  ASSUME NEW s, NEW c, Good(s, c), NEW o \in DOMAIN s.obj, NEW will \in Stopping,
         will = "willSuspend" => s.obj[o].status \in {"running", "waiting"},
         NEW fs, NEW P, NEW Q, P \ {o} \subseteq Q, NEW L,
         s.status = "succeeded" => o \notin P,
         Rest(s, fs, P, L, 0, 0)
  PROVE  Rest(Stop(s, o, will), fs, Q, L, 0, 0)
<1>1. Known(s) /\ s \in Managers /\ will \in Status /\ 0 \in Nat /\ L \ {o} \subseteq L
  BY DEF Good, Known, Status, Stopping
<1>2. /\ s.obj[o].status \in Gone => will \in Gone
      /\ s.obj[o].status \in Past => will \in Past
      /\ will # "waiting"
  BY DEF Gone, Past, Stopping
<1>3. Cardinality(s.running) \in Nat
  BY <1>1, FiniteSlots
<1>4. CASE s.obj[o].status = "running"
  <2> DEFINE w == SetStatus(s, o, will)
             r == CutTransfer(w, o)
  <2>1. Changes(s, w, o) /\ Known(w)
    BY <1>1, StatusChanges, ChangedKnown
  <2>2. /\ w.status = s.status /\ w.obj[o].status = will /\ w.obj[o].url = s.obj[o].url
        /\ w.queue = s.queue /\ w.mapper = s.mapper /\ DOMAIN w.obj = DOMAIN s.obj
    BY <1>1, SetStatusFields
  <2>3. Rest(w, fs, Q, L, 0, 0)
    <3>1. s.status = "succeeded" /\ SettledTask(s, P, L, o) => SettledTask(w, Q, L, o)
      BY <1>4, <2>2 DEF SettledTask, Asked, Gone
    <3>2. MayWait(s, w, fs, P, Q, o)
      BY <1>2, <2>2 DEF MayWait, Waits
    <3> QED
      BY <1>1, <1>2, <3>1, <3>2, SetStatusRest
  <2> HIDE DEF w
  <2>4. /\ Changes(w, r, o)
        /\ r.obj = w.obj /\ r.running = w.running /\ r.queue = w.queue /\ r.status = w.status
    BY <2>1, <2>2, CutFields
  <2> HIDE DEF r
  <2>5. /\ Moves(w, r, o) /\ MayWait(w, r, fs, Q, Q, o)
        /\ SettledTask(w, Q, L, o) => SettledTask(r, Q, L, o)
    BY <2>4 DEF Changes, Moves, MayWait, Waits, Listed, SettledTask, Asked
  <2>6. Cardinality(w.running) <= Cardinality(r.running)
    <3>1. Cardinality(w.running) \in Nat
      BY <2>1, FiniteSlots
    <3> QED
      BY <2>4, <3>1
  <2>7. o \in DOMAIN w.obj /\ Q \ {o} \subseteq Q
    BY <2>2
  <2>8. Rest(r, fs, Q, L, 0, 0)
    BY <1>1, <2>1, <2>3, <2>4, <2>5, <2>6, <2>7, ChangedRest
  <2>9. Stop(s, o, will) = r
    BY <1>4 DEF Stop, r, w
  <2> QED
    BY <2>8, <2>9
<1>5. CASE s.obj[o].status # "running"
  <2> DEFINE r == Async(SetStatus(s, o, will), Local(o))
  <2>1. /\ Changes(s, r, o) /\ r.status = s.status /\ r.obj[o].status = will
        /\ r.obj[o].url = s.obj[o].url
        /\ r.running = s.running /\ r.queue = Append(s.queue, Local(o))
    BY <1>1, PostLocalFields
  <2>2. Stop(s, o, will) = r
    BY <1>5 DEF Stop
  <2> HIDE DEF r
  <2>3. /\ Moves(s, r, o) /\ MayWait(s, r, fs, P, Q, o)
        /\ Cardinality(s.running) <= Cardinality(r.running)
    BY <1>2, <1>3, <2>1 DEF Moves, MayWait, Waits
  <2>4. ASSUME s.status = "succeeded", SettledTask(s, P, L, o) PROVE SettledTask(r, Q, L, o)
    <3>1. CASE will = "willSuspend"
      <4>1. Asked(s, o, P) /\ s.mapper[s.obj[o].url] # None /\ o \notin P
        BY <2>4, <3>1 DEF SettledTask, Gone
      <4>2. \A i \in DOMAIN s.queue : i \in DOMAIN r.queue /\ r.queue[i] = s.queue[i]
        BY <1>1, <2>1, ChangesExtends
      <4>3. r.mapper[r.obj[o].url] # None
        BY <2>1, <4>1 DEF Changes
      <4> QED
        BY <4>1, <4>2, <4>3 DEF SettledTask, Asked
    <3>2. CASE will # "willSuspend"
      <4>1. HasLocal(r.queue, o)
        <5>1. s.queue \in Seq(AllJobs) /\ o \in Nat
          BY <1>1, FieldTypes, ObjectTypes
        <5>2. Local(o) \in AllJobs /\ IsLocal(Local(o), o)
          BY <5>1, LocalJob
        <5> QED
          BY <2>1, <5>1, <5>2, PostedLocal
      <4> QED
        BY <2>1, <3>2, <4>1 DEF SettledTask, Stopping
    <3> QED
      BY <3>1, <3>2
  <2>5. s.status = "succeeded" /\ SettledTask(s, P, L, o) => SettledTask(r, Q, L, o)
    BY <2>4
  <2>6. Rest(r, fs, Q, L, 0, 0)
    BY <1>1, <2>1, <2>3, <2>5, ChangedRest
  <2> QED
    BY <2>2, <2>6
<1> QED
  BY <1>4, <1>5

\* What each request for a task does.
LEMMA RequestsRest ==
  ASSUME NEW s, Good(s, Delivered), NEW o \in DOMAIN s.obj,
         NEW P, NEW Q, P \ {o} \subseteq Q, NEW L, Rest(s, files, P, L, 0, 0)
  PROVE  /\ Rest(StartUnlessSucceeded(s, o), files, Q, L, 0, 0)
         /\ (s.status = "succeeded" => o \notin P) =>
              /\ Rest(Suspend(s, o), files, Q, L, 0, 0)
              /\ Rest(Cancel(s, o), files, Q, L, 0, 0)
              /\ Rest(RemoveTask(s, o), files, Q, L, 0, 0)
<1>1. Known(s) /\ Stopping = {"willSuspend", "willCancel", "willRemove"} /\ 0 \in Nat
      /\ L \ {o} \subseteq L
  BY DEF Good, Stopping
<1>2. Rest(StartUnlessSucceeded(s, o), files, Q, L, 0, 0)
  <2>1. CASE s.obj[o].status = "succeeded"
    <3>1. MayWait(s, s, files, P, Q, o) /\ SettledTask(s, Q, L, o)
      BY <2>1 DEF MayWait, Waits, SettledTask
    <3>2. Rest(s, files, Q, L, 0, 0)
      BY <1>1, <3>1, SameRest
    <3> QED
      BY <2>1, <3>2 DEF StartUnlessSucceeded
  <2>2. CASE s.obj[o].status # "succeeded"
    BY <2>2, StartRest DEF StartUnlessSucceeded
  <2> QED
    BY <2>1, <2>2
<1> SUFFICES ASSUME s.status = "succeeded" => o \notin P
             PROVE  /\ Rest(Suspend(s, o), files, Q, L, 0, 0)
                    /\ Rest(Cancel(s, o), files, Q, L, 0, 0)
                    /\ Rest(RemoveTask(s, o), files, Q, L, 0, 0)
  BY <1>2
<1>3. s.obj[o].status # "waiting" => Rest(s, files, Q, L, 0, 0)
  <2> SUFFICES ASSUME s.obj[o].status # "waiting" PROVE Rest(s, files, Q, L, 0, 0)
    OBVIOUS
  <2>1. MayWait(s, s, files, P, Q, o)
    BY DEF MayWait, Waits
  <2>2. s.status = "succeeded" /\ SettledTask(s, P, L, o) => SettledTask(s, Q, L, o)
    BY DEF SettledTask, Asked
  <2> QED
    BY <1>1, <2>1, <2>2, SameRest
<1>4. Rest(Suspend(s, o), files, Q, L, 0, 0)
  <2>1. CASE s.obj[o].status \in {"running", "waiting"}
    <3>1. Rest(Stop(s, o, "willSuspend"), files, Q, L, 0, 0)
      BY <1>1, <2>1, StopRest
    <3> QED
      BY <2>1, <3>1 DEF Suspend
  <2>2. CASE s.obj[o].status \notin {"running", "waiting"}
    BY <1>3, <2>2 DEF Suspend
  <2> QED
    BY <2>1, <2>2
<1>5. Rest(Cancel(s, o), files, Q, L, 0, 0)
  <2>1. CASE s.obj[o].status # "succeeded"
    <3>1. Rest(Stop(s, o, "willCancel"), files, Q, L, 0, 0)
      BY <1>1, StopRest
    <3> QED
      BY <2>1, <3>1 DEF Cancel
  <2>2. CASE s.obj[o].status = "succeeded"
    BY <1>3, <2>2 DEF Cancel
  <2> QED
    BY <2>1, <2>2
<1>6. Rest(RemoveTask(s, o), files, Q, L, 0, 0)
  BY <1>1, StopRest DEF RemoveTask
<1> QED
  BY <1>4, <1>5, <1>6
\* The slots that tasks need which wait are offered.
LEMMA RestEnough ==
  ASSUME NEW s, NEW fs, NEW P, NEW L, NEW e, NEW f, NEW d, Rest(s, fs, P, L, e, f),
         ~s.apart /\ Whole(s) =>
           \A b \in DOMAIN s.obj : Waits(s, b) /\ ~Asked(s, b, P) => Enough(s, 0, d)
  PROVE  Rest(s, fs, P, L, d, f)
BY DEF Rest, Served, ServedTask

\* The first task of the list that waits
FirstWaits(s, i) ==
  /\ i \in DOMAIN s.tasks /\ s.obj[s.tasks[i]].status = "waiting"
  /\ \A j \in 1 .. (i - 1) : s.obj[s.tasks[j]].status # "waiting"

LEMMA StartNextFirst ==
  ASSUME NEW s, Known(s)
  PROVE  \/ /\ StartNextTask(s) = s
            /\ \A i \in DOMAIN s.tasks : s.obj[s.tasks[i]].status # "waiting"
         \/ \E i : FirstWaits(s, i) /\ StartNextTask(s) = Download(s, s.tasks[i])
<1> DEFINE waits(i) == s.obj[s.tasks[i]].status = "waiting"
           D == {i \in DOMAIN s.tasks : waits(i)}
           First(i) == waits(i) /\ \A j \in 1 .. (i - 1) : ~waits(j)
           c == CHOOSE i \in DOMAIN s.tasks : First(i)
<1>1. DOMAIN s.tasks = 1..Len(s.tasks) /\ Len(s.tasks) \in Nat
  BY FieldTypes DEF Known
<1>2. CASE D = {}
  <2>1. \A i \in DOMAIN s.tasks : ~waits(i)
    BY <1>2
  <2> QED
    BY <2>1 DEF StartNextTask
<1>3. CASE D # {}
  <2>1. D \in SUBSET Nat
    BY <1>1
  <2>2. PICK i \in D : \A k \in D : i <= k
    <3> HIDE DEF D
    <3> QED
      BY <1>3, <2>1, LeastNumber
  <2>3. i \in DOMAIN s.tasks /\ First(i)
    <3>1. \A j \in 1 .. (i - 1) : j \in DOMAIN s.tasks /\ ~(i <= j)
      BY <1>1, <2>2
    <3> QED
      BY <2>2, <3>1
  <2>4. StartNextTask(s) = Download(s, s.tasks[c])
    BY <2>3 DEF StartNextTask
  <2> HIDE DEF First
  <2>5. c \in DOMAIN s.tasks /\ First(c)
    BY <2>3
  <2> HIDE DEF c
  <2>6. FirstWaits(s, c)
    BY <2>5 DEF First, FirstWaits
  <2> QED
    BY <2>4, <2>6
<1> QED
  BY <1>2, <1>3

\* The next task is started: the first that waits, after a block for it was taken.
LEMMA StartNextRest ==
  ASSUME NEW s, Good(s, Delivered), Rest(s, files, {}, {}, 1, 0)
  PROVE  Rest(StartNextTask(s), files, {}, {}, 0, 0)
<1>1. Known(s) /\ s \in Managers /\ s.queue \in Seq(AllJobs) /\ s.tasks \in Seq(DOMAIN s.obj)
      /\ s.tasks \in Seq(Nat)
  BY FieldTypes DEF Good, Known
<1>2. Cardinality(s.running) \in Nat /\ IsFiniteSet(s.running) /\ Limit \in Nat
  BY <1>1, FiniteSlots, LimitAssumption
<1>3. CASE /\ StartNextTask(s) = s
           /\ \A i \in DOMAIN s.tasks : s.obj[s.tasks[i]].status # "waiting"
  <2>1. ASSUME ~s.apart, NEW b \in DOMAIN s.obj, Waits(s, b) PROVE Asked(s, b, {})
    <3>1. TablesAgree(s)
      BY <2>1 DEF Rest
    <3>2. \E i \in DOMAIN s.tasks : s.tasks[i] = b
      BY <1>1, <2>1, <3>1, WaitsInList
    <3> QED
      BY <1>3, <2>1, <3>2 DEF Waits
  <2>2. Rest(s, files, {}, {}, 0, 0)
    BY <2>1, RestAsked
  <2> QED
    BY <1>3, <2>2
<1>4. ASSUME NEW i, FirstWaits(s, i), StartNextTask(s) = Download(s, s.tasks[i])
      PROVE  Rest(StartNextTask(s), files, {}, {}, 0, 0)
  <2> DEFINE o == s.tasks[i]
             r == Download(s, o)
  <2>1. /\ i \in DOMAIN s.tasks /\ o \in DOMAIN s.obj /\ s.obj[o].status = "waiting"
        /\ i \in Nat /\ o \in Nat /\ DOMAIN s.tasks = 1..Len(s.tasks) /\ Len(s.tasks) \in Nat
    BY <1>1, <1>4 DEF FirstWaits
  <2>2. Good(r, Delivered)
    BY <2>1, DownloadGood
  <2> HIDE DEF o
  <2>3. Rest(r, files, {}, {}, 1, 0)
    <3>1. s.obj[o].status \in {"waiting", "suspended", "failed"} /\ {} \ {o} \subseteq {}
          /\ 1 \in Nat /\ 0 \in Nat /\ o \notin {}
      BY <2>1
    <3> QED
      BY <2>1, <3>1, StartableRest
  <2>4. Known(r)
    BY <2>2 DEF Good
  \* Another task that waits comes later in the list, and was made later.
  <2>5. ASSUME ~s.apart, NEW b \in DOMAIN s.obj, Waits(s, b), b # o
        PROVE  o < b
    <3>1. TablesAgree(s) /\ InOrder(s)
      BY <2>5 DEF Rest
    <3>2. PICK j \in DOMAIN s.tasks : s.tasks[j] = b
      BY <1>1, <2>5, <3>1, WaitsInList
    <3>3. s.obj[s.tasks[j]].status = "waiting" /\ j # i
      BY <2>5, <3>2 DEF Waits, o
    <3>4. j \notin 1 .. (i - 1)
      BY <1>4, <3>3 DEF FirstWaits
    <3>5. i < j
      BY <2>1, <3>3, <3>4
    <3>6. s.obj[s.tasks[i]].status \notin Past /\ s.obj[s.tasks[j]].status \notin Past
      BY <2>1, <3>3 DEF Past, Gone, o
    <3>7. s.tasks[i] <= s.tasks[j]
      BY <2>1, <3>1, <3>5, <3>6 DEF InOrder
    <3>8. b \in Nat
      BY <1>1, <3>2
    <3> QED
      BY <2>1, <2>5, <3>2, <3>7, <3>8 DEF o
  \* It is offered the slots that are left.
  <2>6. ASSUME Changes(s, r, o), r.obj[o].status = "running",
               \A b \in DOMAIN s.obj :
                  ServedTask(s, files, 1, {}, 0, b) /\ b # o /\ Waits(s, b) /\ ~s.apart /\ Whole(r)
                    => Enough(r, 0, 0)
        PROVE  Rest(r, files, {}, {}, 0, 0)
    <3>1. ASSUME ~r.apart, Whole(r), NEW b \in DOMAIN r.obj, Waits(r, b), ~Asked(r, b, {})
          PROVE  Enough(r, 0, 0)
      <4>1. /\ b # o /\ b \in DOMAIN s.obj /\ ~s.apart /\ r.obj[b] = s.obj[b]
            /\ r.mapper = s.mapper
        BY <2>6, <3>1 DEF Waits, Changes
      <4>2. Waits(s, b)
        BY <3>1, <4>1 DEF Waits, Listed
      <4>3. /\ \A x \in DOMAIN s.queue : x \in DOMAIN r.queue /\ r.queue[x] = s.queue[x]
            /\ Whole(s)
        BY <1>1, <2>1, <2>6, <3>1, ChangesExtends
      <4>4. ~Asked(s, b, {})
        BY <3>1, <4>3 DEF Asked
      <4>5. ServedTask(s, files, 1, {}, 0, b)
        BY <4>1, <4>2, <4>3, <4>4 DEF Rest, Served
      <4> QED
        BY <2>6, <3>1, <4>1, <4>2, <4>5
    <3>2. ~r.apart /\ Whole(r) =>
            \A b \in DOMAIN r.obj : Waits(r, b) /\ ~Asked(r, b, {}) => Enough(r, 0, 0)
      BY <3>1
    <3> HIDE DEF r
    <3> QED
      BY <2>3, <3>2, RestEnough
  <2>7. CASE s.obj[o].url \in files
    <3>1. r = Async(SetStatus(s, o, "running"), Local(o))
      BY <2>1, <2>7 DEF Download
    <3>2. "running" \in Status
      BY DEF Status
    <3>3. Changes(s, r, o) /\ r.obj[o].status = "running" /\ r.running = s.running
      BY <1>1, <2>1, <3>1, <3>2, PostLocalFields
    <3> HIDE DEF r
    <3>4. ASSUME NEW b \in DOMAIN s.obj, ServedTask(s, files, 1, {}, 0, b), b # o, Waits(s, b),
                 ~s.apart, Whole(r)
          PROVE  Enough(r, 0, 0)
      <4>1. o < b
        BY <2>5, <3>4
      <4>2. Waits(s, o)
        <5>1. TablesAgree(s)
          BY <3>4 DEF Rest
        <5>2. s.obj[o].status \notin Gone
          BY <2>1 DEF Gone
        <5> QED
          BY <2>1, <5>1, <5>2 DEF TablesAgree, Waits, Listed, o
      <4>3. PICK p \in DOMAIN s.queue : Enough(s, p, 0)
        BY <2>1, <2>7, <3>4, <4>1, <4>2 DEF ServedTask, Before
      <4>4. Enough(s, 0, 0)
        <5>1. Cardinality(NextAfter(s.queue, p)) <= Cardinality(NextAfter(s.queue, 0))
          BY <1>1, NextsFewer
        <5>2. /\ Cardinality(NextAfter(s.queue, p)) \in Nat
              /\ Cardinality(NextAfter(s.queue, 0)) \in Nat
          BY <1>1, NextsFinite
        <5> QED
          BY <1>2, <4>3, <5>1, <5>2 DEF Enough
      <4>5. Extends(s.queue, r.queue, 0)
        BY <1>1, <2>1, <3>3, ChangesExtends
      <4>6. Cardinality(s.running) <= Cardinality(r.running) + 0 /\ 0 \in Nat /\ 0 + 0 <= 0 + 0
        BY <1>2, <3>3
      <4> QED
        BY <1>1, <2>4, <4>4, <4>5, <4>6, EnoughStays
    <3>5. Rest(r, files, {}, {}, 0, 0)
      BY <2>6, <3>3, <3>4
    <3> QED
      BY <1>4, <3>5 DEF r, o
  <2>8. CASE s.obj[o].url \notin files /\ ShouldRun(s)
    <3>1. r = StartTransfer(s, o)
      BY <2>1, <2>8 DEF Download
    <3>2. /\ Changes(s, r, o) /\ r.obj[o].status = "running" /\ r.running = s.running \cup {o}
          /\ r.queue = s.queue
      BY <1>1, <2>1, <3>1, StartTransferFields
    <3> HIDE DEF r
    <3>3. ASSUME NEW b \in DOMAIN s.obj, ServedTask(s, files, 1, {}, 0, b), Whole(r)
          PROVE  Enough(r, 0, 0)
      <4>1. Whole(s)
        BY <1>1, <2>1, <3>2, <3>3, ChangesExtends
      <4>2. Owned(s, Delivered)
        BY <4>1 DEF Good
      <4>3. o \notin s.running
        BY <2>1, <4>2, Startable
      <4>4. Cardinality(r.running) = Cardinality(s.running) + 1
        <5>1. r.running = s.running \cup {o} /\ IsFiniteSet(s.running)
          BY <1>2, <3>2
        <5>2. Cardinality(s.running \cup {o}) = Cardinality(s.running) + 1
          BY <4>3, <5>1, FS_AddElement
        <5> QED
          BY <5>1, <5>2
      <4>5. Limit <= Cardinality(s.running) + Cardinality(NextAfter(s.queue, 0)) + 1
        BY <3>3 DEF ServedTask, Enough
      <4>6. Cardinality(NextAfter(s.queue, 0)) \in Nat
        BY <1>1, NextsFinite
      <4> QED
        BY <1>2, <3>2, <4>4, <4>5, <4>6 DEF Enough
    <3>4. Rest(r, files, {}, {}, 0, 0)
      BY <2>6, <3>2, <3>3
    <3> QED
      BY <1>4, <3>4 DEF r, o
  <2>9. CASE s.obj[o].url \notin files /\ ~ShouldRun(s)
    <3>1. r = SetStatus(s, o, "waiting")
      BY <2>1, <2>9 DEF Download
    <3>2. "waiting" \in Status
      BY DEF Status
    <3>3. r.running = s.running
      BY <1>1, <2>1, <3>1, <3>2, SetStatusFields
    <3> HIDE DEF r
    <3>4. Limit <= Cardinality(r.running)
      BY <1>2, <2>9, <3>3 DEF ShouldRun
    <3>5. Enough(r, 0, 0)
      BY <2>4, <3>4, EnoughFull
    <3>6. Rest(r, files, {}, {}, 0, 0)
      BY <2>3, <3>5, RestEnough
    <3> QED
      BY <1>4, <3>6 DEF r, o
  <2> QED
    BY <2>7, <2>8, <2>9
<1> QED
  BY <1>1, <1>3, <1>4, StartNextFirst
-----------------------------------------------------------------------------
(***************************************************************************)
(* Waiting tasks and the end of a task                                     *)
(***************************************************************************)

\* A task that was stopped for good is dropped from the lists.
LEMMA DroppedRest ==
  ASSUME NEW s, Known(s), NEW o \in DOMAIN s.obj, NEW f, Dropped(s, o, f), Known(f),
         ~f.apart => ~s.apart /\ TablesAgree(f),
         NEW fs, NEW P, NEW L, NEW K, L \ {o} \subseteq K, NEW e \in Nat, NEW g \in Nat,
         Rest(s, fs, P, L, e, g)
  PROVE  Rest(f, fs, P, K, e, g)
<1> DEFINE u == s.obj[o].url
<1>1. /\ f.obj = s.obj /\ f.net = s.net /\ f.running = s.running /\ f.queue = s.queue
      /\ f.status = s.status /\ f.mapper = [s.mapper EXCEPT ![u] = None]
      /\ \/ f.tasks \in {<<>>, s.tasks, s.succeeded} /\ s.status \in Stopping
         \/ f.tasks = Without(s, s.tasks, u)
      /\ f.succeeded \in {<<>>, s.succeeded, Without(s, s.succeeded, u)}
  BY DEF Dropped
<1>2. /\ s \in Managers /\ s.tasks \in Seq(DOMAIN s.obj) /\ s.succeeded \in Seq(DOMAIN s.obj)
      /\ s.mapper \in [Urls -> Nat] /\ s.queue \in Seq(AllJobs)
      /\ \A p \in DOMAIN s.obj : p # None /\ s.obj[p].url \in Urls
  <2>1. s \in Managers /\ s.tasks \in Seq(DOMAIN s.obj) /\ s.succeeded \in Seq(DOMAIN s.obj)
    BY DEF Known
  <2> QED
    BY <2>1, FieldTypes, ObjectTypes
<1>3. /\ Thins(s, s.tasks, u, Without(s, s.tasks, u))
      /\ Thins(s, s.succeeded, u, Without(s, s.succeeded, u))
  <2> HIDE DEF u
  <2> QED
    BY <1>2, WithoutType
<1>4. /\ f.mapper[u] = None
      /\ \A x \in Urls : x # u => f.mapper[x] = s.mapper[x]
  BY <1>1, <1>2
<1> HIDE DEF u
<1>5. RecordedPast(s) /\ InOrder(s)
  BY DEF Rest
<1>6. RecordedPast(f)
  <2>1. CASE f.succeeded = <<>>
    BY <2>1 DEF RecordedPast
  <2>2. CASE f.succeeded = s.succeeded
    BY <1>1, <1>5, <2>2 DEF RecordedPast
  <2>3. CASE f.succeeded = Without(s, s.succeeded, u)
    BY <1>1, <1>3, <1>5, <2>3 DEF RecordedPast, Thins
  <2> QED
    BY <1>1, <2>1, <2>2, <2>3
<1>7. InOrder(f)
  <2>1. CASE f.tasks = <<>>
    BY <2>1 DEF InOrder
  <2>2. CASE f.tasks = s.tasks
    BY <1>1, <1>5, <2>2 DEF InOrder
  <2>3. CASE f.tasks = s.succeeded
    BY <1>1, <1>5, <2>3 DEF InOrder, RecordedPast
  <2>4. CASE f.tasks = Without(s, s.tasks, u)
    <3> SUFFICES ASSUME NEW i \in DOMAIN f.tasks, NEW j \in DOMAIN f.tasks, i < j,
                        s.obj[f.tasks[i]].status \notin Past, s.obj[f.tasks[j]].status \notin Past
                 PROVE  f.tasks[i] <= f.tasks[j]
      BY <1>1 DEF InOrder
    <3>1. PICK x \in DOMAIN s.tasks, y \in DOMAIN s.tasks :
                 x < y /\ f.tasks[i] = s.tasks[x] /\ f.tasks[j] = s.tasks[y]
      BY <1>3, <2>4 DEF Thins
    <3> QED
      BY <1>5, <3>1 DEF InOrder
  <2> QED
    BY <1>1, <2>1, <2>2, <2>3, <2>4
<1>8. \A b \in DOMAIN f.obj : Listed(f, b) => Listed(s, b)
  BY <1>1, <1>2, <1>4 DEF Listed
<1>9. ASSUME ~f.apart, Whole(f) PROVE Served(f, fs, P, e, g)
  <2>1. Whole(s)
    BY <1>1, <1>8, <1>9 DEF Whole
  <2>2. Served(s, fs, P, e, g)
    BY <1>9, <2>1 DEF Rest
  <2>3. StillWaits(s, f, fs, P, P)
    BY <1>1, <1>8 DEF StillWaits, Waits
  <2>4. Extends(s.queue, f.queue, 0)
    BY <1>1, <1>2, ExtendsSelf
  <2>5. /\ 0 \in Nat /\ e + 0 <= e + 0 /\ g + 0 <= g + 0
        /\ f.status \in Stopping => s.status \in Stopping
        /\ \A p \in DOMAIN s.obj : p \in DOMAIN f.obj /\ f.obj[p].url = s.obj[p].url
    BY <1>1
  <2>6. Cardinality(s.running) <= Cardinality(f.running) + 0
    <3>1. Cardinality(s.running) \in Nat
      BY FiniteSlots
    <3> QED
      BY <1>1, <3>1
  <2> QED
    BY <2>2, <2>3, <2>4, <2>5, <2>6, ServedStays
<1>10. Settled(f, P, K)
  <2> SUFFICES ASSUME f.status = "succeeded", NEW i \in DOMAIN f.tasks
               PROVE  SettledTask(f, P, K, f.tasks[i])
    BY DEF Settled
  <2>1. f.tasks = Without(s, s.tasks, u)
    BY <1>1 DEF Stopping
  <2>2. PICK x \in DOMAIN s.tasks : f.tasks[i] = s.tasks[x] /\ s.obj[s.tasks[x]].url # u
    BY <1>3, <2>1 DEF Thins
  <2> DEFINE p == s.tasks[x]
  <2>3. SettledTask(s, P, L, p) /\ p \in DOMAIN s.obj /\ p # o
    BY <1>1, <1>2, <2>2 DEF Rest, Settled, u
  <2>4. f.mapper[s.obj[p].url] = s.mapper[s.obj[p].url]
    BY <1>2, <1>4, <2>2, <2>3
  <2>5. SettledTask(f, P, K, p)
    <3> HIDE DEF p
    <3> QED
      BY <1>1, <2>3, <2>4 DEF SettledTask, Asked
  <2> QED
    BY <2>2, <2>5
<1> QED
  BY <1>6, <1>7, <1>9, <1>10 DEF Rest

\* The manager loses its last task.
LEMMA EmptyRest ==
  ASSUME NEW s, Known(s), s.tasks = <<>>, NEW r, Known(r), NEW st, st # "succeeded",
         r = [s EXCEPT !.status = st], NEW fs, NEW P, NEW L, NEW e, NEW f, Rest(s, fs, P, L, e, f)
  PROVE  Rest(r, fs, P, L, e, f)
<1>1. /\ r.obj = s.obj /\ r.tasks = s.tasks /\ r.succeeded = s.succeeded /\ r.mapper = s.mapper
      /\ r.apart = s.apart /\ r.status = st
  BY DEF Known, Managers
<1>2. RecordedPast(r) /\ InOrder(r) /\ (~r.apart => TablesAgree(r))
  BY <1>1 DEF Rest, RecordedPast, InOrder, TablesAgree, Mapped
<1>3. ASSUME ~r.apart PROVE Served(r, fs, P, e, f)
  <2>1. \A b \in DOMAIN r.obj : ~Waits(r, b)
    <3> SUFFICES ASSUME NEW b \in DOMAIN r.obj, Waits(r, b) PROVE FALSE
      OBVIOUS
    <3>1. TablesAgree(r) /\ DOMAIN r.tasks = {}
      BY <1>1, <1>2, <1>3
    <3>2. \E i \in DOMAIN r.tasks : r.tasks[i] = b
      BY <3>1, WaitsInList
    <3> QED
      BY <3>1, <3>2
  <2> QED
    BY <2>1, ServedAll
<1>4. Settled(r, P, L)
  BY <1>1 DEF Settled
<1> QED
  BY <1>2, <1>3, <1>4 DEF Rest

\* A task that is cancelled or removed is dropped.
LEMMA DropRest ==
  ASSUME NEW s, NEW c, Good(s, c), NEW o \in DOMAIN s.obj, NEW st \in {"canceled", "removed"},
         NEW fs, NEW P, NEW L, NEW K, L \ {o} \subseteq K, NEW e \in Nat, NEW f \in Nat,
         Rest(s, fs, P, L, e, f)
  PROVE  Rest(DidCancelOrRemove(SetStatus(s, o, st), o), fs, P, K, e, f)
<1> DEFINE w == SetStatus(s, o, st)
           g == ForgetTask(w, o)
           r == DidCancelOrRemove(w, o)
<1>1. Known(s) /\ s \in Managers /\ st \in Status /\ st \in Gone /\ st \in Past /\ st # "waiting"
  BY DEF Good, Known, Status, Gone, Past
<1>2. Known(w)
  BY <1>1, StatusChanges, ChangedKnown
<1>3. w.obj[o].status = st /\ o \in DOMAIN w.obj
  BY <1>1, SetStatusFields
<1>4. Rest(w, fs, P, L \cup {o}, e, f)
  <2> HIDE DEF w
  <2>1. MayWait(s, w, fs, P, P, o) /\ SettledTask(w, P, L \cup {o}, o)
    BY <1>1, <1>3 DEF MayWait, Waits, SettledTask
  <2>2. P \ {o} \subseteq P /\ L \ {o} \subseteq L \cup {o}
    OBVIOUS
  <2> QED
    BY <1>1, <2>1, <2>2, SetStatusRest DEF w
<1> HIDE DEF w
<1>5. Dropped(w, o, g) /\ (~g.apart => ~w.apart /\ TablesAgree(g))
  BY <1>2, <1>3, ForgetTables
<1>6. Known(g)
  BY <1>2, <1>3, <1>5, DroppedKnown
<1> HIDE DEF g
<1>7. Rest(g, fs, P, K, e, f)
  <2>1. (L \cup {o}) \ {o} \subseteq K
    OBVIOUS
  <2> QED
    BY <1>2, <1>3, <1>4, <1>5, <1>6, <2>1, DroppedRest
<1>8. CASE g.tasks # <<>>
  <2>1. r = g
    BY <1>8 DEF DidCancelOrRemove, g
  <2> QED
    BY <1>7, <2>1 DEF r, w
<1>9. CASE g.tasks = <<>>
  <2> DEFINE x == IF w.obj[o].status = "canceled" THEN "willCancel" ELSE "willRemove"
  <2>1. r = [g EXCEPT !.status = x]
    BY <1>9 DEF DidCancelOrRemove, g
  <2>2. x # "succeeded" /\ x \in Status
    BY DEF Status
  <2> HIDE DEF x
  <2>3. Known(r)
    <3>1. g \in Managers
      BY <1>6 DEF Known
    <3>2. /\ r \in Managers /\ r.obj = g.obj /\ r.net = g.net /\ r.tasks = g.tasks
          /\ r.succeeded = g.succeeded /\ r.running = g.running /\ r.mapper = g.mapper
          /\ r.queue = g.queue
      BY <2>1, <2>2, <3>1 DEF Managers
    <3> HIDE DEF r
    <3> QED
      BY <1>6, <3>2 DEF Known, JobKnown
  <2> HIDE DEF r
  <2>4. Rest(r, fs, P, K, e, f)
    BY <1>6, <1>7, <1>9, <2>1, <2>2, <2>3, EmptyRest
  <2> QED
    BY <2>4 DEF r, w
<1> QED
  BY <1>8, <1>9
\* A task comes to its end other than by success.
LEMMA InterruptedRest ==
  ASSUME NEW s, NEW c, Good(s, c), NEW o \in DOMAIN s.obj, NEW fromRunning \in BOOLEAN,
         Whole(s) /\ Owned(s, c) /\ s.obj[o].status \notin {"willCancel", "willRemove"} =>
           s.obj[o].transfer = None /\ ~HasLocal(s.queue, o),
         s.obj[o].status \notin {"succeeded", "canceled", "removed"},
         NEW fs, NEW P, NEW L, NEW K, L \ {o} \subseteq K,
         NEW e \in {0, 1}, e = 1 => fromRunning, Rest(s, fs, P, L, e, e)
  PROVE  Rest(Interrupted(s, o, fromRunning), fs, P, K, 0, 0)
<1> DEFINE st == s.obj[o].status
           done == Ended(s, o)
<1>1. /\ Known(s) /\ s \in Managers /\ "suspended" \in Status /\ "failed" \in Status
      /\ e \in Nat /\ P \ {o} \subseteq P
  BY DEF Good, Known, Status
<1>2. st \in {"willCancel", "willRemove"} \/ st \notin Past
  BY DEF Past, Gone
<1>3. st \notin Past => (SettledTask(s, P, L, o) => Asked(s, o, P) /\ s.mapper[s.obj[o].url] # None)
  BY DEF SettledTask, Past, Gone
<1>4. ASSUME NEW x \in {"suspended", "failed"}, st \notin Past
      PROVE  Rest(SetStatus(s, o, x), fs, P, K, e, e)
  <2> DEFINE w == SetStatus(s, o, x)
  <2>1. /\ w.queue = s.queue /\ w.mapper = s.mapper /\ w.obj[o].url = s.obj[o].url
        /\ w.obj[o].status = x
    BY <1>1, SetStatusFields
  <2> HIDE DEF w
  <2>2. MayWait(s, w, fs, P, P, o)
    BY <2>1 DEF MayWait, Waits
  <2>3. SettledTask(s, P, L, o) => SettledTask(w, P, K, o)
    BY <1>3, <1>4, <2>1 DEF SettledTask, Asked
  <2>4. st \notin Gone
    BY <1>4 DEF Past
  <2> QED
    BY <1>1, <1>4, <2>2, <2>3, <2>4, SetStatusRest DEF w
<1>5. Rest(done, fs, P, K, e, e)
  <2>1. CASE st = "willCancel"
    <3>1. done = DidCancelOrRemove(SetStatus(s, o, "canceled"), o)
      BY <2>1 DEF Ended
    <3> HIDE DEF done
    <3> QED
      BY <1>1, <3>1, DropRest
  <2>2. CASE st = "willRemove"
    <3>1. done = DidCancelOrRemove(SetStatus(s, o, "removed"), o)
      BY <2>2 DEF Ended
    <3> HIDE DEF done
    <3> QED
      BY <1>1, <3>1, DropRest
  <2>3. CASE st = "suspended"
    <3>1. done = s
      BY <2>3 DEF Ended
    <3>2. MayWait(s, s, fs, P, P, o)
      BY <2>3 DEF MayWait, Waits
    <3>3. SettledTask(s, P, L, o) => SettledTask(s, P, K, o)
      BY <1>2, <1>3, <2>3 DEF SettledTask
    <3>4. Rest(s, fs, P, K, e, e)
      BY <1>1, <3>2, <3>3, SameRest
    <3> QED
      BY <3>1, <3>4
  <2>4. CASE st \notin {"willCancel", "willRemove", "suspended"}
    <3>1. done \in {SetStatus(s, o, "suspended"), SetStatus(s, o, "failed")}
      BY <2>4 DEF Ended
    <3>2. Rest(SetStatus(s, o, "suspended"), fs, P, K, e, e) /\ Rest(SetStatus(s, o, "failed"), fs, P, K, e, e)
      BY <1>2, <1>4, <2>4
    <3> HIDE DEF done
    <3> QED
      BY <3>1, <3>2
  <2> QED
    BY <2>1, <2>2, <2>3, <2>4
<1>6. Good(done, c)
  BY EndedGood
<1> HIDE DEF done
<1>7. Rest(DetermineStatus(done, fromRunning), fs, P, K, 0, 0)
  BY <1>5, <1>6, DetermineRest
<1>8. Interrupted(s, o, fromRunning) = DetermineStatus(done, fromRunning)
  BY DEF Interrupted, Ended, done
<1> QED
  BY <1>7, <1>8
-----------------------------------------------------------------------------
(***************************************************************************)
(* Waiting tasks and the blocks of the queue                               *)
(***************************************************************************)

\* A block is taken: it has to start the tasks P, to end the tasks L, and to offer a slot.
LEMMA TakenRest ==
  ASSUME NEW s, Known(s), s.queue # <<>>, NEW fs, NEW P, NEW L, NEW e \in {0, 1},
         \A o \in DOMAIN s.obj : Starts(Head(s.queue), o) => o \in P,
         \A o \in DOMAIN s.obj :
            IsLocal(Head(s.queue), o) /\ s.obj[o].status \in {"willCancel", "willRemove"} => o \in L,
         Head(s.queue).op = "next" => e = 1,
         Rest(s, fs, {}, {}, 0, 0)
  PROVE  Rest(Taken(s), fs, P, L, e, 0)
<1> DEFINE r == Taken(s)
           q == s.queue
<1>1. /\ r.obj = s.obj /\ r.net = s.net /\ r.mapper = s.mapper /\ r.running = s.running
      /\ r.tasks = s.tasks /\ r.succeeded = s.succeeded /\ r.status = s.status
      /\ r.queue = Tail(q) /\ q \in Seq(AllJobs) /\ r.apart = s.apart
  BY TakenFields
<1> HIDE DEF r
<1>2. /\ DOMAIN q = 1 .. Len(q) /\ Len(q) \in Nat /\ Head(q) = q[1]
      /\ DOMAIN r.queue = 1 .. (Len(q) - 1)
      /\ \A i \in DOMAIN r.queue : r.queue[i] = q[i + 1]
  BY <1>1, TakenLocal
<1>3. \A i \in DOMAIN q : i = 1 \/ (i - 1 \in DOMAIN r.queue /\ r.queue[i - 1] = q[i])
  BY <1>2
<1>4. /\ Cardinality(s.running) \in Nat /\ Limit \in Nat
      /\ \A p : Cardinality(NextAfter(q, p)) \in Nat /\ Cardinality(NextAfter(r.queue, p)) \in Nat
  <2>1. \A p : Cardinality(NextAfter(q, p)) \in Nat /\ Cardinality(NextAfter(r.queue, p)) \in Nat
    <3>1. r.queue \in Seq(AllJobs)
      BY <1>1, TakenLocal
    <3> QED
      BY <1>1, <3>1, NextsFinite
  <2> QED
    BY <2>1, FiniteSlots, LimitAssumption
<1>5. /\ \A p \in DOMAIN q : Enough(s, p, 0) => Enough(r, p - 1, 0)
      /\ Enough(s, 0, 0) => Enough(r, 0, e)
  <2>1. /\ \A p \in DOMAIN q : Cardinality(NextAfter(r.queue, p - 1)) = Cardinality(NextAfter(q, p))
        /\ Cardinality(NextAfter(q, 0)) <= Cardinality(NextAfter(r.queue, 0)) + 1
        /\ Head(q).op # "next" => Cardinality(NextAfter(q, 0)) <= Cardinality(NextAfter(r.queue, 0))
    BY <1>1, NextsTaken
  <2>2. ASSUME NEW p \in DOMAIN q, Enough(s, p, 0) PROVE Enough(r, p - 1, 0)
    BY <1>1, <2>1, <2>2 DEF Enough
  <2>3. ASSUME Enough(s, 0, 0) PROVE Enough(r, 0, e)
    <3>1. Cardinality(NextAfter(q, 0)) <= Cardinality(NextAfter(r.queue, 0)) + e
      BY <1>4, <2>1
    <3>2. Limit <= Cardinality(s.running) + Cardinality(NextAfter(q, 0)) + 0
      BY <2>3 DEF Enough
    <3> QED
      BY <1>1, <1>4, <3>1, <3>2 DEF Enough
  <2> QED
    BY <2>2, <2>3
<1>6. RecordedPast(r) /\ InOrder(r) /\ (~r.apart => TablesAgree(r))
  BY <1>1 DEF Rest, RecordedPast, InOrder, TablesAgree, Mapped
<1>7. \A o \in DOMAIN s.obj : Asked(s, o, {}) => Asked(r, o, P)
  BY <1>2, <1>3 DEF Asked
<1>8. ASSUME ~r.apart, Whole(r) PROVE Served(r, fs, P, e, 0)
  <2>1. Served(s, fs, {}, 0, 0)
    BY <1>1, <1>8 DEF Rest, Whole, Listed
  <2> SUFFICES ASSUME NEW b \in DOMAIN r.obj, Waits(r, b), ~Asked(r, b, P)
               PROVE  ServedTask(r, fs, e, P, 0, b)
    BY DEF Served
  <2>2. \A a \in DOMAIN s.obj : Waits(r, a) <=> Waits(s, a)
    BY <1>1 DEF Waits, Listed
  <2>3. ServedTask(s, fs, 0, {}, 0, b)
    BY <1>1, <1>7, <2>1, <2>2 DEF Served
  <2>4. ASSUME NEW a \in DOMAIN r.obj, Waits(r, a), r.obj[a].url \in fs, a < b
        PROVE  a \in P \/ \E p \in DOMAIN r.queue : Starts(r.queue[p], a) /\ Enough(r, p, 0)
    <3>1. PICK p \in DOMAIN q : Starts(q[p], a) /\ Enough(s, p, 0)
      BY <1>1, <2>2, <2>3, <2>4 DEF ServedTask, Before
    <3> QED
      BY <1>1, <1>2, <1>3, <1>5, <3>1
  <2>5. Before(r, fs, P, 0, b)
    BY <2>4 DEF Before
  <2> QED
    BY <1>1, <1>5, <2>3, <2>5 DEF ServedTask
<1>9. Settled(r, P, L)
  <2> SUFFICES ASSUME r.status = "succeeded", NEW i \in DOMAIN r.tasks
               PROVE  SettledTask(r, P, L, r.tasks[i])
    BY DEF Settled
  <2> DEFINE o == r.tasks[i]
  <2>1. SettledTask(s, {}, {}, o) /\ o \in DOMAIN s.obj
    <3>1. s.tasks \in Seq(DOMAIN s.obj)
      BY DEF Known
    <3> QED
      BY <1>1, <3>1 DEF Rest, Settled
  <2> HIDE DEF o
  <2>2. ASSUME s.obj[o].status \in {"willCancel", "willRemove"}, HasLocal(q, o)
        PROVE  HasLocal(r.queue, o) \/ o \in L
    <3>1. PICK j \in DOMAIN q : IsLocal(q[j], o)
      BY <2>2 DEF HasLocal
    <3> QED
      BY <1>2, <1>3, <2>1, <2>2, <3>1 DEF HasLocal
  <2>3. {"willCancel", "willRemove"} \subseteq Gone
    BY DEF Gone
  <2>4. SettledTask(r, P, L, o)
    BY <1>1, <1>7, <2>1, <2>2, <2>3 DEF SettledTask
  <2> QED
    BY <2>4 DEF o
<1> QED
  BY <1>6, <1>8, <1>9 DEF Rest, r

\* A task is ended by a block.
LEMMA LocallyRest ==
  ASSUME NEW s, NEW c, Good(s, c), s.queue # <<>>, NEW o \in DOMAIN s.obj,
         IsLocal(Head(s.queue), o), NEW fs, Rest(s, fs, {}, {}, 0, 0)
  PROVE  Rest(CompleteLocally(Taken(s), o), fs, {}, {}, 0, 0)
<1> DEFINE r == Taken(s)
           st == r.obj[o].status
<1>1. Known(s) /\ Good(r, c)
  BY TakenGood DEF Good
<1>2. /\ r.obj = s.obj /\ r.mapper = s.mapper
      /\ r.queue = Tail(s.queue) /\ s.queue \in Seq(AllJobs)
  BY <1>1, TakenFields
<1>3. ASSUME NEW L, st \in {"willCancel", "willRemove"} => o \in L
      PROVE  Rest(r, fs, {}, L, 0, 0)
  <2>1. \A p \in DOMAIN s.obj : Starts(Head(s.queue), p) => p \in {}
    BY DEF Starts, IsLocal
  <2>2. Head(s.queue).op # "next" /\ \A p : IsLocal(Head(s.queue), p) => p = o
    BY DEF IsLocal
  <2>3. \A p \in DOMAIN s.obj :
          IsLocal(Head(s.queue), p) /\ s.obj[p].status \in {"willCancel", "willRemove"} => p \in L
    BY <1>2, <1>3, <2>2
  <2> HIDE DEF r
  <2>4. Rest(Taken(s), fs, {}, L, 0, 0)
    BY <1>1, <2>1, <2>2, <2>3, TakenRest
  <2> QED
    BY <2>4 DEF r
<1> HIDE DEF r
<1>4. HasLocal(s.queue, o) /\ (OneLocal(s.queue, o) => ~HasLocal(r.queue, o))
  <2>1. Head(s.queue) = s.queue[1] /\ 1 \in DOMAIN s.queue
    BY <1>2, TakenLocal
  <2>2. OneLocal(s.queue, o) => ~HasLocal(r.queue, o)
    BY <1>2, TakenLocal
  <2> QED
    BY <2>1, <2>2 DEF HasLocal
<1>5. ASSUME Whole(r)
      PROVE  /\ st \in {"running", "willSuspend"} => r.obj[o].transfer = None /\ ~HasLocal(r.queue, o)
             /\ st = "running" => r.obj[o].url \in c
  <2>1. Whole(s)
    BY <1>2, <1>5 DEF Whole, Listed
  <2>2. EndsOnce(s, o) /\ BlockHasFile(s, o, c)
    BY <2>1 DEF Good, Owned
  <2> QED
    BY <1>2, <1>4, <2>2 DEF EndsOnce, BlockHasFile
<1>6. /\ o \in DOMAIN r.obj /\ 0 \in {0, 1} /\ FALSE \in BOOLEAN /\ 0 # 1
      /\ {o} \ {o} \subseteq {} /\ {} \ {o} \subseteq {}
  BY <1>2
<1>7. CASE st \in {"willSuspend", "willCancel", "willRemove"}
  <2>1. CompleteLocally(r, o) = Interrupted(r, o, FALSE)
    BY <1>7 DEF CompleteLocally
  <2>2. Whole(r) /\ Owned(r, c) /\ r.obj[o].status \notin {"willCancel", "willRemove"} =>
          r.obj[o].transfer = None /\ ~HasLocal(r.queue, o)
    BY <1>5, <1>7
  <2>3. Rest(r, fs, {}, {o}, 0, 0)
    BY <1>3
  <2>4. r.obj[o].status \notin {"succeeded", "canceled", "removed"}
    BY <1>7
  <2>5. Rest(Interrupted(r, o, FALSE), fs, {}, {}, 0, 0)
    BY <1>1, <1>6, <2>2, <2>3, <2>4, InterruptedRest
  <2> QED
    BY <2>1, <2>5 DEF r
<1>8. CASE st = "running"
  <2>1. CompleteLocally(r, o) = Succeeded(r, o, FALSE)
    BY <1>8 DEF CompleteLocally
  <2>2. Whole(r) /\ Owned(r, c) => r.obj[o].transfer = None /\ r.obj[o].url \in c
    BY <1>5, <1>8
  <2>3. Rest(r, fs, {}, {}, 0, 0)
    BY <1>3, <1>8
  <2>4. r.obj[o].status \notin Gone
    BY <1>8 DEF Gone
  <2>5. Rest(Succeeded(r, o, FALSE), fs, {}, {}, 0, 0)
    BY <1>1, <1>6, <2>2, <2>3, <2>4, SucceededRest
  <2> QED
    BY <2>1, <2>5 DEF r
<1>9. CASE st \notin {"willSuspend", "willCancel", "willRemove", "running"}
  <2>1. CompleteLocally(r, o) = r
    BY <1>9 DEF CompleteLocally
  <2>2. Rest(r, fs, {}, {}, 0, 0)
    BY <1>3, <1>9
  <2> QED
    BY <2>1, <2>2 DEF r
<1> QED
  BY <1>7, <1>8, <1>9
-----------------------------------------------------------------------------
(***************************************************************************)
(* Waiting tasks and the callbacks of the session                          *)
(***************************************************************************)

\* Only the transfers of the session change, and files are added that no waiting task needs.
LEMMA NetRest ==
  ASSUME NEW s, NEW r, r.obj = s.obj, r.mapper = s.mapper, r.running = s.running, r.tasks = s.tasks,
         r.succeeded = s.succeeded, r.status = s.status, r.queue = s.queue, r.apart = s.apart,
         NEW fs, NEW gs,
         Whole(s) => \A b \in DOMAIN s.obj : Waits(s, b) => (s.obj[b].url \in gs <=> s.obj[b].url \in fs),
         NEW P, NEW L, NEW e, NEW f, Rest(s, fs, P, L, e, f)
  PROVE  Rest(r, gs, P, L, e, f)
<1>1. RecordedPast(r) /\ InOrder(r) /\ (~r.apart => TablesAgree(r))
  BY DEF Rest, RecordedPast, InOrder, TablesAgree, Mapped
<1>2. \A b \in DOMAIN s.obj : /\ Waits(r, b) <=> Waits(s, b)
                              /\ Asked(r, b, P) <=> Asked(s, b, P)
  BY DEF Waits, Listed, Asked
<1>3. \A p, x : Enough(r, p, x) <=> Enough(s, p, x)
  BY DEF Enough
<1>4. ASSUME ~r.apart, Whole(r) PROVE Served(r, gs, P, e, f)
  <2>1. Whole(s)
    BY <1>4 DEF Whole, Listed
  <2>2. Served(s, fs, P, e, f)
    BY <1>4, <2>1 DEF Rest
  <2> SUFFICES ASSUME NEW b \in DOMAIN r.obj, Waits(r, b), ~Asked(r, b, P)
               PROVE  ServedTask(r, gs, e, P, f, b)
    BY DEF Served
  <2>3. ServedTask(s, fs, e, P, f, b)
    BY <1>2, <2>2 DEF Served
  <2>4. Before(r, gs, P, f, b)
    BY <1>2, <1>3, <2>1, <2>3 DEF Before, ServedTask
  <2> QED
    BY <1>2, <1>3, <2>1, <2>3, <2>4 DEF ServedTask
<1>5. Settled(r, P, L)
  BY DEF Rest, Settled, SettledTask, Asked
<1> QED
  BY <1>1, <1>4, <1>5 DEF Rest

\* A file is delivered: the task of its address has a slot and does not wait.
LEMMA DeliveredRest ==
  ASSUME NEW s, NEW c, Good(s, c), NEW t \in DOMAIN s.net, s.net[t].state \in {"active", "cut"},
         NEW fs, NEW gs, fs \subseteq gs, gs \subseteq fs \cup {s.net[t].url},
         Rest(s, fs, {}, {}, 0, 0)
  PROVE  Rest(SetTransfer(s, t, "finished"), gs, {}, {}, 0, 0)
<1> DEFINE r == SetTransfer(s, t, "finished")
           u == s.net[t].url
<1>1. Known(s)
  BY DEF Good
<1>2. /\ r.obj = s.obj /\ r.mapper = s.mapper /\ r.running = s.running /\ r.tasks = s.tasks
      /\ r.succeeded = s.succeeded /\ r.status = s.status /\ r.queue = s.queue
      /\ r.apart = s.apart
  BY <1>1, NetFields
<1> HIDE DEF r
<1>3. ASSUME Whole(s), NEW b \in DOMAIN s.obj, Waits(s, b)
      PROVE  s.obj[b].url # u
  <2> SUFFICES ASSUME s.obj[b].url = u PROVE FALSE
    OBVIOUS
  <2>1. Owned(s, c) /\ t \in Live(s)
    BY <1>3 DEF Good, Live
  <2>2. s.mapper[u] = b /\ b # None
    BY <1>1, <1>3, ObjectTypes DEF Waits, Listed, Known
  <2>3. s.obj[b].transfer = t
    BY <2>1, <2>2 DEF Owned, LiveIsListed
  <2>4. t # None
    BY <1>1, NetFields
  <2>5. HasSlot(s, b)
    BY <2>1 DEF Owned
  <2> QED
    BY <1>3, <2>3, <2>4, <2>5 DEF HasSlot, Waits, Stopping
<1>4. Whole(s) => \A b \in DOMAIN s.obj : Waits(s, b) => (s.obj[b].url \in gs <=> s.obj[b].url \in fs)
  BY <1>3
<1>5. Rest(r, gs, {}, {}, 0, 0)
  BY <1>2, <1>4, NetRest
<1> QED
  BY <1>5 DEF r

\* A slot is freed.
LEMMA FreedRest ==
  ASSUME NEW s, NEW c, Good(s, c), NEW t, NEW o, Finds(s, t, o), NEW r, Freed(s, r, t, o),
         NEW fs, Rest(s, fs, {}, {}, 0, 0)
  PROVE  Rest(r, fs, {}, {}, 1, 1)
<1>1. Known(s) /\ Known(r) /\ (Whole(r) => Whole(s)) /\ s.queue \in Seq(AllJobs)
  <2>1. Known(s)
    BY DEF Good
  <2>2. Known(r)
    BY <2>1, FreedKnown
  <2>3. Whole(r) => Whole(s)
    BY <2>1, FreedWhole
  <2>4. s.queue \in Seq(AllJobs)
    BY <2>1, FieldTypes DEF Known
  <2> QED
    BY <2>1, <2>2, <2>3, <2>4
<1>2. /\ r.mapper = s.mapper /\ r.tasks = s.tasks /\ r.succeeded = s.succeeded
      /\ r.queue = s.queue /\ r.status = s.status /\ r.apart = s.apart
      /\ DOMAIN r.obj = DOMAIN s.obj
      /\ \A p \in DOMAIN s.obj : r.obj[p].url = s.obj[p].url /\ r.obj[p].status = s.obj[p].status
  BY DEF Freed
<1>3. s.tasks \in Seq(DOMAIN s.obj) /\ s.succeeded \in Seq(DOMAIN s.obj)
  BY <1>1 DEF Known
<1>4. /\ \A i \in DOMAIN s.tasks : s.tasks[i] \in DOMAIN s.obj
      /\ \A i \in DOMAIN s.succeeded : s.succeeded[i] \in DOMAIN s.obj
  BY <1>3
<1>5. RecordedPast(r) /\ InOrder(r)
  BY <1>2, <1>4 DEF Rest, RecordedPast, InOrder
<1>6. ASSUME ~r.apart PROVE TablesAgree(r)
  <2>1. TablesAgree(s) /\ Mapped(r) = Mapped(s)
    BY <1>2, <1>6 DEF Rest, Mapped
  <2> QED
    BY <1>2, <1>4, <2>1 DEF TablesAgree
<1>7. ASSUME ~r.apart, Whole(r) PROVE Served(r, fs, {}, 1, 1)
  <2>1. Served(s, fs, {}, 0, 0)
    BY <1>1, <1>2, <1>7 DEF Rest
  <2>2. StillWaits(s, r, fs, {}, {})
    BY <1>2 DEF StillWaits, Waits, Listed
  <2>3. Extends(s.queue, r.queue, 0)
    BY <1>1, <1>2, ExtendsSelf
  <2>4. Cardinality(s.running) <= Cardinality(r.running) + 1
    <3>1. Owned(s, c)
      BY <1>1, <1>7 DEF Good
    <3>2. OnlyTransfer(s, o)
      BY <1>1, <1>7, <3>1, FoundIsOwner
    <3>3. s.running \subseteq r.running \cup {o}
      <4> SUFFICES ASSUME NEW p \in s.running, p \notin r.running PROVE p = o
        OBVIOUS
      <4>1. p \in DOMAIN s.obj /\ s.obj[p].url = s.obj[o].url
        BY <1>1 DEF Freed, Known
      <4>2. s.obj[p].transfer # None
        BY <3>1, <4>1 DEF Owned, HasSlot
      <4> QED
        BY <3>2, <4>1, <4>2 DEF OnlyTransfer
    <3>4. /\ IsFiniteSet(r.running) /\ Cardinality(r.running) \in Nat
          /\ Cardinality(s.running) \in Nat
      BY <1>1, FiniteSlots
    <3>5. /\ IsFiniteSet(r.running \cup {o})
          /\ Cardinality(r.running \cup {o}) \in {Cardinality(r.running), Cardinality(r.running) + 1}
      BY <3>4, FS_AddElement
    <3>6. Cardinality(s.running) <= Cardinality(r.running \cup {o})
      BY <3>3, <3>5, FS_Subset
    <3> QED
      BY <3>4, <3>5, <3>6
  <2>5. /\ 0 \in Nat /\ 1 \in Nat /\ 0 + 1 <= 1 + 0
        /\ r.status \in Stopping => s.status \in Stopping
        /\ \A p \in DOMAIN s.obj : p \in DOMAIN r.obj /\ r.obj[p].url = s.obj[p].url
    BY <1>2
  <2> QED
    BY <1>1, <2>1, <2>2, <2>3, <2>4, <2>5, ServedStays
<1>8. Settled(r, {}, {})
  <2> SUFFICES ASSUME r.status = "succeeded", NEW i \in DOMAIN r.tasks
               PROVE  SettledTask(r, {}, {}, r.tasks[i])
    BY DEF Settled
  <2>1. SettledTask(s, {}, {}, s.tasks[i]) /\ s.tasks[i] \in DOMAIN s.obj /\ r.tasks[i] = s.tasks[i]
    BY <1>2, <1>4 DEF Rest, Settled
  <2> QED
    BY <1>2, <2>1 DEF SettledTask, Asked
<1> QED
  BY <1>5, <1>6, <1>7, <1>8 DEF Rest

LEMMA OutcomeRest ==
  ASSUME NEW s, NEW c, Good(s, c), NEW o \in DOMAIN s.obj,
         NEW outcome \in {"ok", "failed", "system", "cancelled"},
         s.obj[o].status \in {"willSuspend", "running"},
         Whole(s) /\ Owned(s, c) =>
           /\ s.obj[o].transfer = None /\ ~HasLocal(s.queue, o)
           /\ outcome = "ok" => s.obj[o].url \in c,
         NEW fs, Rest(s, fs, {}, {}, 1, 1)
  PROVE  Rest(AfterOutcome(s, o, outcome), fs, {}, {}, 0, 0)
<1>1. /\ Known(s) /\ s \in Managers
      /\ {} \ {o} \subseteq {} /\ TRUE \in BOOLEAN /\ 1 \in {0, 1} /\ 1 \in Nat
  BY DEF Good, Known
<1>2. s.obj[o].status \notin Past /\ s.obj[o].status \notin Gone
  BY DEF Past, Gone
<1>3. CASE outcome = "ok"
  <2>1. AfterOutcome(s, o, outcome) = Succeeded(s, o, TRUE)
    BY <1>3 DEF AfterOutcome
  <2>2. Whole(s) /\ Owned(s, c) => s.obj[o].transfer = None /\ s.obj[o].url \in c
    BY <1>3
  <2>3. Rest(Succeeded(s, o, TRUE), fs, {}, {}, 0, 0)
    BY <1>1, <1>2, <2>2, SucceededRest
  <2> QED
    BY <2>1, <2>3
<1>4. ASSUME NEW st \in {"failed", "suspended"}
      PROVE  Rest(Interrupted(SetStatus(s, o, st), o, TRUE), fs, {}, {}, 0, 0)
  <2> DEFINE w == SetStatus(s, o, st)
  <2>1. st \in Status /\ st \notin {"running", "willSuspend", "succeeded", "willCancel", "willRemove"}
    BY DEF Status
  <2>2. Good(w, c)
    BY <2>1, SetStatusGood
  <2>3. /\ o \in DOMAIN w.obj /\ w.obj[o].status = st /\ w.obj[o].url = s.obj[o].url
        /\ w.queue = s.queue /\ w.mapper = s.mapper
    BY <1>1, <2>1, SetStatusFields
  <2> HIDE DEF w
  <2>4. Whole(w) /\ Owned(w, c) => w.obj[o].transfer = None /\ ~HasLocal(w.queue, o)
    BY <2>3, Startable
  <2>5. Rest(w, fs, {}, {}, 1, 1)
    <3>1. MayWait(s, w, fs, {}, {}, o)
      BY <2>3 DEF MayWait, Waits
    <3>2. SettledTask(s, {}, {}, o) => SettledTask(w, {}, {}, o)
      BY <1>2, <2>3 DEF SettledTask, Asked, Past, Gone
    <3> QED
      BY <1>1, <1>2, <2>1, <3>1, <3>2, SetStatusRest DEF w
  <2>6. w.obj[o].status \notin {"succeeded", "canceled", "removed"}
    BY <2>3
  <2>7. Rest(Interrupted(w, o, TRUE), fs, {}, {}, 0, 0)
    BY <1>1, <2>2, <2>3, <2>4, <2>5, <2>6, InterruptedRest
  <2> QED
    BY <2>7 DEF w
<1>5. CASE outcome \in {"failed", "system"}
  <2>1. AfterOutcome(s, o, outcome) = Interrupted(SetStatus(s, o, "failed"), o, TRUE)
        \/ AfterOutcome(s, o, outcome) = Interrupted(SetStatus(s, o, "suspended"), o, TRUE)
    BY <1>5 DEF AfterOutcome
  <2>2. /\ Rest(Interrupted(SetStatus(s, o, "failed"), o, TRUE), fs, {}, {}, 0, 0)
        /\ Rest(Interrupted(SetStatus(s, o, "suspended"), o, TRUE), fs, {}, {}, 0, 0)
    BY <1>4
  <2> QED
    BY <2>1, <2>2
<1>6. CASE outcome = "cancelled"
  <2>1. AfterOutcome(s, o, outcome) = Interrupted(s, o, TRUE)
    BY <1>6 DEF AfterOutcome
  <2>2. s.obj[o].status \notin {"succeeded", "canceled", "removed"}
    OBVIOUS
  <2>3. Whole(s) /\ Owned(s, c) /\ s.obj[o].status \notin {"willCancel", "willRemove"} =>
          s.obj[o].transfer = None /\ ~HasLocal(s.queue, o)
    OBVIOUS
  <2>4. Rest(Interrupted(s, o, TRUE), fs, {}, {}, 0, 0)
    BY <1>1, <2>2, <2>3, InterruptedRest
  <2> QED
    BY <2>1, <2>4
<1> QED
  BY <1>3, <1>5, <1>6

\* A transfer is complete, and the slot that it freed is offered.
LEMMA CompleteRest ==
  ASSUME NEW s, NEW c, Good(s, c), NEW t \in DOMAIN s.net,
         NEW outcome \in Outcomes(s.net[t].state), NEW fs, Rest(s, fs, {}, {}, 0, 0)
  PROVE  Rest(CompleteTransfer(s, t, outcome), fs, {}, {}, 0, 0)
<1> DEFINE o == s.mapper[s.net[t].url]
           w == SetTransfer(s, t, "done")
           r == FreeSlot(w, o)
<1>1. Known(s) /\ s.net \in Seq(Nets)
  BY FieldTypes DEF Good, Known
<1>2. /\ t \in Live(s) /\ outcome \in {"ok", "failed", "system", "cancelled"}
      /\ outcome = "ok" => s.net[t].state = "finished"
  <2>1. s.net[t].state \in {"active", "cut", "finished", "done"}
    <3>1. s.net[t] \in Nets
      BY <1>1
    <3> QED
      BY <3>1 DEF Nets
  <2>2. s.net[t].state # "done"
    BY DEF Outcomes
  <2> QED
    BY <2>1, <2>2 DEF Outcomes, Live
<1>3. /\ w.obj = s.obj /\ w.mapper = s.mapper /\ w.running = s.running
      /\ w.tasks = s.tasks /\ w.succeeded = s.succeeded /\ w.status = s.status
      /\ w.queue = s.queue /\ w.apart = s.apart
  BY <1>1, NetFields
<1>4. FetchTask(w, s.net[t].url) = o
  BY <1>3 DEF FetchTask
<1>5. CASE o = None
  <2>1. CompleteTransfer(s, t, outcome) = w
    BY <1>4, <1>5 DEF CompleteTransfer
  <2> HIDE DEF w
  <2>2. Rest(w, fs, {}, {}, 0, 0)
    BY <1>3, NetRest
  <2> QED
    BY <2>1, <2>2
<1>6. CASE o # None
  <2>1. Finds(s, t, o)
    BY <1>2, <1>6 DEF Finds
  <2> HIDE DEF o
  <2>2. Freed(s, r, t, o)
    BY <1>1, <2>1, FreeSlotFrees
  <2>3. CompleteTransfer(s, t, outcome) = CompleteFromNetwork(w, o, outcome)
    BY <1>4, <1>6 DEF CompleteTransfer
  <2>4. w.obj[o].status = s.obj[o].status
    BY <1>3
  <2> DEFINE d == CompleteFromNetwork(w, o, outcome)
             st == s.obj[o].status
  <2> HIDE DEF w
  <2>5. /\ st \in {"willCancel", "willRemove"} => d = Interrupted(r, o, TRUE)
        /\ st \in {"willSuspend", "running"} => d = AfterOutcome(r, o, outcome)
        /\ st \notin {"willCancel", "willRemove", "willSuspend", "running"} => d = r
    BY <2>4 DEF CompleteFromNetwork
  <2> HIDE DEF r
  <2>6. /\ o \in DOMAIN r.obj /\ r.obj[o].status = st /\ Good(r, c)
        /\ Whole(r) => Whole(s)
        /\ Whole(s) =>
             /\ r.obj[o].transfer = None
             /\ r.obj[o].status \in {"running", "willSuspend"} => ~HasLocal(r.queue, o)
             /\ s.net[t].state = "finished" => r.obj[o].url \in c
    BY <2>1, <2>2, FreedGood
  <2>7. Rest(r, fs, {}, {}, 1, 1)
    BY <2>1, <2>2, FreedRest
  <2>8. {} \ {o} \subseteq {} /\ TRUE \in BOOLEAN /\ 1 \in {0, 1}
    OBVIOUS
  <2> HIDE DEF d
  <2>9. CASE st \in {"willCancel", "willRemove"}
    <3>1. d = Interrupted(r, o, TRUE)
      BY <2>5, <2>9
    <3>2. r.obj[o].status \notin {"succeeded", "canceled", "removed"}
      BY <2>6, <2>9
    <3>3. Whole(r) /\ Owned(r, c) /\ r.obj[o].status \notin {"willCancel", "willRemove"} =>
            r.obj[o].transfer = None /\ ~HasLocal(r.queue, o)
      BY <2>6, <2>9
    <3>4. Rest(Interrupted(r, o, TRUE), fs, {}, {}, 0, 0)
      BY <2>6, <2>7, <2>8, <3>2, <3>3, InterruptedRest
    <3> QED
      BY <2>3, <3>1, <3>4 DEF d
  <2>10. CASE st \in {"willSuspend", "running"}
    <3>1. d = AfterOutcome(r, o, outcome)
      BY <2>5, <2>10
    <3>2. Whole(r) /\ Owned(r, c) =>
            /\ r.obj[o].transfer = None /\ ~HasLocal(r.queue, o)
            /\ outcome = "ok" => r.obj[o].url \in c
      BY <1>2, <2>6, <2>10
    <3>3. r.obj[o].status \in {"willSuspend", "running"}
      BY <2>6, <2>10
    <3>4. Rest(AfterOutcome(r, o, outcome), fs, {}, {}, 0, 0)
      BY <1>2, <2>6, <2>7, <3>2, <3>3, OutcomeRest
    <3> QED
      BY <2>3, <3>1, <3>4 DEF d
  \* A task with a transfer runs or is to be stopped, unless one is forgotten.
  <2>11. CASE st \notin {"willCancel", "willRemove", "willSuspend", "running"}
    <3>1. d = r
      BY <2>5, <2>11
    <3>2. ~Whole(r)
      <4> SUFFICES ASSUME Whole(r) PROVE FALSE
        OBVIOUS
      <4>1. Whole(s) /\ Owned(s, c)
        BY <2>6 DEF Good
      <4>2. s.obj[o].transfer = t /\ t # None /\ o \in DOMAIN s.obj
        <5>1. s.obj[o].transfer = t
          BY <2>1, <4>1 DEF Finds, Owned, LiveIsListed
        <5>2. t # None /\ o \in DOMAIN s.obj
          BY <1>1, <2>1, FindsFields
        <5> QED
          BY <5>1, <5>2
      <4>3. HasSlot(s, o)
        BY <4>1, <4>2 DEF Owned
      <4> QED
        BY <2>11, <4>2, <4>3 DEF HasSlot, Stopping
    <3>3. Rest(r, fs, {}, {}, 0, 0)
      BY <2>7, <3>2, RestAsked
    <3> QED
      BY <2>3, <3>1, <3>3 DEF d
  <2> QED
    BY <2>9, <2>10, <2>11
<1> QED
  BY <1>5, <1>6
-----------------------------------------------------------------------------
(***************************************************************************)
(* Waiting tasks, new tasks and blocks for several tasks                   *)
(***************************************************************************)

\* With more tasks still to be started, no less is said of the others.
LEMMA RestMore ==
  ASSUME NEW s, NEW fs, NEW P, NEW Q, P \subseteq Q, NEW L, NEW e, NEW f, Rest(s, fs, P, L, e, f)
  PROVE  Rest(s, fs, Q, L, e, f)
<1>1. \A o : Asked(s, o, P) => Asked(s, o, Q)
  BY DEF Asked
<1>2. ASSUME Served(s, fs, P, e, f) PROVE Served(s, fs, Q, e, f)
  <2> SUFFICES ASSUME NEW b \in DOMAIN s.obj, Waits(s, b), ~Asked(s, b, Q)
               PROVE  ServedTask(s, fs, e, Q, f, b)
    BY DEF Served
  <2>1. ServedTask(s, fs, e, P, f, b)
    BY <1>1, <1>2 DEF Served
  <2> QED
    BY <2>1 DEF ServedTask, Before
<1>3. Settled(s, P, L) => Settled(s, Q, L)
  BY <1>1 DEF Settled, SettledTask
<1> QED
  BY <1>2, <1>3 DEF Rest

\* A new task waits, and is still to be started.
LEMMA NewTaskRest ==
  ASSUME NEW s, Known(s), NEW u \in Urls, s.mapper[u] = None,
         NEW fs, NEW P, Len(s.obj) + 1 \in P, NEW L, NEW e, NEW f, Rest(s, fs, P, L, e, f)
  PROVE  Rest(NewTask(s, u), fs, P, L, e, f)
<1> DEFINE r == NewTask(s, u)
           o == Len(s.obj) + 1
           n == Len(s.tasks)
<1>1. /\ DOMAIN s.obj = 1 .. Len(s.obj) /\ Len(s.obj) \in Nat
      /\ s.tasks \in Seq(DOMAIN s.obj) /\ s.succeeded \in Seq(DOMAIN s.obj)
  BY FieldTypes DEF Known
<1>2. /\ o \notin DOMAIN s.obj /\ DOMAIN r.obj = DOMAIN s.obj \cup {o} /\ o # None
      /\ r.obj[o] = [url |-> u, status |-> "waiting", transfer |-> None]
      /\ \A p \in DOMAIN s.obj : r.obj[p] = s.obj[p]
      /\ r.mapper[u] = o /\ \A x \in Urls : x # u => r.mapper[x] = s.mapper[x]
      /\ r.tasks = Append(s.tasks, o)
      /\ r.status = s.status /\ r.succeeded = s.succeeded /\ r.running = s.running
      /\ r.net = s.net /\ r.queue = s.queue /\ r.apart = s.apart
  BY NewTaskFields
<1>3. r.obj[o].url = u /\ r.obj[o].status = "waiting" /\ r.obj[o].transfer = None
  BY <1>2
<1>4. \A p \in DOMAIN s.obj : p < o /\ p # o /\ p # None /\ s.obj[p].url \in Urls
  <2>1. \A p \in DOMAIN s.obj : p # None /\ s.obj[p].url \in Urls
    BY ObjectTypes DEF Known
  <2> QED
    BY <1>1, <2>1
<1>5. /\ DOMAIN s.tasks = 1 .. n /\ n \in Nat /\ DOMAIN r.tasks = 1 .. n + 1
      /\ r.tasks[n + 1] = o
      /\ \A i \in DOMAIN s.tasks : r.tasks[i] = s.tasks[i] /\ s.tasks[i] \in DOMAIN s.obj
      /\ \A i \in DOMAIN s.succeeded : s.succeeded[i] \in DOMAIN s.obj
  <2>1. r.tasks = Append(s.tasks, o)
    BY <1>2
  <2> HIDE DEF r, o
  <2>2. /\ DOMAIN s.tasks = 1 .. n /\ n \in Nat
        /\ \A i \in DOMAIN s.tasks : s.tasks[i] \in DOMAIN s.obj
    BY <1>1
  <2>3. \A i \in DOMAIN s.succeeded : s.succeeded[i] \in DOMAIN s.obj
    BY <1>1
  <2>4. DOMAIN r.tasks = 1 .. n + 1 /\ r.tasks[n + 1] = o
    BY <1>1, <2>1
  <2>5. \A i \in DOMAIN s.tasks : r.tasks[i] = s.tasks[i]
    <3> DEFINE q == s.tasks
    <3>1. q \in Seq(DOMAIN s.obj) /\ r.tasks = Append(q, o)
      BY <1>1, <2>1
    <3> HIDE DEF q, n
    <3>2. \A i \in DOMAIN q : Append(q, o)[i] = q[i]
      BY <3>1
    <3> QED
      BY <3>1, <3>2 DEF q
  <2> QED
    BY <2>2, <2>3, <2>4, <2>5
<1> HIDE DEF r, o, n
<1>6. \A i \in DOMAIN r.tasks : i = n + 1 \/ i \in DOMAIN s.tasks
  BY <1>5
<1>7. RecordedPast(r)
  BY <1>2, <1>5 DEF Rest, RecordedPast
<1>8. InOrder(r)
  <2> SUFFICES ASSUME NEW i \in DOMAIN r.tasks, NEW j \in DOMAIN r.tasks, i < j,
                      r.obj[r.tasks[i]].status \notin Past, r.obj[r.tasks[j]].status \notin Past
               PROVE  r.tasks[i] <= r.tasks[j]
    BY DEF InOrder
  <2>1. i \in DOMAIN s.tasks
    BY <1>5
  <2>2. CASE j = n + 1
    <3>1. s.tasks[i] \in Nat /\ o \in Nat
      BY <1>1, <1>5, <2>1 DEF o
    <3> QED
      BY <1>4, <1>5, <2>1, <2>2, <3>1
  <2>3. CASE j \in DOMAIN s.tasks
    BY <1>2, <1>5, <2>1, <2>3 DEF Rest, InOrder
  <2> QED
    BY <1>6, <2>2, <2>3
<1>9. ASSUME ~r.apart PROVE TablesAgree(r)
  <2>1. TablesAgree(s)
    BY <1>2, <1>9 DEF Rest
  <2>2. ASSUME NEW x \in Mapped(r) PROVE \E i \in DOMAIN r.tasks : r.tasks[i] = r.mapper[x]
    <3>1. CASE x = u
      <4>1. n + 1 \in DOMAIN r.tasks
        BY <1>5
      <4> QED
        BY <1>2, <1>5, <3>1, <4>1
    <3>2. CASE x # u
      <4>1. x \in Mapped(s) /\ r.mapper[x] = s.mapper[x]
        BY <1>2, <2>2, <3>2 DEF Mapped
      <4>2. PICK i \in DOMAIN s.tasks : s.tasks[i] = s.mapper[x]
        BY <2>1, <4>1 DEF TablesAgree
      <4>3. i \in DOMAIN r.tasks
        BY <1>5
      <4> QED
        BY <1>5, <4>1, <4>2, <4>3
    <3> QED
      BY <3>1, <3>2
  <2>3. ASSUME NEW i \in DOMAIN r.tasks
        PROVE  \/ r.mapper[r.obj[r.tasks[i]].url] = r.tasks[i]
               \/ r.obj[r.tasks[i]].status \in Gone
    <3>1. CASE i = n + 1
      BY <1>2, <1>3, <1>5, <3>1
    <3>2. CASE i \in DOMAIN s.tasks
      <4> DEFINE p == s.tasks[i]
      <4>1. s.mapper[s.obj[p].url] = p \/ s.obj[p].status \in Gone
        BY <2>1, <3>2 DEF TablesAgree
      <4>2. p \in DOMAIN s.obj /\ r.tasks[i] = p
        BY <1>5, <3>2
      <4>3. s.mapper[s.obj[p].url] = p => r.mapper[s.obj[p].url] = p
        BY <1>2, <1>4, <4>2
      <4> QED
        BY <1>2, <4>1, <4>2, <4>3
    <3> QED
      BY <1>6, <3>1, <3>2
  <2> QED
    BY <2>2, <2>3 DEF TablesAgree
<1>10. \A p \in DOMAIN s.obj : Listed(r, p) => Listed(s, p)
  BY <1>2, <1>4 DEF Listed
<1>11. ASSUME ~r.apart, Whole(r) PROVE Served(r, fs, P, e, f)
  <2>1. Whole(s)
    BY <1>2, <1>10, <1>11 DEF Whole
  <2>2. Served(s, fs, P, e, f)
    BY <1>2, <1>11, <2>1 DEF Rest
  <2> SUFFICES ASSUME NEW b \in DOMAIN r.obj, Waits(r, b), ~Asked(r, b, P)
               PROVE  ServedTask(r, fs, e, P, f, b)
    BY DEF Served
  <2>3. \A a \in DOMAIN s.obj : Waits(r, a) => Waits(s, a)
    BY <1>2, <1>10 DEF Waits
  <2>4. o \in P
    BY DEF o
  <2>5. b \in DOMAIN s.obj /\ ~Asked(s, b, P)
    BY <1>2, <2>4 DEF Asked
  <2>6. ServedTask(s, fs, e, P, f, b)
    BY <2>2, <2>3, <2>5 DEF Served
  <2>7. \A p, x : Enough(s, p, x) => Enough(r, p, x)
    BY <1>2 DEF Enough
  <2>8. ASSUME NEW a \in DOMAIN r.obj, Waits(r, a), r.obj[a].url \in fs, a < b
        PROVE  a \in P \/ \E p \in DOMAIN r.queue : Starts(r.queue[p], a) /\ Enough(r, p, f)
    <3>1. CASE a = o
      BY <2>4, <3>1
    <3>2. CASE a # o
      <4>1. a \in DOMAIN s.obj /\ Waits(s, a) /\ s.obj[a].url \in fs
        BY <1>2, <2>3, <2>8, <3>2
      <4>2. a \in P \/ \E p \in DOMAIN s.queue : Starts(s.queue[p], a) /\ Enough(s, p, f)
        BY <2>6, <2>8, <4>1 DEF ServedTask, Before
      <4> QED
        BY <1>2, <2>7, <4>2
    <3> QED
      BY <3>1, <3>2
  <2>9. Before(r, fs, P, f, b)
    BY <2>8 DEF Before
  <2> QED
    BY <1>2, <2>5, <2>6, <2>7, <2>9 DEF ServedTask
<1>12. Settled(r, P, L)
  <2> SUFFICES ASSUME r.status = "succeeded", NEW i \in DOMAIN r.tasks
               PROVE  SettledTask(r, P, L, r.tasks[i])
    BY DEF Settled
  <2>1. CASE i = n + 1
    <3>1. Asked(r, o, P) /\ r.mapper[r.obj[o].url] # None
      BY <1>2, <1>3 DEF Asked, o
    <3> QED
      BY <1>5, <2>1, <3>1 DEF SettledTask
  <2>2. CASE i \in DOMAIN s.tasks
    <3> DEFINE p == s.tasks[i]
    <3>1. SettledTask(s, P, L, p)
      BY <1>2, <2>2 DEF Rest, Settled
    <3>2. p \in DOMAIN s.obj /\ r.tasks[i] = p
      BY <1>5, <2>2
    <3> HIDE DEF p
    <3>3. s.mapper[s.obj[p].url] # None => r.mapper[s.obj[p].url] # None
      BY <1>2, <1>4, <3>2
    <3>4. SettledTask(r, P, L, p)
      BY <1>2, <3>1, <3>2, <3>3 DEF SettledTask, Asked
    <3> QED
      BY <3>2, <3>4
  <2> QED
    BY <1>6, <2>1, <2>2
<1>13. Rest(r, fs, P, L, e, f)
  BY <1>7, <1>8, <1>9, <1>11, <1>12 DEF Rest
<1> QED
  BY <1>13 DEF r
\* The tasks that were made since there were k of them
Newer(k) == {o \in Nat : k < o}

\* The newer tasks are those of the first k addresses of a list.
NewerAre(r, n, q, k) ==
  \A o \in DOMAIN r.obj : o \in Newer(n) => \E j \in 1 .. k : r.mapper[q[j]] = o

LEMMA FindOrMakeRest ==
  ASSUME NEW s, NEW c, Good(s, c), NEW u \in Urls,
         NEW fs, NEW n \in Nat, n <= Len(s.obj), NEW L, Rest(s, fs, Newer(n), L, 0, 0)
  PROVE  LET r == FindOrMakeTask(s, u)
         IN  /\ Good(r, c) /\ Rest(r, fs, Newer(n), L, 0, 0) /\ n <= Len(r.obj)
             /\ \A o \in DOMAIN r.obj : o \in DOMAIN s.obj \/ o = r.mapper[u]
             /\ \A x \in Urls : s.mapper[x] # None => r.mapper[x] = s.mapper[x]
<1> DEFINE r == FindOrMakeTask(s, u)
<1>1. Known(s) /\ Good(r, c)
  BY FindOrMakeGood DEF Good
<1>2. CASE s.mapper[u] # None
  <2>1. r = s
    BY <1>2 DEF FindOrMakeTask, FetchTask
  <2> QED
    BY <1>1, <2>1
<1>3. CASE s.mapper[u] = None
  <2> DEFINE o == Len(s.obj) + 1
  <2>1. r = NewTask(s, u)
    BY <1>3 DEF FindOrMakeTask, FetchTask
  <2>2. DOMAIN s.obj = 1 .. Len(s.obj) /\ Len(s.obj) \in Nat
    BY <1>1, FieldTypes DEF Known
  <2>3. o \in Newer(n)
    BY <2>2 DEF Newer
  <2>4. Rest(NewTask(s, u), fs, Newer(n), L, 0, 0)
    BY <1>1, <1>3, <2>3, NewTaskRest
  <2> DEFINE w == NewTask(s, u)
  <2>5. /\ w \in Managers
        /\ o \notin DOMAIN s.obj /\ DOMAIN w.obj = DOMAIN s.obj \cup {o} /\ o # None
        /\ w.obj[o] = [url |-> u, status |-> "waiting", transfer |-> None]
        /\ \A p \in DOMAIN s.obj : w.obj[p] = s.obj[p]
        /\ w.mapper[u] = o /\ \A x \in Urls : x # u => w.mapper[x] = s.mapper[x]
    BY <1>1, NewTaskFields
  <2> HIDE DEF r, w
  <2>6. /\ r \in Managers /\ DOMAIN r.obj = DOMAIN s.obj \cup {o}
        /\ r.mapper[u] = o /\ \A x \in Urls : x # u => r.mapper[x] = s.mapper[x]
    BY <2>1, <2>5 DEF w
  <2>7. DOMAIN r.obj = 1 .. Len(r.obj) /\ Len(r.obj) \in Nat
    <3>1. r \in Managers
      BY <2>6
    <3>2. r.obj \in Seq(Objects)
      BY <3>1, FieldTypes
    <3> QED
      BY <3>2
  <2>8. n <= Len(r.obj)
    <3>1. o \in 1 .. Len(r.obj)
      BY <2>6, <2>7
    <3> QED
      BY <2>2, <2>7, <3>1
  <2>9. Rest(r, fs, Newer(n), L, 0, 0)
    BY <2>1, <2>4
  <2> QED
    BY <1>1, <1>3, <2>6, <2>8, <2>9 DEF r
<1> QED
  BY <1>2, <1>3

\* Tasks are made for a list of addresses.
LEMMA AppendRest ==
  ASSUME NEW s, NEW c, Good(s, c), NEW q \in Seq(Urls), NEW fs, NEW L, Rest(s, fs, {}, L, 0, 0)
  PROVE  LET r == ForEach(s, "append", q)
         IN  /\ Rest(r, fs, Newer(Len(s.obj)), L, 0, 0)
             /\ NewerAre(r, Len(s.obj), q, Len(q))
<1> DEFINE n == Len(s.obj)
           Fine(r, k) ==
             /\ Good(r, c) /\ Rest(r, fs, Newer(n), L, 0, 0) /\ n <= Len(r.obj)
             /\ NewerAre(r, n, q, k)
<1>1. PICK f : Passes(f, s, "append", q)
  BY ForEachPasses
<1>2. Len(q) \in Nat /\ DOMAIN q = 1 .. Len(q) /\ \A j \in 1 .. Len(q) : q[j] \in Urls
  OBVIOUS
<1>3. DOMAIN s.obj = 1 .. n /\ n \in Nat
  BY FieldTypes DEF Good, Known
<1> HIDE DEF n
<1>4. Fine(s, 0)
  <2>1. Rest(s, fs, Newer(n), L, 0, 0)
    <3>1. {} \subseteq Newer(n)
      OBVIOUS
    <3> QED
      BY <3>1, RestMore
  <2>2. NewerAre(s, n, q, 0)
    BY <1>3 DEF NewerAre, Newer
  <2>3. n <= Len(s.obj)
    BY <1>3 DEF n
  <2> QED
    BY <2>1, <2>2, <2>3
<1>5. f[0] = s
  BY <1>1 DEF Passes
<1>6. ASSUME NEW i \in 1 .. Len(q), Fine(f[i - 1], i - 1) PROVE Fine(f[i], i)
  <2> DEFINE r == f[i - 1]
             w == FindOrMakeTask(r, q[i])
  <2>1. /\ Good(r, c) /\ Rest(r, fs, Newer(n), L, 0, 0) /\ n <= Len(r.obj)
        /\ NewerAre(r, n, q, i - 1)
    BY <1>6
  <2>2. f[i] = w
    BY <1>1 DEF Passes, Each
  <2> HIDE DEF r
  <2>3. /\ Good(w, c) /\ Rest(w, fs, Newer(n), L, 0, 0) /\ n <= Len(w.obj)
        /\ \A o \in DOMAIN w.obj : o \in DOMAIN r.obj \/ o = w.mapper[q[i]]
        /\ \A x \in Urls : r.mapper[x] # None => w.mapper[x] = r.mapper[x]
    BY <1>2, <1>3, <2>1, FindOrMakeRest
  <2> HIDE DEF w
  <2>4. NewerAre(w, n, q, i)
    <3> SUFFICES ASSUME NEW o \in DOMAIN w.obj, o \in Newer(n)
                 PROVE  \E j \in 1 .. i : w.mapper[q[j]] = o
      BY DEF NewerAre
    <3>1. i \in 1 .. i /\ (\A j \in 1 .. i - 1 : j \in 1 .. i /\ j \in 1 .. Len(q))
      BY <1>2
    <3>2. CASE o = w.mapper[q[i]]
      BY <3>1, <3>2
    <3>3. CASE o \in DOMAIN r.obj
      <4>1. PICK j \in 1 .. i - 1 : r.mapper[q[j]] = o
        BY <2>1, <3>3 DEF NewerAre
      <4>2. o # None
        BY <1>3 DEF Newer, None
      <4>3. w.mapper[q[j]] = o
        BY <1>2, <2>3, <3>1, <4>1, <4>2
      <4> QED
        BY <3>1, <4>3
    <3> QED
      BY <2>3, <3>2, <3>3
  <2> QED
    BY <2>2, <2>3, <2>4
<1> HIDE DEF Fine
<1>7. \A i \in 0 .. Len(q) : Fine(f[i], i)
  <2> DEFINE T == {i \in 0 .. Len(q) : ~Fine(f[i], i)}
  <2> SUFFICES ASSUME T # {} PROVE FALSE
    OBVIOUS
  <2>1. PICK i \in T : \A j \in T : i <= j
    <3>1. T \in SUBSET Nat
      BY <1>2
    <3> HIDE DEF T
    <3> QED
      BY <3>1, LeastNumber
  <2>2. i \in 0 .. Len(q) /\ ~Fine(f[i], i)
    BY <2>1
  <2>3. i \in 1 .. Len(q) /\ i - 1 \in 0 .. Len(q) /\ ~(i <= i - 1)
    BY <1>2, <1>4, <1>5, <2>2
  <2>4. i - 1 \notin T
    BY <2>1, <2>3
  <2>5. Fine(f[i - 1], i - 1)
    BY <2>3, <2>4
  <2> QED
    BY <1>6, <2>2, <2>3, <2>5
<1>8. Fine(f[Len(q)], Len(q))
  BY <1>2, <1>7
<1>9. ForEach(s, "append", q) = f[Len(q)]
  BY <1>1 DEF Passes
<1> QED
  BY <1>8, <1>9 DEF Fine, n

\* The tasks that are still to be started are started by a block, which is posted.
LEMMA PostRest ==
  ASSUME NEW s, NEW c, Good(s, c), NEW n \in Nat, NEW fs, NEW L, Rest(s, fs, Newer(n), L, 0, 0),
         NEW job \in AllJobs, job.op # "local", JobKnown(s, job),
         \A o \in DOMAIN s.obj : o \in Newer(n) /\ s.mapper[s.obj[o].url] # None => Starts(job, o)
  PROVE  Rest(Async(StoreTasks(s), job), fs, {}, L, 0, 0)
<1> DEFINE v == StoreTasks(s)
           r == Async(v, job)
           k == Len(s.queue) + 1
<1>1. Known(s) /\ s.queue \in Seq(AllJobs)
  BY FieldTypes DEF Good, Known
<1>2. Quiet(s, r) /\ r.status = s.status /\ r.queue = Append(s.queue, job)
  <2>1. Quiet(s, v) /\ v.status = s.status
    BY <1>1, QuietSelf, StoreQuiet
  <2>2. v.queue = s.queue
    BY <1>1 DEF Known, Managers, StoreTasks
  <2>3. v \in Managers
    BY <2>1 DEF Quiet, Alike
  <2> HIDE DEF v
  <2>4. Quiet(s, r) /\ r.status = v.status
    BY <1>1, <2>1, <2>2, PostQuiet
  <2>5. r.queue = Append(v.queue, job)
    BY <2>3 DEF Async, Managers
  <2> QED
    BY <2>1, <2>2, <2>4, <2>5
<1>3. Known(r)
  BY <1>2, QuietGood DEF Good
<1> HIDE DEF r
<1>4. /\ r.obj = s.obj /\ r.net = s.net /\ r.mapper = s.mapper /\ r.running = s.running
      /\ r.tasks = s.tasks /\ r.succeeded = s.succeeded /\ r.apart = s.apart
  BY <1>2 DEF Quiet, Alike
<1>5. Extends(s.queue, r.queue, 0)
  BY <1>1, <1>2, ExtendsPosted
<1>6. /\ \A i \in DOMAIN s.queue : i \in DOMAIN r.queue /\ r.queue[i] = s.queue[i]
      /\ k \in DOMAIN r.queue /\ r.queue[k] = job
  BY <1>1, <1>2, Posted
<1>7. \A o \in DOMAIN s.obj : s.mapper[s.obj[o].url] # None /\ Asked(s, o, Newer(n)) => Asked(r, o, {})
  BY <1>6 DEF Asked
<1>8. \A o \in DOMAIN s.obj : o # None /\ o \in Nat
  BY <1>1, ObjectTypes DEF Known
<1>9. /\ RecordedPast(r) /\ InOrder(r) /\ (~r.apart => TablesAgree(r))
  BY <1>4 DEF Rest, RecordedPast, InOrder, TablesAgree, Mapped
<1>10. ASSUME ~r.apart, Whole(r) PROVE Served(r, fs, {}, 0, 0)
  <2>1. Served(s, fs, Newer(n), 0, 0)
    BY <1>4, <1>10 DEF Rest, Whole, Listed
  <2>2. \A p \in DOMAIN s.queue \cup {0} : Enough(s, p, 0) => Enough(r, p, 0)
    <3>1. Cardinality(s.running) <= Cardinality(r.running) + 0 /\ 0 \in Nat /\ 0 + 0 <= 0 + 0
      <4>1. Cardinality(s.running) \in Nat
        BY <1>1, FiniteSlots
      <4> QED
        BY <1>4, <4>1
    <3> QED
      BY <1>1, <1>3, <1>5, <3>1, EnoughStays
  <2> SUFFICES ASSUME NEW b \in DOMAIN r.obj, Waits(r, b), ~Asked(r, b, {})
               PROVE  ServedTask(r, fs, 0, {}, 0, b)
    BY DEF Served
  <2>3. \A a \in DOMAIN s.obj : /\ Waits(r, a) <=> Waits(s, a)
                                /\ Waits(s, a) => s.mapper[s.obj[a].url] # None
    BY <1>4, <1>8 DEF Waits, Listed
  <2>4. b \in DOMAIN s.obj /\ Waits(s, b) /\ ~Asked(s, b, Newer(n))
    BY <1>4, <1>7, <2>3
  <2>5. ServedTask(s, fs, 0, Newer(n), 0, b) /\ b \notin Newer(n)
    BY <2>1, <2>4 DEF Served, Asked
  <2>6. ASSUME NEW a \in DOMAIN r.obj, Waits(r, a), r.obj[a].url \in fs, a < b
        PROVE  \E p \in DOMAIN r.queue : Starts(r.queue[p], a) /\ Enough(r, p, 0)
    <3>1. a \notin Newer(n)
      BY <1>4, <1>8, <2>4, <2>5, <2>6 DEF Newer
    <3>2. PICK p \in DOMAIN s.queue : Starts(s.queue[p], a) /\ Enough(s, p, 0)
      BY <1>4, <2>3, <2>5, <2>6, <3>1 DEF ServedTask, Before
    <3> QED
      BY <1>6, <2>2, <3>2
  <2>7. Before(r, fs, {}, 0, b)
    BY <2>6 DEF Before
  <2> QED
    BY <1>2, <1>4, <2>2, <2>5, <2>7 DEF ServedTask
<1>11. Settled(r, {}, L)
  <2> SUFFICES ASSUME r.status = "succeeded", NEW i \in DOMAIN r.tasks
               PROVE  SettledTask(r, {}, L, r.tasks[i])
    BY DEF Settled
  <2> DEFINE o == r.tasks[i]
  <2>1. SettledTask(s, Newer(n), L, o) /\ o \in DOMAIN s.obj
    <3>1. s.tasks \in Seq(DOMAIN s.obj)
      BY <1>1 DEF Known
    <3> QED
      BY <1>2, <1>4, <3>1 DEF Rest, Settled
  <2> HIDE DEF o
  <2>2. HasLocal(s.queue, o) => HasLocal(r.queue, o)
    BY <1>6 DEF HasLocal
  <2>3. SettledTask(r, {}, L, o)
    BY <1>4, <1>7, <2>1, <2>2 DEF SettledTask
  <2> QED
    BY <2>3 DEF o
<1>12. Rest(r, fs, {}, L, 0, 0)
  BY <1>9, <1>10, <1>11 DEF Rest
<1> QED
  BY <1>12 DEF r
LEMMA DownloadBlockRest ==
  ASSUME NEW s, NEW c, Good(s, c), NEW u \in Urls, NEW fs, Rest(s, fs, {}, {}, 0, 0)
  PROVE  Rest(DownloadBlock(s, u), fs, {}, {}, 0, 0)
<1> DEFINE r == FindOrMakeTask(s, u)
           n == Len(s.obj)
           job == [op |-> "startTask", task |-> FetchTask(r, u)]
<1>1. DOMAIN s.obj = 1 .. n /\ n \in Nat /\ n <= Len(s.obj)
  BY FieldTypes DEF Good, Known
<1>2. Rest(s, fs, Newer(n), {}, 0, 0)
  <2>1. {} \subseteq Newer(n)
    OBVIOUS
  <2> QED
    BY <2>1, RestMore
<1>3. Good(r, c) /\ r.mapper[u] # None
  BY FindOrMakeGood
<1>4. DownloadBlock(s, u) = Async(StoreTasks(r), job)
  BY DEF DownloadBlock
<1> HIDE DEF n
<1>5. /\ Rest(r, fs, Newer(n), {}, 0, 0)
      /\ \A o \in DOMAIN r.obj : o \in DOMAIN s.obj \/ o = r.mapper[u]
  BY <1>1, <1>2, FindOrMakeRest
<1> HIDE DEF r
<1>6. r.mapper[u] \in DOMAIN r.obj /\ r.mapper[u] \in Nat
  <2>1. Known(r) /\ r.mapper[u] \in DOMAIN r.obj
    BY <1>3 DEF Good, Known
  <2> QED
    BY <2>1, ObjectTypes DEF Known
<1>7. job \in AllJobs /\ job.op # "local" /\ JobKnown(r, job)
  BY <1>6 DEF AllJobs, JobKnown, FetchTask
<1>8. \A o \in DOMAIN r.obj : o \in Newer(n) /\ r.mapper[r.obj[o].url] # None => Starts(job, o)
  BY <1>1, <1>5 DEF Newer, Starts, FetchTask
<1> HIDE DEF job
<1>9. Rest(Async(StoreTasks(r), job), fs, {}, {}, 0, 0)
  BY <1>1, <1>3, <1>5, <1>7, <1>8, PostRest
<1> QED
  BY <1>4, <1>9

LEMMA MultiDownloadRest ==
  ASSUME NEW s, NEW c, Good(s, c), NEW fs, Rest(s, fs, {}, {}, 0, 0)
  PROVE  Rest(MultiDownload(s), fs, {}, {}, 0, 0)
<1> DEFINE batch == SetToSeq(Urls)
           n == Len(s.obj)
           r == ForEach(s, "append", batch)
           k == [i \in DOMAIN batch |-> FetchTask(r, batch[i])]
           job == [op |-> "startTasks", tasks |-> k]
<1>1. batch \in Seq(Urls)
  BY UrlsInOrder
<1>2. MultiDownload(s) = Async(StoreTasks(r), job)
  BY DEF MultiDownload
<1>3. n \in Nat
  BY FieldTypes DEF Good, Known
<1> HIDE DEF batch
<1>4. Good(r, c) /\ \A i \in DOMAIN batch : r.mapper[batch[i]] # None
  BY <1>1, AppendGood
<1>5. Rest(r, fs, Newer(n), {}, 0, 0) /\ NewerAre(r, n, batch, Len(batch))
  BY <1>1, AppendRest
<1> HIDE DEF r, n
<1>6. \A i \in DOMAIN batch : batch[i] \in Urls /\ FetchTask(r, batch[i]) \in DOMAIN r.obj
  BY <1>1, <1>4 DEF FetchTask, Good, Known
<1>7. k \in Seq(DOMAIN r.obj)
  <2>1. k \in [1 .. Len(batch) -> DOMAIN r.obj] /\ Len(batch) \in Nat
    BY <1>1, <1>6
  <2> QED
    BY <2>1
<1>8. k \in Seq(Nat)
  <2>1. r.obj \in Seq(Objects)
    BY <1>4, FieldTypes DEF Good, Known
  <2>2. DOMAIN r.obj \subseteq Nat
    BY <2>1
  <2> QED
    BY <1>7, <2>2, SeqSubset
<1>9. \A j \in 1 .. Len(batch) : j \in DOMAIN k /\ k[j] = r.mapper[batch[j]]
  BY <1>1 DEF FetchTask
<1> HIDE DEF k
<1>10. job \in AllJobs /\ job.op # "local" /\ JobKnown(r, job)
  BY <1>7, <1>8 DEF AllJobs, JobKnown
<1>11. job.op = "startTasks" /\ job.tasks = k
  OBVIOUS
<1> HIDE DEF job
<1>12. \A o \in DOMAIN r.obj : o \in Newer(n) /\ r.mapper[r.obj[o].url] # None => Starts(job, o)
  BY <1>5, <1>9, <1>11 DEF NewerAre, Starts
<1>13. Rest(Async(StoreTasks(r), job), fs, {}, {}, 0, 0)
  BY <1>3, <1>4, <1>5, <1>10, <1>12, PostRest
<1> QED
  BY <1>2, <1>13

\* A request to stop a task leaves the status of the manager.
LEMMA StopStatus ==
  ASSUME NEW s, Known(s), NEW o \in DOMAIN s.obj
  PROVE  /\ Suspend(s, o).status = s.status
         /\ Cancel(s, o).status = s.status
         /\ RemoveTask(s, o).status = s.status
<1>1. ASSUME NEW will \in {"willSuspend", "willCancel", "willRemove"}
      PROVE  Stop(s, o, will).status = s.status
  <2>1. will \in Status /\ s \in Managers
    BY DEF Status, Known
  <2>2. CASE s.obj[o].status = "running"
    <3> DEFINE w == SetStatus(s, o, will)
    <3>1. w.status = s.status /\ DOMAIN w.obj = DOMAIN s.obj
      BY <2>1, SetStatusFields
    <3>2. Known(w)
      <4>1. Changes(s, w, o)
        BY <2>1, StatusChanges
      <4> HIDE DEF w
      <4> QED
        BY <4>1, ChangedKnown
    <3>3. Stop(s, o, will) = CutTransfer(w, o)
      BY <2>2 DEF Stop
    <3> HIDE DEF w
    <3>4. CutTransfer(w, o).status = w.status
      BY <3>1, <3>2, CutFields
    <3> QED
      BY <3>1, <3>3, <3>4
  <2>3. CASE s.obj[o].status # "running"
    <3>1. Async(SetStatus(s, o, will), Local(o)).status = s.status
      BY <2>1, PostLocalFields
    <3> QED
      BY <2>3, <3>1 DEF Stop
  <2> QED
    BY <2>2, <2>3
<1> QED
  BY <1>1 DEF Suspend, Cancel, RemoveTask

\* The tasks of the list q after the i-th
After(q, i) == {q[j] : j \in i + 1 .. Len(q)}

\* Several tasks are started, or all are stopped.
LEMMA ForEachRest ==
  ASSUME NEW s, Good(s, Delivered), NEW q \in Seq(DOMAIN s.obj),
         NEW do \in {"start", "suspend", "cancel", "remove"},
         do # "start" => s.status # "succeeded",
         NEW L, Rest(s, files, After(q, 0), L, 0, 0)
  PROVE  Rest(ForEach(s, do, q), files, {}, L, 0, 0)
<1> DEFINE n == Len(q)
           Fine(r, i) ==
             /\ Good(r, Delivered) /\ DOMAIN r.obj = DOMAIN s.obj
             /\ do # "start" => r.status # "succeeded"
             /\ Rest(r, files, After(q, i), L, 0, 0)
<1>1. PICK f : Passes(f, s, do, q)
  BY ForEachPasses
<1>2. n \in Nat /\ DOMAIN q = 1 .. n
  OBVIOUS
<1>3. f[0] = s /\ Fine(s, 0)
  BY <1>1 DEF Passes
<1>4. ASSUME NEW i \in 1 .. n, Fine(f[i - 1], i - 1) PROVE Fine(f[i], i)
  <2> DEFINE r == f[i - 1]
             o == q[i]
             w == Each(r, do, o)
  <2>1. /\ Good(r, Delivered) /\ DOMAIN r.obj = DOMAIN s.obj
        /\ do # "start" => r.status # "succeeded"
        /\ Rest(r, files, After(q, i - 1), L, 0, 0)
    BY <1>4
  <2>2. o \in DOMAIN s.obj
    BY <1>2
  <2>3. f[i] = w
    BY <1>1 DEF Passes
  <2>4. After(q, i - 1) \ {o} \subseteq After(q, i)
    BY <1>2 DEF After
  <2> HIDE DEF r, o
  <2>5. Known(r) /\ o \in DOMAIN r.obj
    BY <2>1, <2>2 DEF Good
  <2>6. /\ Rest(StartUnlessSucceeded(r, o), files, After(q, i), L, 0, 0)
        /\ do # "start" =>
             /\ Rest(Suspend(r, o), files, After(q, i), L, 0, 0)
             /\ Rest(Cancel(r, o), files, After(q, i), L, 0, 0)
             /\ Rest(RemoveTask(r, o), files, After(q, i), L, 0, 0)
    BY <2>1, <2>4, <2>5, RequestsRest
  <2>7. /\ Suspend(r, o).status = r.status
        /\ Cancel(r, o).status = r.status
        /\ RemoveTask(r, o).status = r.status
    BY <2>5, StopStatus
  <2>8. \/ do = "start" /\ w = StartUnlessSucceeded(r, o)
        \/ do # "start" /\ w \in {Suspend(r, o), Cancel(r, o), RemoveTask(r, o)}
    BY DEF Each
  <2>9. Good(w, Delivered) /\ Follows(r, w, Delivered)
    <3>1. w \in {StartUnlessSucceeded(r, o), Suspend(r, o), Cancel(r, o), RemoveTask(r, o)}
      BY <2>8
    <3> HIDE DEF w
    <3> QED
      BY <2>1, <2>5, <3>1, RequestsGood
  <2> HIDE DEF w
  <2>10. Rest(w, files, After(q, i), L, 0, 0) /\ (do # "start" => w.status # "succeeded")
    BY <2>1, <2>6, <2>7, <2>8
  <2>11. DOMAIN w.obj = DOMAIN s.obj
    BY <2>1, <2>9 DEF Follows
  <2> QED
    BY <2>3, <2>9, <2>10, <2>11
<1> HIDE DEF Fine
<1>5. \A i \in 0 .. n : Fine(f[i], i)
  <2> DEFINE T == {i \in 0 .. n : ~Fine(f[i], i)}
  <2> SUFFICES ASSUME T # {} PROVE FALSE
    OBVIOUS
  <2>1. PICK i \in T : \A j \in T : i <= j
    <3>1. T \in SUBSET Nat
      BY <1>2
    <3> HIDE DEF T
    <3> QED
      BY <3>1, LeastNumber
  <2>2. i \in 0 .. n /\ ~Fine(f[i], i)
    BY <2>1
  <2>3. i \in 1 .. n /\ i - 1 \in 0 .. n /\ ~(i <= i - 1)
    BY <1>2, <1>3, <2>2
  <2>4. i - 1 \notin T
    BY <2>1, <2>3
  <2>5. Fine(f[i - 1], i - 1)
    BY <2>3, <2>4
  <2> QED
    BY <1>4, <2>2, <2>3, <2>5
<1>6. Fine(f[n], n)
  BY <1>2, <1>5
<1>7. ForEach(s, do, q) = f[n]
  BY <1>1 DEF Passes
<1>8. After(q, n) = {}
  BY <1>2 DEF After
<1> QED
  BY <1>6, <1>7, <1>8 DEF Fine

\* A request for all tasks sets the status of the manager first.
LEMMA TotalRest ==
  ASSUME NEW s, Good(s, Delivered), NEW will \in Stopping, NEW do \in {"suspend", "cancel", "remove"},
         Rest(s, files, {}, {}, 0, 0)
  PROVE  Rest(ForEach([s EXCEPT !.status = will], do, s.tasks), files, {}, {}, 0, 0)
<1> DEFINE w == [s EXCEPT !.status = will]
           q == s.tasks
<1>1. Known(s) /\ will \in Status /\ will # "succeeded" /\ q \in Seq(DOMAIN s.obj)
  BY DEF Good, Known, Status, Stopping
<1>2. Quiet(s, w) /\ w.status = will
  BY <1>1, QuietStatus
<1> HIDE DEF w
<1>3. Good(w, Delivered) /\ Known(w)
  BY <1>2, QuietGood DEF Good
<1>4. /\ w.obj = s.obj /\ w.mapper = s.mapper /\ w.tasks = s.tasks
      /\ w.succeeded = s.succeeded /\ w.apart = s.apart
  BY <1>2 DEF Quiet, Alike
<1>5. RecordedPast(w) /\ InOrder(w) /\ (~w.apart => TablesAgree(w))
  BY <1>4 DEF Rest, RecordedPast, InOrder, TablesAgree, Mapped
<1>6. ASSUME ~w.apart PROVE Served(w, files, After(q, 0), 0, 0)
  <2>1. ASSUME NEW b \in DOMAIN w.obj, Waits(w, b) PROVE b \in After(q, 0)
    <3>1. PICK i \in DOMAIN w.tasks : w.tasks[i] = b
      BY <1>3, <1>5, <1>6, <2>1, WaitsInList
    <3>2. i \in 0 + 1 .. Len(q)
      BY <1>1, <1>4
    <3> QED
      BY <1>4, <3>1, <3>2 DEF After
  <2> QED
    BY <2>1, ServedAll
<1>7. Settled(w, After(q, 0), {})
  BY <1>1, <1>2 DEF Settled
<1>8. Rest(w, files, After(q, 0), {}, 0, 0)
  BY <1>5, <1>6, <1>7 DEF Rest
<1>9. q \in Seq(DOMAIN w.obj)
  BY <1>1, <1>4
<1> HIDE DEF q
<1>10. Rest(ForEach(w, do, q), files, {}, {}, 0, 0)
  BY <1>1, <1>2, <1>3, <1>8, <1>9, ForEachRest
<1> QED
  BY <1>10 DEF w, q
\* The tasks that a block starts
Started(job) == {o \in Nat : Starts(job, o)}

\* Every block but those that end a task
LEMMA BlockRest ==
  ASSUME NEW s, Good(s, Delivered), NEW job \in AllJobs, JobKnown(s, job), job.op # "local",
         Rest(s, files, Started(job), {}, IF job.op = "next" THEN 1 ELSE 0, 0)
  PROVE  Rest(Run(s, job), files, {}, {}, 0, 0)
<1> DEFINE Fine(r) == Rest(r, files, {}, {}, 0, 0)
<1>1. Known(s) /\ s \in Managers
  BY DEF Good, Known
<1>2. ASSUME job.op \notin {"startTask", "startTasks"}
      PROVE  Started(job) = {}
  BY <1>2 DEF Started, Starts
<1>3. ASSUME job.op \notin {"startTask", "startTasks", "next"}
      PROVE  Rest(s, files, {}, {}, 0, 0)
  BY <1>2, <1>3
<1>4. \A u \in Urls : FetchTask(s, u) # None => FetchTask(s, u) \in DOMAIN s.obj
  BY <1>1 DEF Known, FetchTask
<1>5. /\ job.op \in SingleRequests \cup TotalRequests
                    \cup {"multiDownload", "next", "execute", "startTask", "local", "startTasks"}
      /\ job.op \in SingleRequests => job.url \in Urls
      /\ job.op \in {"startTask", "local"} => job.task \in Nat
      /\ job.op = "startTasks" => job.tasks \in Seq(Nat)
  BY JobFields
<1> HIDE DEF Fine
<1>6. CASE job.op = "download"
  <2>1. job.url \in Urls /\ Run(s, job) = DownloadBlock(s, job.url)
    BY <1>5, <1>6 DEF SingleRequests, Run
  <2>2. Rest(s, files, {}, {}, 0, 0)
    BY <1>3, <1>6
  <2>3. Rest(DownloadBlock(s, job.url), files, {}, {}, 0, 0)
    BY <2>1, <2>2, DownloadBlockRest
  <2> QED
    BY <2>1, <2>3
<1>7. CASE job.op \in {"start", "suspend", "cancel", "remove"}
  <2> DEFINE o == FetchTask(s, job.url)
  <2>1. job.url \in Urls
    BY <1>5, <1>7 DEF SingleRequests
  <2>2. Rest(s, files, {}, {}, 0, 0)
    BY <1>3, <1>7
  <2>3. o = None => Run(s, job) = s
    BY <1>7 DEF Run, OnTask
  <2>4. o # None => Run(s, job) \in {Start(s, o), Suspend(s, o), Cancel(s, o), RemoveTask(s, o)}
    BY <1>7 DEF Run, OnTask
  <2>5. ASSUME o # None
        PROVE  Fine(Start(s, o)) /\ Fine(Suspend(s, o)) /\ Fine(Cancel(s, o)) /\ Fine(RemoveTask(s, o))
    <3>1. o \in DOMAIN s.obj
      BY <1>4, <2>1, <2>5
    <3> HIDE DEF o
    <3>2. {} \ {o} \subseteq {} /\ o \notin {}
      OBVIOUS
    <3>3. Rest(Start(s, o), files, {}, {}, 0, 0)
      BY <2>2, <3>1, <3>2, StartRest
    <3>4. /\ Rest(Suspend(s, o), files, {}, {}, 0, 0)
          /\ Rest(Cancel(s, o), files, {}, {}, 0, 0)
          /\ Rest(RemoveTask(s, o), files, {}, {}, 0, 0)
      BY <2>2, <3>1, <3>2, RequestsRest
    <3> QED
      BY <3>3, <3>4 DEF Fine
  <2> HIDE DEF o
  <2> QED
    BY <2>2, <2>3, <2>4, <2>5 DEF Fine
<1>8. CASE job.op = "startTask"
  <2> DEFINE o == job.task
  <2>1. o \in DOMAIN s.obj
    BY <1>8 DEF JobKnown
  <2>2. Started(job) \ {o} \subseteq {}
    BY <1>8 DEF Started, Starts
  <2>3. Rest(s, files, Started(job), {}, 0, 0)
    BY <1>8
  <2>4. CASE FetchTask(s, s.obj[o].url) = None
    <3>1. Run(s, job) = s
      BY <1>8, <2>4 DEF Run, OnTask
    <3>2. o # None /\ s.mapper[s.obj[o].url] = None
      BY <1>1, <2>1, <2>4, ObjectTypes DEF FetchTask
    <3> HIDE DEF o
    <3>3. MayWait(s, s, files, Started(job), {}, o)
      BY <3>2 DEF MayWait, Waits, Listed
    <3>4. SettledTask(s, Started(job), {}, o) => SettledTask(s, {}, {}, o)
      BY <3>2 DEF SettledTask
    <3>5. 0 \in Nat /\ {} \ {o} \subseteq {}
      OBVIOUS
    <3>6. Rest(s, files, {}, {}, 0, 0)
      BY <1>1, <2>1, <2>2, <2>3, <3>3, <3>4, <3>5, SameRest
    <3> QED
      BY <3>1, <3>6
  <2>5. CASE FetchTask(s, s.obj[o].url) # None
    <3>1. Run(s, job) = Start(s, o)
      BY <1>8, <2>5 DEF Run, OnTask
    <3> HIDE DEF o
    <3>2. Rest(Start(s, o), files, {}, {}, 0, 0)
      BY <2>1, <2>2, <2>3, StartRest
    <3> QED
      BY <3>1, <3>2
  <2> QED
    BY <2>4, <2>5
<1>9. CASE job.op = "totalStart"
  <2>1. s.tasks \in Seq(DOMAIN s.obj) /\ Run(s, job) = ForEach(s, "start", s.tasks)
    BY <1>1, <1>9 DEF Known, Run
  <2>2. Rest(s, files, After(s.tasks, 0), {}, 0, 0)
    <3>1. Rest(s, files, {}, {}, 0, 0) /\ {} \subseteq After(s.tasks, 0)
      BY <1>3, <1>9
    <3> QED
      BY <3>1, RestMore
  <2>3. Rest(ForEach(s, "start", s.tasks), files, {}, {}, 0, 0)
    BY <2>1, <2>2, ForEachRest
  <2> QED
    BY <2>1, <2>3
<1>10. CASE job.op = "startTasks"
  <2> DEFINE q == job.tasks
  <2>1. q \in Seq(DOMAIN s.obj) /\ q \in Seq(Nat) /\ Run(s, job) = ForEach(s, "start", q)
    BY <1>5, <1>10 DEF JobKnown, Run
  <2>2. Started(job) \subseteq After(q, 0)
    <3>1. \A o : Starts(job, o) => \E i \in DOMAIN q : q[i] = o
      BY <1>10 DEF Starts
    <3> HIDE DEF q
    <3>2. \A i \in DOMAIN q : i \in 0 + 1 .. Len(q)
      BY <2>1
    <3> QED
      BY <3>1, <3>2 DEF Started, After
  <2>3. Rest(s, files, Started(job), {}, 0, 0)
    BY <1>10
  <2> HIDE DEF q
  <2>4. Rest(s, files, After(q, 0), {}, 0, 0)
    BY <2>2, <2>3, RestMore
  <2>5. Rest(ForEach(s, "start", q), files, {}, {}, 0, 0)
    BY <2>1, <2>4, ForEachRest
  <2> QED
    BY <2>1, <2>5
<1>11. CASE job.op \in {"totalSuspend", "totalCancel", "totalRemove"}
  <2>1. \/ Run(s, job) = s
        \/ Run(s, job) = ForEach([s EXCEPT !.status = "willSuspend"], "suspend", s.tasks)
        \/ Run(s, job) = ForEach([s EXCEPT !.status = "willCancel"], "cancel", s.tasks)
        \/ Run(s, job) = ForEach([s EXCEPT !.status = "willRemove"], "remove", s.tasks)
    BY <1>11 DEF Run
  <2>2. "willSuspend" \in Stopping /\ "willCancel" \in Stopping /\ "willRemove" \in Stopping
    BY DEF Stopping
  <2>3. Rest(s, files, {}, {}, 0, 0)
    BY <1>3, <1>11
  <2>4. Fine(ForEach([s EXCEPT !.status = "willSuspend"], "suspend", s.tasks))
    BY <2>2, <2>3, TotalRest DEF Fine
  <2>5. Fine(ForEach([s EXCEPT !.status = "willCancel"], "cancel", s.tasks))
    BY <2>2, <2>3, TotalRest DEF Fine
  <2>6. Fine(ForEach([s EXCEPT !.status = "willRemove"], "remove", s.tasks))
    BY <2>2, <2>3, TotalRest DEF Fine
  <2>7. Fine(s)
    BY <2>3 DEF Fine
  <2>8. Fine(Run(s, job))
    BY <2>1, <2>4, <2>5, <2>6, <2>7
  <2> QED
    BY <2>8 DEF Fine
<1>12. CASE job.op = "multiDownload"
  <2>1. Run(s, job) = MultiDownload(s)
    BY <1>12 DEF Run
  <2>2. Rest(s, files, {}, {}, 0, 0)
    BY <1>3, <1>12
  <2>3. Rest(MultiDownload(s), files, {}, {}, 0, 0)
    BY <2>2, MultiDownloadRest
  <2> QED
    BY <2>1, <2>3
<1>13. CASE job.op = "execute"
  <2>1. Run(s, job) = ExecuteCompletion(s)
    BY <1>13 DEF Run
  <2>2. ExecuteCompletion(s) = s
    BY <1>1, ExecuteSame
  <2>3. Rest(s, files, {}, {}, 0, 0)
    BY <1>3, <1>13
  <2> QED
    BY <2>1, <2>2, <2>3
<1>14. CASE job.op = "next"
  <2>1. Run(s, job) = StartNextTask(s)
    BY <1>14 DEF Run
  <2>2. Rest(s, files, {}, {}, 1, 0)
    BY <1>2, <1>14
  <2>3. Rest(StartNextTask(s), files, {}, {}, 0, 0)
    BY <2>2, StartNextRest
  <2> QED
    BY <2>1, <2>3
<1> QED
  BY <1>5, <1>6, <1>7, <1>8, <1>9, <1>10, <1>11, <1>12, <1>13, <1>14 DEF SingleRequests, TotalRequests

LEMMA RunRest ==
  ASSUME NEW s, Good(s, Delivered), s.queue # <<>>, Rest(s, files, {}, {}, 0, 0)
  PROVE  Rest(Run(Taken(s), Head(s.queue)), files, {}, {}, 0, 0)
<1> DEFINE job == Head(s.queue)
           w == Taken(s)
           e == IF job.op = "next" THEN 1 ELSE 0
<1>1. /\ Good(w, Delivered) /\ Follows(s, w, Delivered)
      /\ job \in AllJobs /\ JobKnown(w, job)
  BY TakenGood
<1>2. Known(s)
  BY DEF Good
<1>3. CASE job.op = "local"
  <2> DEFINE o == job.task
  <2>1. o \in DOMAIN s.obj
    BY <1>1, <1>3 DEF JobKnown, Follows
  <2>2. IsLocal(Head(s.queue), o)
    BY <1>3 DEF IsLocal
  <2>3. Run(w, job) = CompleteLocally(w, o)
    BY <1>3 DEF Run
  <2> HIDE DEF o
  <2>4. Rest(CompleteLocally(Taken(s), o), files, {}, {}, 0, 0)
    BY <2>1, <2>2, LocallyRest
  <2> QED
    BY <2>3, <2>4
<1>4. CASE job.op # "local"
  <2>1. \A o \in DOMAIN s.obj : Starts(Head(s.queue), o) => o \in Started(job)
    BY <1>2, ObjectTypes DEF Started, Known
  <2>2. \A o \in DOMAIN s.obj :
           IsLocal(Head(s.queue), o) /\ s.obj[o].status \in {"willCancel", "willRemove"} => o \in {}
    BY <1>4 DEF IsLocal
  <2>3. e \in {0, 1} /\ (Head(s.queue).op = "next" => e = 1)
    OBVIOUS
  <2> HIDE DEF e
  <2>4. Rest(w, files, Started(job), {}, e, 0)
    BY <1>2, <2>1, <2>2, <2>3, TakenRest
  <2>5. Rest(w, files, Started(job), {}, IF job.op = "next" THEN 1 ELSE 0, 0)
    BY <2>4 DEF e
  <2> HIDE DEF w, job
  <2>6. Rest(Run(w, job), files, {}, {}, 0, 0)
    BY <1>1, <1>4, <2>5, BlockRest
  <2> QED
    BY <2>6 DEF w, job
<1> QED
  BY <1>3, <1>4
-----------------------------------------------------------------------------
(***************************************************************************)
(* Waiting tasks and the steps of the manager                              *)
(***************************************************************************)

RestInv == ManagerInv /\ Rest(m, files, {}, {}, 0, 0)

LEMMA RestRequest == RestInv /\ Request => Rest(m, files, {}, {}, 0, 0)'
<1> SUFFICES ASSUME RestInv, Request PROVE Rest(m', files', {}, {}, 0, 0)
  OBVIOUS
<1>1. Known(m) /\ Good(m, Delivered) /\ Rest(m, files, {}, {}, 0, 0) /\ files' = files
  BY DEF RestInv, ManagerInv, Good, Request
<1>2. PICK job \in AllJobs : job.op # "local" /\ JobKnown(m, job) /\ m' = Async(m, job)
  BY RequestPosts
<1> DEFINE r == Async(m, job)
<1>3. Quiet(m, r) /\ r.status = m.status
  <2>1. Quiet(m, m)
    BY <1>1, QuietSelf
  <2> QED
    BY <1>1, <1>2, <2>1, PostQuiet
<1>4. Known(r)
  BY <1>1, <1>3, QuietGood DEF Good
<1>5. Extends(m.queue, r.queue, 0)
  BY <1>1, <1>3, QuietExtends
<1> HIDE DEF r
<1>6. SettledNow(m, r) /\ 0 \in Nat /\ 0 <= 0 + 0
  BY <1>3 DEF SettledNow
<1>7. Rest(r, files, {}, {}, 0, 0)
  BY <1>1, <1>3, <1>4, <1>5, <1>6, QuietRest
<1> QED
  BY <1>1, <1>2, <1>7 DEF r

LEMMA RestBlock == RestInv /\ RunBlock => Rest(m, files, {}, {}, 0, 0)'
<1> SUFFICES ASSUME RestInv, RunBlock PROVE Rest(m', files', {}, {}, 0, 0)
  OBVIOUS
<1>1. /\ Good(m, Delivered) /\ Rest(m, files, {}, {}, 0, 0)
      /\ files' = files /\ m.queue # <<>> /\ m' = Run(Taken(m), Head(m.queue))
  BY DEF RestInv, ManagerInv, RunBlock, Taken
<1>2. Rest(Run(Taken(m), Head(m.queue)), files, {}, {}, 0, 0)
  BY <1>1, RunRest
<1> QED
  BY <1>1, <1>2

LEMMA RestDelivered ==
  ASSUME NEW t \in DOMAIN m.net
  PROVE  RestInv /\ DidFinishDownloading(t) => Rest(m, files, {}, {}, 0, 0)'
<1> SUFFICES ASSUME RestInv, DidFinishDownloading(t) PROVE Rest(m', files', {}, {}, 0, 0)
  OBVIOUS
<1>1. /\ Good(m, Delivered) /\ Rest(m, files, {}, {}, 0, 0)
      /\ m.net[t].state \in {"active", "cut"} /\ m' = SetTransfer(m, t, "finished")
      /\ files \subseteq files' /\ files' \subseteq files \cup {m.net[t].url}
  BY DEF RestInv, ManagerInv, DidFinishDownloading, SetTransfer, StoreFile
<1>2. Rest(SetTransfer(m, t, "finished"), files', {}, {}, 0, 0)
  BY <1>1, DeliveredRest
<1> QED
  BY <1>1, <1>2

LEMMA RestComplete ==
  ASSUME NEW t \in DOMAIN m.net
  PROVE  RestInv /\ DidComplete(t) => Rest(m, files, {}, {}, 0, 0)'
<1> SUFFICES ASSUME RestInv, DidComplete(t) PROVE Rest(m', files', {}, {}, 0, 0)
  OBVIOUS
<1>1. Good(m, Delivered) /\ Rest(m, files, {}, {}, 0, 0) /\ files' = files
  BY DEF RestInv, ManagerInv, DidComplete
<1>2. PICK outcome \in Outcomes(m.net[t].state) : m' = CompleteTransfer(m, t, outcome)
  BY DEF DidComplete, CompleteTransfer, SetTransfer
<1>3. Rest(CompleteTransfer(m, t, outcome), files, {}, {}, 0, 0)
  BY <1>1, CompleteRest
<1> QED
  BY <1>1, <1>2, <1>3

LEMMA RestStep == RestInv /\ [Next]_vars => RestInv'
<1> SUFFICES ASSUME RestInv, [Next]_vars PROVE RestInv'
  OBVIOUS
<1>1. ManagerInv'
  BY NextStep DEF RestInv, StepGood
<1>2. CASE Request
  BY <1>1, <1>2, RestRequest DEF RestInv
<1>3. CASE RunBlock
  BY <1>1, <1>3, RestBlock DEF RestInv
<1>4. ASSUME NEW t \in DOMAIN m.net, DidFinishDownloading(t) \/ DidComplete(t) PROVE RestInv'
  BY <1>1, <1>4, RestDelivered, RestComplete DEF RestInv
<1>5. CASE UNCHANGED vars
  <2>1. m' = m /\ files' = files
    BY <1>5 DEF vars
  <2> QED
    BY <1>1, <2>1 DEF RestInv
<1> QED
  BY <1>2, <1>3, <1>4, <1>5 DEF Next, Network

LEMMA RestInit == Init => RestInv
<1> SUFFICES ASSUME Init PROVE RestInv
  OBVIOUS
<1>1. /\ m.status = "waiting" /\ m.tasks = <<>> /\ m.mapper = [u \in Urls |-> None]
      /\ m.succeeded = <<>> /\ m.obj = <<>>
  BY DEF Init
<1>2. DOMAIN m.tasks = {} /\ DOMAIN m.succeeded = {} /\ DOMAIN m.obj = {} /\ Mapped(m) = {}
  BY <1>1 DEF Mapped
<1>3. RecordedPast(m) /\ InOrder(m) /\ TablesAgree(m)
  BY <1>2 DEF RecordedPast, InOrder, TablesAgree
<1>4. Served(m, files, {}, 0, 0)
  BY <1>2 DEF Served
<1>5. Settled(m, {}, {})
  BY <1>1 DEF Settled
<1> QED
  BY <1>3, <1>4, <1>5, InitGood DEF RestInv, Rest
-----------------------------------------------------------------------------
(***************************************************************************)
(* Theorems                                                                *)
(***************************************************************************)

\* A forgotten task is one with a transfer that the mapper does not find.
LEMMA ForgottenWhole ==
  ASSUME Known(m)
  PROVE  /\ Forgotten = {} <=> Whole(m)
         /\ InTable \subseteq DOMAIN m.obj
<1>1. InTable \subseteq DOMAIN m.obj
  BY DEF InTable, Mapped, Known
<1>2. ASSUME NEW o \in DOMAIN m.obj PROVE o \in InTable <=> Listed(m, o)
  <2>1. m.obj[o].url \in Urls /\ o # None
    BY ObjectTypes DEF Known
  <2>2. Listed(m, o) => o \in InTable
    BY <2>1 DEF Listed, InTable, Mapped
  <2>3. ASSUME o \in InTable PROVE Listed(m, o)
    <3>1. PICK u \in Urls : m.mapper[u] # None /\ o = m.mapper[u]
      BY <2>3 DEF InTable, Mapped
    <3> QED
      BY <3>1 DEF Listed, Known
  <2> QED
    BY <2>2, <2>3
<1> QED
  BY <1>1, <1>2 DEF Forgotten, Whole

\* In every behaviour tasks, slots, blocks, transfers and files correspond, as long as no task
\* is forgotten: the invariant of the functions of SessionManager and DownloadTask.
THEOREM ManagerInvariance == Spec => []ManagerInv
<1>1. Init => ManagerInv
  BY InitGood
<1>2. ManagerInv /\ [Next]_vars => ManagerInv'
  BY NextStep DEF StepGood
<1> QED
  BY <1>1, <1>2, PTL DEF Spec

\* The fields of the manager have their types, and every reference is to a task object or a
\* transfer that was made.
THEOREM DownloadTypes == Spec => []TypeOK
<1>1. ManagerInv => TypeOK
  <2> SUFFICES ASSUME ManagerInv PROVE TypeOK
    OBVIOUS
  <2>1. /\ Known(m) /\ m \in Managers
        /\ files \subseteq Urls /\ unstored \subseteq Urls /\ requests \in 0 .. MaxRequests
    BY DEF ManagerInv, Good, Known
  <2>2. /\ m.status \in Status /\ m.obj \in Seq(Objects) /\ m.net \in Seq(Nets)
        /\ m.queue \in Seq(AllJobs) /\ m.due \in BOOLEAN /\ m.mapper \in [Urls -> Nat]
    BY <2>1, FieldTypes
  <2>3. m.obj \in Seq([url : Urls, status : Status, transfer : DOMAIN m.net \cup {None}])
    <3> DEFINE R == [url : Urls, status : Status, transfer : DOMAIN m.net \cup {None}]
    <3>1. ASSUME NEW o \in DOMAIN m.obj PROVE m.obj[o] \in R
      <4>1. m.obj[o] \in Objects /\ m.obj[o].transfer \in DOMAIN m.net \cup {None}
        BY <2>1, ObjectTypes DEF Known
      <4> QED
        BY <4>1 DEF Objects
    <3>2. \A o \in DOMAIN m.obj : m.obj[o] \in R
      BY <3>1
    <3> HIDE DEF R
    <3>3. m.obj \in Seq(R)
      BY <2>2, <3>2, SeqMembers
    <3> QED
      BY <3>3 DEF R
  <2>4. m.mapper \in [Urls -> DOMAIN m.obj \cup {None}]
    <3>1. \A u \in Urls : m.mapper[u] \in DOMAIN m.obj \cup {None}
      BY <2>1 DEF Known
    <3> QED
      BY <2>2, <3>1
  <2>5. m.queue \in Seq(Jobs)
    <3>1. ASSUME NEW i \in DOMAIN m.queue PROVE m.queue[i] \in Jobs
      <4> DEFINE job == m.queue[i]
      <4>1. job \in AllJobs /\ JobKnown(m, job)
        BY <2>1, <2>2 DEF Known
      <4> HIDE DEF job
      <4>2. CASE job \in [op : {"startTask", "local"}, task : Nat]
        BY <4>1, <4>2 DEF JobKnown, Jobs, job
      <4>3. CASE job \in [op : {"startTasks"}, tasks : Seq(Nat)]
        BY <4>1, <4>3 DEF JobKnown, Jobs, job
      <4>4. CASE job \in [op : SingleRequests, url : Urls]
                         \cup [op : TotalRequests \cup {"multiDownload", "next", "execute"}]
        BY <4>4 DEF Jobs, job
      <4> QED
        BY <4>1, <4>2, <4>3, <4>4 DEF AllJobs
    <3>2. \A i \in DOMAIN m.queue : m.queue[i] \in Jobs
      BY <3>1
    <3> QED
      BY <2>2, <3>2, SeqMembers
  <2>6. /\ m.tasks \in Seq(DOMAIN m.obj) /\ m.succeeded \in Seq(DOMAIN m.obj)
        /\ m.running \subseteq DOMAIN m.obj
    BY <2>1 DEF Known
  <2>7. m.net \in Seq([url : Urls, state : {"active", "cut", "finished", "done"}])
    BY <2>2 DEF Nets
  <2> QED
    BY <2>1, <2>2, <2>3, <2>4, <2>5, <2>6, <2>7 DEF TypeOK
<1> QED
  BY <1>1, ManagerInvariance, PTL

\* The slots are those of the transfers under way (runningTasks and sessionTask), whatever
\* suspensions, retries, removals and starts of a next task there were.
THEOREM SlotsStayTransfers == Spec => []SlotsAreTransfers
<1>1. ManagerInv => SlotsAreTransfers
  <2> SUFFICES ASSUME ManagerInv PROVE SlotsAreTransfers
    OBVIOUS
  <2>1. /\ Known(m) /\ Cardinality(m.running) <= Limit
        /\ Whole(m) => Owned(m, Delivered)
    BY DEF ManagerInv, Good
  <2>2. ASSUME Forgotten = {}
        PROVE  /\ m.running = {o \in InTable : m.obj[o].transfer # None}
               /\ Live(m) = {m.obj[o].transfer : o \in m.running}
               /\ \A o \in m.running : m.net[m.obj[o].transfer].url = m.obj[o].url
    <3>1. Whole(m) /\ Owned(m, Delivered) /\ InTable \subseteq DOMAIN m.obj
      BY <2>1, <2>2, ForgottenWhole
    <3>2. \A o \in DOMAIN m.obj : HasSlot(m, o)
      BY <3>1 DEF Owned
    <3>3. ASSUME NEW o \in DOMAIN m.obj, m.obj[o].transfer # None PROVE o \in InTable
      <4>1. Listed(m, o) /\ m.obj[o].url \in Urls
        BY <2>1, <3>1, <3>3, ObjectTypes DEF Whole, Known
      <4>2. o # None
        BY <2>1, ObjectTypes DEF Known
      <4> QED
        BY <4>1, <4>2 DEF Listed, InTable, Mapped
    <3>4. m.running \subseteq DOMAIN m.obj
      BY <2>1 DEF Known
    <3>5. m.running = {o \in InTable : m.obj[o].transfer # None}
      <4>1. \A o \in m.running : o \in InTable /\ m.obj[o].transfer # None
        BY <3>2, <3>3, <3>4 DEF HasSlot
      <4>2. \A o \in InTable : m.obj[o].transfer # None => o \in m.running
        BY <3>1, <3>2 DEF HasSlot
      <4> HIDE DEF InTable
      <4> QED
        BY <4>1, <4>2
    <3>6. \A o \in m.running : /\ m.obj[o].transfer \in Live(m)
                               /\ m.net[m.obj[o].transfer].url = m.obj[o].url
      BY <3>2, <3>4 DEF HasSlot
    <3>7. ASSUME NEW t \in Live(m) PROVE \E o \in m.running : t = m.obj[o].transfer
      <4> DEFINE o == m.mapper[m.net[t].url]
      <4>1. LiveIsListed(m, t)
        BY <3>1 DEF Owned
      <4>2. Finds(m, t, o)
        BY <4>1 DEF Finds, LiveIsListed
      <4>3. o \in DOMAIN m.obj /\ m.obj[o].transfer = t /\ t # None
        BY <2>1, <4>1, <4>2, FindsFields DEF LiveIsListed
      <4>4. o \in m.running
        BY <3>2, <4>3 DEF HasSlot
      <4> QED
        BY <4>3, <4>4
    <3> QED
      BY <3>5, <3>6, <3>7
  <2> QED
    BY <2>1, <2>2 DEF SlotsAreTransfers
<1> QED
  BY <1>1, ManagerInvariance, PTL

\* When the manager becomes succeeded, the file of every task was delivered, and is in the cache
\* unless storeFile could not move it, whatever the status codes, the blocks that were waiting and
\* the tasks that were dropped.
THEOREM CompletionKeepsFiles == Spec => CompletionHasFiles
<1>1. ManagerInv /\ [Next]_vars =>
        (Forgotten = {} /\ m.status # "succeeded" /\ m'.status = "succeeded" =>
           \A i \in DOMAIN m'.tasks : m'.obj[m'.tasks[i]].url \in files' \cup unstored')
  <2> SUFFICES ASSUME ManagerInv, [Next]_vars,
                      Forgotten = {}, m.status # "succeeded", m'.status = "succeeded"
               PROVE  \A i \in DOMAIN m'.tasks : m'.obj[m'.tasks[i]].url \in files' \cup unstored'
    OBVIOUS
  <2>1. Whole(m)
    BY ForgottenWhole DEF ManagerInv, Good
  <2>2. TasksHaveFiles(m, Delivered)'
    BY <2>1, NextStep DEF StepGood
  <2> QED
    BY <2>2 DEF TasksHaveFiles, Delivered
<1> QED
  BY <1>1, ManagerInvariance, PTL DEF Spec, CompletionHasFiles

\* Whatever waits is served, and a settled manager says what its tasks say: after each block and
\* each callback (startNextTask, determineStatus).
THEOREM RestInvariance == Spec => []RestInv
BY RestInit, RestStep, PTL DEF Spec

\* At rest no task waits, unless a task is forgotten or a drop has torn the tables apart, and
\* a manager that says it has succeeded has no task that has not (the block that starts the
\* next task, and the status that SessionManager finds).
THEOREM RestKeepsNoneWaiting == Spec => []RestIsDone
<1>1. RestInv => RestIsDone
  <2> SUFFICES ASSUME RestInv, AtRest
               PROVE  /\ Forgotten = {} /\ ~m.apart => \A o \in InTable : m.obj[o].status # "waiting"
                      /\ m.status = "succeeded" => AllIn(m, {"succeeded"})
    BY DEF RestIsDone
  <2>1. /\ Known(m) /\ Good(m, Delivered) /\ Rest(m, files, {}, {}, 0, 0)
        /\ m.queue = <<>> /\ Live(m) = {}
    BY DEF RestInv, ManagerInv, Good, AtRest
  <2>2. DOMAIN m.queue = {}
    BY <2>1
  <2>3. \A o : ~Asked(m, o, {}) /\ ~HasLocal(m.queue, o)
    BY <2>2 DEF Asked, HasLocal
  <2>4. ASSUME Forgotten = {}, ~m.apart, NEW o \in InTable, m.obj[o].status = "waiting"
        PROVE  FALSE
    <3>1. Whole(m) /\ o \in DOMAIN m.obj /\ Owned(m, Delivered)
      BY <2>1, <2>4, ForgottenWhole DEF Good
    <3>2. Listed(m, o)
      <4>1. PICK u \in Urls : m.mapper[u] # None /\ o = m.mapper[u]
        BY <2>4 DEF InTable, Mapped
      <4> QED
        BY <2>1, <4>1 DEF Listed, Known
    <3>3. ServedTask(m, files, 0, {}, 0, o)
      BY <2>1, <2>3, <2>4, <3>1, <3>2 DEF Rest, Served, Waits
    <3>4. Limit <= Cardinality(m.running) + Cardinality(NextAfter(m.queue, 0)) + 0
      BY <3>3 DEF ServedTask, Enough
    <3>5. Cardinality(NextAfter(m.queue, 0)) = 0
      <4>1. NextAfter(m.queue, 0) = {}
        BY <2>2 DEF NextAfter
      <4> QED
        BY <4>1, FS_EmptySet
    <3>6. m.running # {}
      BY <3>4, <3>5, FS_EmptySet, LimitAssumption
    <3>7. PICK p \in m.running : p \in DOMAIN m.obj
      BY <2>1, <3>6 DEF Known
    <3>8. HasSlot(m, p)
      BY <3>1, <3>7 DEF Owned
    <3> QED
      BY <2>1, <3>7, <3>8 DEF HasSlot
  <2>5. ASSUME m.status = "succeeded" PROVE AllIn(m, {"succeeded"})
    BY <2>1, <2>3, <2>5 DEF Rest, Settled, SettledTask, AllIn
  <2> QED
    BY <2>4, <2>5
<1> QED
  BY <1>1, RestInvariance, PTL
=============================================================================
