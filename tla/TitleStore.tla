----------------------------- MODULE TitleStore -----------------------------
(***************************************************************************)
(* What the console keeps of one application: the content storages and the *)
(* content meta databases of ncm, the application record of ns, the        *)
(* tickets of es and the launch-required version of avm.  The services are *)
(* external: they are modelled by the way yati.cpp, yati_metadata.cpp and  *)
(* title_move.cpp use them.  A database is edited in memory and made       *)
(* durable by a commit; everything else is durable at once.                *)
(*                                                                         *)
(* InstallTitle and TitleMove add the jobs that change it, Titles puts     *)
(* them together.                                                          *)
(***************************************************************************)
EXTENDS Integers, Sequences, FiniteSets

CONSTANTS
  Keys,      \* content meta keys: records [type, id, version]
  Contents,  \* content ids
  Holds,     \* the contents of a key: its cnmt first, then its NCAs
  Locked,    \* the contents that cannot be used without a ticket
  MaxJobs    \* bound: the jobs of a behaviour

Storages == {"nand", "sd"}
ContentsOf(k) == {Holds[k][n] : n \in DOMAIN Holds[k]}

\* RemoveInstalledNcas: a patch replaces every patch of the application, any other
\* title the versions of its own id.
SameTitle(k, l) == k.type = l.type /\ (k.type = "Patch" \/ k.id = l.id)

KeysAssumption ==
  /\ Keys \subseteq [type : {"Application", "Patch", "AddOnContent"}, id : STRING, version : Nat]
  /\ Holds \in [Keys -> Seq(Contents) \ {<<>>}]
  /\ \A k \in Keys : \A m, n \in DOMAIN Holds[k] : Holds[k][m] = Holds[k][n] => m = n
  \* a content id is a hash of an NCA, and an NCA names its title
  /\ \A k, l \in Keys : ~SameTitle(k, l) => ContentsOf(k) \cap ContentsOf(l) = {}
  \* the patches of an application have one id
  /\ \A k, l \in Keys : k.type = "Patch" /\ l.type = "Patch" => k.id = l.id
  /\ IsFiniteSet(Keys)
  /\ Locked \subseteq Contents
  /\ MaxJobs \in Nat
ASSUME KeysAssumption

Copies == [key : Keys, storage : Storages]

VARIABLES
  registered,  \* [Storages -> SUBSET Contents]
  meta,        \* [Storages -> SUBSET Keys]: a database in memory
  committed,   \* [Storages -> SUBSET Keys]: the same on disk
  record,      \* SUBSET Copies: the application record
  imported,    \* SUBSET Locked: the contents whose ticket es knows
  launch,      \* the launch-required version of the application
  cut,         \* history: keys whose contents a removal has begun to delete
  unsettled,   \* history: a job began while a removal was not on disk
  withdrawn,   \* history: copies whose removal an install has begun
  pc,          \* the next step of the job under way, "idle" between jobs
  jobs,        \* how many jobs were started
  j,           \* the index in a list of contents
  outcome      \* how the last job ended

databases == <<meta, committed>>
services == <<record, imported, launch>>
history == <<cut, withdrawn, unsettled>>
kept == <<registered, databases, services, history>>

StoreType ==
  /\ registered \in [Storages -> SUBSET Contents]
  /\ meta \in [Storages -> SUBSET Keys]
  /\ committed \in [Storages -> SUBSET Keys]
  /\ record \subseteq Copies
  /\ imported \subseteq Locked
  /\ launch \in {0} \cup {k.version : k \in Keys}
  /\ cut \in [Storages -> SUBSET Keys]
  /\ withdrawn \subseteq Copies
  /\ unsettled \in BOOLEAN
  /\ jobs \in Nat
  /\ j \in Nat \ {0}
  /\ outcome \in {"none", "success", "failed", "crash"}

\* All contents of a key are in the storage.
Whole(k, s) == ContentsOf(k) \subseteq registered[s]

\* The system has one copy of each of some titles, no two versions of one, and
\* knows each of them; the tickets may be there or not.
StoreInit ==
  /\ \E there \in SUBSET Copies :
       /\ \A a, b \in there : SameTitle(a.key, b.key) => a = b
       /\ record = there
       /\ meta = [s \in Storages |-> {a.key : a \in {b \in there : b.storage = s}}]
       /\ registered = [s \in Storages |-> UNION {ContentsOf(k) : k \in meta[s]}]
  /\ committed = meta
  /\ imported \in SUBSET Locked
  /\ launch = 0
  /\ cut = [s \in Storages |-> {}]
  /\ withdrawn = {}
  /\ unsettled = FALSE
  /\ pc = "idle" /\ jobs = 0 /\ j = 1 /\ outcome = "none"

-----------------------------------------------------------------------------
\* A job begins with the databases as the jobs before it left them in memory.
Begins ==
  /\ unsettled' = (unsettled \/ \E s \in Storages : ~(committed[s] \subseteq meta[s]))
  /\ UNCHANGED <<registered, databases, services, cut, withdrawn>>

\* ncmContentMetaDatabaseCommit
Commit(s) ==
  /\ committed' = [committed EXCEPT ![s] = meta[s]]
  /\ UNCHANGED meta

Set(k, s) == meta' = [meta EXCEPT ![s] = @ \cup {k}] /\ UNCHANGED committed
Remove(k, s) == meta' = [meta EXCEPT ![s] = @ \ {k}] /\ UNCHANGED committed
Delete(c, s) == registered' = [registered EXCEPT ![s] = @ \ {c}]
Register(c, s) == registered' = [registered EXCEPT ![s] = @ \cup {c}]

\* PushApplicationRecord with one record: it takes the place of one with its id.
Pushed(k, s) ==
  {a \in record : ~(a.key.id = k.id /\ a.key.type = k.type)} \cup {[key |-> k, storage |-> s]}

\* A loss of power, or of the process, ends the job; what was not committed is gone.
StoreCrash ==
  /\ meta' = committed
  /\ pc' = "idle" /\ j' = 1 /\ outcome' = "crash"
  /\ UNCHANGED <<registered, committed, services, history, jobs>>
=============================================================================
