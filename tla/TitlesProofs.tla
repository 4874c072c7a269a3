---------------------------- MODULE TitlesProofs ----------------------------
(***************************************************************************)
(* Proofs about Titles for every set of keys and contents, every container *)
(* and any number of jobs, failures and losses of power: what the console  *)
(* knows of a title is complete, whatever was interrupted.                 *)
(***************************************************************************)
EXTENDS Titles, FiniteSetTheorems, WellFoundedInduction, TLAPS

-------------------------------------------------------------------------------
(* The invariant *)

Removing == {"delete", "forget", "forgotten"}
Placing == {"commit", "push", "launch"}
Bringing == {"set"} \cup Placing
Working == Removing \cup {"register"} \cup Bringing

(* A reset that was made is made last, and one that is due is still to come. *)
Deferred ==
  /\ resets = "done" => launch = 0 /\ pc \notin InstallSteps
  /\ resets = "due" => pc \in InstallSteps

(* How far the title of an install has come: what it keeps of the contents that are there, *)
(* the versions of it that have to go, its contents, its key, its record. *)
Taken ==
  /\ pc = "fill" => run.stream
  /\ pc \in {"cnmt", "ncas"} => ~run.stream
  /\ pc \in InstallSteps \ {"exit"} => skipped \subseteq registered[Target]
  /\ pc \in Removing => victim # <<>> /\ SameTitle(victim[1], Current)
  /\ pc \in {"delete", "forget"} => victim[1] \in meta[victim[2]]
  /\ pc = "forgotten" => victim[1] \notin meta[victim[2]]
  /\ pc \in {"register", "set"} => \A s \in Storages : Victims(s) = {}
  /\ pc \in Placing => Current \in meta[Target]
  /\ pc \in Placing => \A s \in Storages : \A k \in Victims(s) : k = Current /\ s = Target
  /\ pc \in {"push", "launch"} => Current \in committed[Target]
  /\ pc = "register" => \A n \in 1..Len(Holds[Current]) : n < j => Holds[Current][n] \in registered[Target]
  /\ pc \in Bringing => Whole(Current, Target)
  /\ pc = "launch" => [key |-> Current, storage |-> Target] \in record

(* The tickets of what was looked at are imported or noted, and imported before anything *)
(* is removed. *)
TicketsOf(k) == ContentsOf(k) \cap Locked
Ticketed ==
  /\ run.stream /\ pc \in InstallSteps \ {"fill", "exit"} =>
       \A n \in DOMAIN run.batch : TicketsOf(run.batch[n]) \subseteq required \cup imported
  /\ pc \in {"decide", "ncas"} => {Holds[Current][1]} \cap Locked \subseteq required \cup imported
  /\ pc = "tickets" => TicketsOf(Current) \subseteq required \cup imported
  /\ pc \in {"remove"} \cup Working => TicketsOf(Current) \subseteq imported

(* What an install finished is the only version of its title, and the title under way is *)
(* another one. *)
Finished ==
  /\ InstalledIsWhole
  /\ pc \in InstallSteps => \A a \in done :
       /\ a.key \in meta[a.storage]
       /\ \A s \in Storages : \A k \in meta[s] : SameTitle(k, a.key) => k = a.key /\ s = a.storage
  /\ pc \in Working => \A a \in done : ~SameTitle(a.key, Current)
  /\ pc \in MoveSteps => done = {}

Copying == {"copy", "m_set", "m_commit", "m_forget", "m_push", "undo", "undone"}
Deleting == {"m_delete", "m_remove", "m_removed"}

\* the record, also while it is deleted to be pushed again
Named == IF pc \in {"m_push", "d_push"} THEN list ELSE record

(* A record has a title once.  A move has its source until the record names the target, and *)
(* the target is complete when it does; then nothing names the source. *)
Underway ==
  /\ \A a, b \in Named : SameId(a.key, b.key) => a = b
  /\ pc \in {"m_push", "d_push"} => record = {}
  /\ pc \in {"next"} \cup Copying \cup Deleting => \A a \in plan : a.storage # Dst
  /\ pc \in {"next"} \cup Copying \cup Deleting => pc \in {"undo", "undone"} \/ plan \subseteq Named
  /\ pc \in Copying \cup Deleting => \A a \in plan : ~SameId(a.key, Key)
  /\ pc \in Copying => Src # Dst
  /\ pc \in Copying \cup {"d_forget", "d_push", "m_delete", "m_remove"} => Key \in meta[Src]
  /\ pc = "copy" => \A n \in 1..Len(Holds[Key]) : n < j => Holds[Key][n] \in registered[Dst]
  /\ pc \in {"m_set", "m_commit", "m_forget", "m_push"} => Whole(Key, Dst)
  /\ pc \in {"m_commit", "m_forget", "m_push"} => Key \in meta[Dst]
  /\ pc \in {"m_forget", "m_push"} => Key \in committed[Dst]
  /\ pc \in Copying => \A a \in Named : SameId(a.key, Key) => a.storage = Src
  /\ pc \in Copying => placed \subseteq ContentsOf(Key)
  /\ pc \in Deleting => \A a \in Named : SameId(a.key, Key) => a.storage # Src
  /\ pc = "d_push" => \A a \in list : ~SameId(a.key, Key)
  /\ pc \in {"d_forget", "d_push"} => plan = {}

\* a key that its removal has taken out of the database in memory, with the commit to come
Leaving(s) ==
  {k \in Keys : \/ pc = "forgotten" /\ s = victim[2] /\ k = victim[1]
                \/ pc = "m_removed" /\ s = Src /\ k = Key}

Seen(s) == meta[s] \cup committed[s]

(* While no job has begun with a removal that was not on disk: memory and disk know one *)
(* version of a title, ... *)
OneEach == \A s, t \in Storages : \A k \in Seen(s), l \in Seen(t) : SameTitle(k, l) => k = l

(* ... nothing is on disk only while a job changes the databases, ... *)
OnDisk ==
  pc \notin {"idle", "exit", "undone"} => \A s \in Storages : committed[s] \subseteq meta[s] \cup Leaving(s)

(* ... a key is complete or being removed, ... *)
Complete == \A s \in Storages : \A k \in Seen(s) : Whole(k, s) \/ k \in cut[s]

(* ... and so is what the record names. *)
Truthful == \A a \in Named :
  \/ a \in withdrawn
  \/ a.key \in meta[a.storage] /\ a.key \in committed[a.storage] /\ Whole(a.key, a.storage)

Settled ==
  /\ OneEach /\ OnDisk /\ Complete /\ Truthful
  /\ pc \in Removing => [key |-> victim[1], storage |-> victim[2]] \in withdrawn
  /\ pc = "undone" => Key \in cut[Dst] \/ Key \notin Seen(Dst)

IInv ==
  /\ TypeOK /\ Deferred /\ Taken /\ Ticketed /\ Finished /\ Underway
  /\ unsettled \/ Settled

\* what a move leaves of an install
Aside ==
  /\ done' = IF pc = "idle" THEN {} ELSE done
  /\ UNCHANGED <<run, i, latest, victim, placeholders, skipped, required, resets>>

-------------------------------------------------------------------------------
(* Keys *)

\* A key has contents, and they are contents of the console.
LEMMA KeyTyping ==
  /\ \A k \in Keys : /\ k.type \in {"Application", "Patch", "AddOnContent"}
                     /\ k.id \in STRING /\ k.version \in Nat
                     /\ Holds[k] \in Seq(Contents) /\ Len(Holds[k]) \in Nat \ {0}
                     /\ ContentsOf(k) \subseteq Contents
                     /\ \A n \in 1..Len(Holds[k]) : Holds[k][n] \in ContentsOf(k)
BY KeysAssumption DEF KeysAssumption, ContentsOf

\* A title is the same title as far as ns (an id) and as far as yati (a type) are
\* concerned, and to be one title divides the keys into classes.
LEMMA OneTitle ==
  /\ \A k, l \in Keys : SameTitle(k, l) <=> SameId(k, l)
  /\ \A k \in Keys : SameTitle(k, k)
  /\ \A k, l \in Keys : SameTitle(k, l) => SameTitle(l, k)
  /\ \A k, l, m \in Keys : SameTitle(k, l) /\ SameTitle(l, m) => SameTitle(k, m)
BY KeysAssumption DEF KeysAssumption, SameTitle, SameId

\* The contents of another title are other contents.
LEMMA Apart ==
  \A k, l \in Keys : \A c : c \in ContentsOf(k) /\ c \in ContentsOf(l) => SameTitle(k, l)
BY KeysAssumption DEF KeysAssumption

\* Among some keys one has the highest version.
LEMMA Highest ==
  ASSUME NEW U \in SUBSET Keys, U # {}
  PROVE  \E k \in U : \A l \in U : l.version <= k.version
<1> DEFINE Top(V) == \E k \in V : \A l \in V : l.version <= k.version
<1> DEFINE B == {c \in Nat : \E V \in SUBSET Keys : V # {} /\ Cardinality(V) = c /\ ~Top(V)}
<1>1. \A V \in SUBSET Keys : IsFiniteSet(V) /\ Cardinality(V) \in Nat
  BY KeysAssumption, FS_Subset, FS_CardinalityType DEF KeysAssumption
<1>2. ASSUME B # {} PROVE FALSE
  <2> HIDE DEF Top
  <2>1. PICK m \in B : \A c \in B : m <= c
    <3>1. B \subseteq Nat
      OBVIOUS
    <3> DEFINE R == OpToRel(<, Nat)
    <3> HIDE DEF B
    <3>2. \A b, c \in Nat : b < c => <<b, c>> \in R
      BY DEF OpToRel
    <3>3. IsWellFoundedOn(R, Nat)
      BY NatLessThanWellFounded
    <3> HIDE DEF R
    <3>4. PICK m \in B : \A c \in B : ~(<<c, m>> \in R)
      BY <3>1, <3>3, <1>2, WFMin
    <3>5. m \in Nat /\ \A c \in B : c \in Nat /\ ~(c < m)
      BY <3>1, <3>2, <3>4
    <3> QED BY <3>5
  <2>2. PICK V \in SUBSET Keys : V # {} /\ Cardinality(V) = m /\ ~Top(V)
    BY <2>1
  <2>3. PICK x \in V : TRUE
    BY <2>2
  <2>4. Cardinality(V \ {x}) = m - 1 /\ m \in Nat /\ m - 1 \in Nat
    <3>1. IsFiniteSet(V) /\ Cardinality(V) = m
      BY <2>2, <1>1
    <3>2. Cardinality(V \ {x}) = m - 1
      BY <2>3, <3>1, FS_RemoveElement
    <3> QED BY <3>1, <3>2, <1>1
  <2>5. m - 1 \notin B
    BY <2>1, <2>4
  <2>6. V \ {x} = {} \/ Top(V \ {x})
    BY <2>4, <2>5, <2>2
  <2>7. \A k \in V : k.version \in Nat
    BY KeyTyping, <2>2
  <2>8. Top(V)
    BY <2>3, <2>6, <2>7 DEF Top
  <2> QED BY <2>8, <2>2
<1>3. Cardinality(U) \in Nat /\ Cardinality(U) \notin B
  BY <1>1, <1>2
<1>4. Top(U)
  <2> HIDE DEF Top
  <2> QED BY <1>3
<1> QED BY <1>4

-------------------------------------------------------------------------------
(* Types *)

\* the title under way
LEMMA CurrentTyping ==
  ASSUME InstallType
  PROVE  /\ Current \in Keys /\ Target \in Storages /\ run.batch \in Seq(Keys)
         /\ run.stream \in BOOLEAN /\ run.skip \in BOOLEAN
         /\ i \in DOMAIN run.batch /\ Len(run.batch) \in Nat
<1>1. run.batch \in Seq(Keys) /\ Target \in Storages
  BY BatchesAssumption DEF BatchesAssumption, InstallType, Runs, Target
<1> QED BY <1>1 DEF InstallType, Runs, Current

\* GetLatestVersion finds a version among the keys.
LEMMA LatestTyping ==
  ASSUME StoreType, InstallType
  PROVE  LatestVersion \in {k.version : k \in Keys}
<1> DEFINE Some == {Current} \cup (IF Current.type = "Patch" THEN {} ELSE Listed)
<1> DEFINE found == {Current.version} \cup
                    (IF Current.type = "Patch" THEN {} ELSE {k.version : k \in Listed})
<1>1. Some \in SUBSET Keys /\ Some # {}
  BY CurrentTyping DEF StoreType, Listed, Storages
<1>2. found = {k.version : k \in Some}
  OBVIOUS
<1>3. PICK k \in Some : \A l \in Some : l.version <= k.version
  <2> HIDE DEF Some
  <2> QED BY <1>1, Highest
<1>4. \E v \in found : \A w \in found : w <= v
  <2> HIDE DEF Some, found
  <2> QED BY <1>2, <1>3
<1>5. LatestVersion \in found
  <2>1. LatestVersion = CHOOSE v \in found : \A w \in found : w <= v
    BY DEF LatestVersion
  <2> HIDE DEF found
  <2> QED BY <2>1, <1>4
<1> QED
  <2> HIDE DEF Some, found
  <2> QED BY <1>5, <1>2, <1>1

\* What the console holds has its type.
LEMMA InitTypes == Init => TypeOK
<1> SUFFICES ASSUME Init PROVE TypeOK
  OBVIOUS
<1>1. PICK there \in SUBSET Copies :
        /\ record = there
        /\ meta = [s \in Storages |-> {a.key : a \in {b \in there : b.storage = s}}]
        /\ registered = [s \in Storages |-> UNION {ContentsOf(k) : k \in meta[s]}]
  BY DEF Init, StoreInit
<1>2. meta \in [Storages -> SUBSET Keys]
  BY <1>1 DEF Copies
<1>3. registered \in [Storages -> SUBSET Contents]
  BY <1>1, <1>2, KeyTyping
<1>4. StoreType
  <2>1. cut = [s \in Storages |-> {}] /\ cut \in [Storages -> SUBSET Keys]
    BY DEF Init, StoreInit
  <2>2. /\ committed = meta /\ imported \in SUBSET Locked /\ launch = 0
        /\ withdrawn = {} /\ ~unsettled /\ unsettled = FALSE /\ jobs = 0 /\ j = 1 /\ outcome = "none"
    BY DEF Init, StoreInit
  <2>3. meta \in [Storages -> SUBSET Keys] /\ committed \in [Storages -> SUBSET Keys]
    BY <1>2, <2>2
  <2>4. record \subseteq Copies
    BY <1>1
  <2>5. unsettled \in BOOLEAN
    BY <2>2
  <2>6. imported \subseteq Locked
    BY <2>2
  <2>7. launch \in {0} \cup {k.version : k \in Keys} /\ withdrawn \subseteq Copies
    BY <2>2
  <2>8. jobs \in Nat /\ j \in Nat \ {0} /\ outcome \in {"none", "success", "failed", "crash"}
    BY <2>2
  <2> QED BY <1>3, <2>1, <2>3, <2>4, <2>5, <2>6, <2>7, <2>8 DEF StoreType
<1>5. PICK b \in Batches : b = CHOOSE c \in Batches : TRUE
  BY BatchesAssumption DEF BatchesAssumption
<1>6. b \in Seq(Keys) /\ b # <<>> /\ 1 \in 1..Len(b)
  BY <1>5, BatchesAssumption DEF BatchesAssumption
<1>7. InstallType
  BY <1>5, <1>6 DEF Init, InstallInit, InstallType, Runs, Storages
<1>8. (CHOOSE k \in Keys : TRUE) \in Keys
  BY <1>6
<1>9. MoveType
  BY <1>8 DEF Init, MoveInit, MoveType, Storages
<1> QED BY <1>4, <1>7, <1>9 DEF TypeOK, Init, StoreInit

\* What an action of an install does not change keeps its type.
LEMMA InstallTypes ==
  ASSUME TypeOK, Taken, Install, UNCHANGED moving
  PROVE  TypeOK'
<1> USE DEF StoreType, InstallType, kept, databases, services, history, installing
<1> DEFINE Steps == {"idle"} \cup InstallSteps \cup MoveSteps
<1>0. StoreType /\ InstallType /\ MoveType
  BY DEF TypeOK
<1>c. /\ Current \in Keys /\ Target \in Storages /\ run.batch \in Seq(Keys)
      /\ Holds[Current] \in Seq(Contents) /\ Len(Holds[Current]) \in Nat \ {0}
      /\ ContentsOf(Current) \subseteq Contents
      /\ Holds[Current][1] \in ContentsOf(Current)
      /\ \A n \in 1..Len(Holds[Current]) : Holds[Current][n] \in Contents
      /\ \A n \in DOMAIN run.batch : run.batch[n] \in Keys
  <2>1. Current \in Keys /\ Target \in Storages /\ run.batch \in Seq(Keys)
    BY <1>0, CurrentTyping
  <2> QED BY <2>1, KeyTyping
<1>m. MoveType'
  BY <1>0 DEF MoveType, moving
<1>n. ASSUME NEW cs \in SUBSET Contents, InstallNca(cs) PROVE StoreType' /\ InstallType'
  BY <1>0, <1>n DEF InstallNca, There, HasRequiredTicket
<1>e. ASSUME EndsTitle, run' = run
      PROVE  /\ pc' \in Steps /\ i' \in 1..Len(run'.batch)
             /\ placeholders' \subseteq Contents /\ skipped' \subseteq Contents
  BY <1>0, <1>c, <1>e DEF EndsTitle, InstallSteps
<1>1. ASSUME InstallStart PROVE StoreType' /\ InstallType' /\ pc' \in Steps
  <2>1. run'.batch \in Seq(Keys) \ {<<>>}
    BY <1>1, BatchesAssumption DEF InstallStart, Runs, BatchesAssumption
  <2>2. 1 \in 1..Len(run'.batch)
    BY <2>1
  <2> QED BY <1>0, <1>1, <2>2 DEF InstallStart, Begins, InstallSteps
<1>2. ASSUME StreamFill PROVE StoreType' /\ InstallType' /\ pc' \in Steps
  <2>1. UNION {ContentsOf(run.batch[n]) : n \in DOMAIN run.batch} \in SUBSET Contents
    BY <1>c, KeyTyping
  <2> QED BY <1>2, <2>1, <1>n DEF StreamFill, InstallSteps
<1>3. ASSUME InstallCnmtNca PROVE StoreType' /\ InstallType' /\ pc' \in Steps
  <2>1. {Holds[Current][1]} \in SUBSET Contents
    BY <1>c
  <2> QED BY <1>3, <2>1, <1>n DEF InstallCnmtNca, InstallSteps
<1>4. ASSUME InstallNcas PROVE StoreType' /\ InstallType' /\ pc' \in Steps
  <2>1. ContentsOf(Current) \ {Holds[Current][1]} \in SUBSET Contents
    BY <1>c
  <2> QED BY <1>4, <2>1, <1>n DEF InstallNcas, InstallSteps
<1>5. ASSUME SkipTitle PROVE StoreType' /\ InstallType' /\ pc' \in Steps
  <2>1. run' = run
    BY <1>5 DEF SkipTitle
  <2> QED BY <1>0, <1>5, <2>1, <1>e DEF SkipTitle
<1>6. ASSUME TakeTitle PROVE StoreType' /\ InstallType' /\ pc' \in Steps
  <2>1. latest' \in {k.version : k \in Keys}
    BY <1>0, <1>6, LatestTyping DEF TakeTitle
  <2> QED BY <1>0, <1>6, <2>1 DEF TakeTitle, InstallSteps
<1>7. ASSUME ImportTickets PROVE StoreType' /\ InstallType' /\ pc' \in Steps
  BY <1>0, <1>7 DEF ImportTickets, InstallSteps
<1>8. ASSUME RemoveList PROVE StoreType' /\ InstallType' /\ pc' \in Steps
  <2>1. CASE \E s \in Storages : Pick(s)
    <3>1. PICK s \in Storages : Pick(s)
      BY <2>1
    <3>2. PICK k \in Victims(s) :
            /\ victim' = <<k, s>>
            /\ done' = done \ {[key |-> k, storage |-> s]}
            /\ withdrawn' = withdrawn \cup {[key |-> k, storage |-> s]}
            /\ pc' = "delete"
      BY <3>1 DEF Pick
    <3>3. k \in Keys /\ [key |-> k, storage |-> s] \in Copies
      BY <1>0 DEF Victims, Copies
    <3> QED BY <1>0, <1>8, <3>2, <3>3 DEF RemoveList, InstallSteps
  <2>2. CASE victim' = <<>> /\ pc' = "register" /\ UNCHANGED <<done, withdrawn>>
    BY <1>0, <1>8, <2>2 DEF RemoveList, InstallSteps
  <2> QED BY <1>8, <2>1, <2>2 DEF RemoveList, Storages
<1>9. ASSUME RemoveContent PROVE StoreType' /\ InstallType' /\ pc' \in Steps
  <2>1. victim \in Keys \X Storages
    BY <1>0, <1>9 DEF RemoveContent, Taken, Removing
  <2>2. cut' \in [Storages -> SUBSET Keys] /\ registered' \in [Storages -> SUBSET Contents]
    BY <1>0, <1>9, <2>1 DEF RemoveContent, Delete
  <2>3. j' \in Nat \ {0} /\ pc' \in Steps
    BY <1>0, <1>9 DEF RemoveContent, InstallSteps
  <2> QED BY <1>0, <1>9, <2>2, <2>3 DEF RemoveContent
<1>10. ASSUME RemoveKey PROVE StoreType' /\ InstallType' /\ pc' \in Steps
  BY <1>0, <1>10 DEF RemoveKey, Remove, InstallSteps
<1>11. ASSUME RemoveCommit PROVE StoreType' /\ InstallType' /\ pc' \in Steps
  BY <1>0, <1>11 DEF RemoveCommit, Commit, InstallSteps
<1>12. ASSUME RegisterContent PROVE StoreType' /\ InstallType' /\ pc' \in Steps
  <2>1. registered' \in [Storages -> SUBSET Contents] /\ j' \in Nat \ {0} /\ pc' \in Steps
    BY <1>0, <1>12, <1>c DEF RegisterContent, Register, InstallSteps
  <2>2. placeholders' \subseteq Contents
    BY <1>0, <1>12 DEF RegisterContent
  <2> QED BY <1>0, <1>12, <2>1, <2>2 DEF RegisterContent
<1>13. ASSUME SetKey PROVE StoreType' /\ InstallType' /\ pc' \in Steps
  BY <1>0, <1>13, <1>c DEF SetKey, Set, InstallSteps
<1>14. ASSUME CommitKey PROVE StoreType' /\ InstallType' /\ pc' \in Steps
  BY <1>0, <1>14, <1>c DEF CommitKey, Commit, InstallSteps
<1>15. ASSUME PushRecord PROVE StoreType' /\ InstallType' /\ pc' \in Steps
  BY <1>0, <1>15, <1>c DEF PushRecord, Pushed, Copies, InstallSteps
<1>16. ASSUME PushLaunch PROVE StoreType' /\ InstallType' /\ pc' \in Steps
  <2>1. run' = run
    BY <1>16 DEF PushLaunch
  <2>2. latest \in {0} \cup {k.version : k \in Keys}
    BY <1>0
  <2>3. resets' \in {"none", "due", "done"} /\ launch' \in {0} \cup {k.version : k \in Keys}
    BY <1>0, <1>16, <2>2 DEF PushLaunch, LaunchOf
  <2>4. done' \subseteq Copies
    BY <1>0, <1>16, <1>c DEF PushLaunch, Copies
  <2> QED BY <1>0, <1>16, <1>e, <2>1, <2>3, <2>4 DEF PushLaunch
<1>17. ASSUME InstallEnds PROVE StoreType' /\ InstallType' /\ pc' \in Steps
  BY <1>0, <1>17 DEF InstallEnds
<1>18. ASSUME InstallFails PROVE StoreType' /\ InstallType' /\ pc' \in Steps
  BY <1>0, <1>18, <1>c DEF InstallFails, Delete, InstallSteps
<1> QED
  BY <1>m, <1>1, <1>2, <1>3, <1>4, <1>5, <1>6, <1>7, <1>8, <1>9, <1>10, <1>11, <1>12, <1>13,
     <1>14, <1>15, <1>16, <1>17, <1>18 DEF Install, TypeOK

\* What an action of a move or a deletion does not change keeps its type.
LEMMA MoveTypes ==
  ASSUME TypeOK, Move, Aside
  PROVE  TypeOK'
<1> USE DEF StoreType, MoveType, kept, databases, services, history, moving
<1> DEFINE Steps == {"idle"} \cup InstallSteps \cup MoveSteps
<1>0. StoreType /\ InstallType /\ MoveType
  BY DEF TypeOK
<1>c. /\ Key \in Keys /\ Src \in Storages /\ Dst \in Storages
      /\ Holds[Key] \in Seq(Contents) /\ Len(Holds[Key]) \in Nat \ {0}
      /\ ContentsOf(Key) \subseteq Contents
      /\ \A n \in 1..Len(Holds[Key]) : Holds[Key][n] \in Contents
  <2>1. Key \in Keys /\ Src \in Storages /\ Dst \in Storages
    BY <1>0 DEF Key, Src, Dst
  <2> QED BY <2>1, KeyTyping
<1>m. InstallType'
  BY <1>0 DEF InstallType, Aside
<1>f. \A a \in Copies : a.key \in Keys /\ a.storage \in Storages /\ Found(a) \subseteq Keys
  BY <1>0 DEF Copies, Found
<1>1. ASSUME MoveStart PROVE StoreType' /\ MoveType' /\ pc' \in Steps
  <2>1. PICK target \in Storages : component' = [component EXCEPT !.dst = target]
    BY <1>1 DEF MoveStart
  <2>2. component' \in [key : Keys, src : Storages, dst : Storages]
    BY <1>0, <2>1
  <2>3. plan' \subseteq Copies
    BY <1>0, <1>1 DEF MoveStart
  <2> QED BY <1>0, <1>1, <2>2, <2>3 DEF MoveStart, Begins, MoveSteps
<1>2. ASSUME MoveNext PROVE StoreType' /\ MoveType' /\ pc' \in Steps
  <2>1. CASE plan = {}
    BY <1>0, <1>2, <2>1 DEF MoveNext
  <2>2. CASE plan # {}
    <3>0. PICK a \in plan : \E k \in Found(a) :
            /\ plan' = plan \ {a}
            /\ component' = [component EXCEPT !.key = k, !.src = a.storage]
      BY <1>2, <2>2 DEF MoveNext
    <3>1. PICK k \in Found(a) :
            /\ plan' = plan \ {a}
            /\ component' = [component EXCEPT !.key = k, !.src = a.storage]
      BY <3>0
    <3>2. component' \in [key : Keys, src : Storages, dst : Storages]
      BY <1>0, <1>f, <3>1
    <3>3. plan' \subseteq Copies
      BY <1>0, <3>1
    <3>4. /\ placed' = {} /\ has_meta' = FALSE /\ list' = {} /\ pc' = "copy" /\ j' = 1
          /\ UNCHANGED <<kept, jobs, outcome>>
      BY <1>2, <2>2 DEF MoveNext
    <3>5. MoveType'
      BY <3>2, <3>3, <3>4
    <3> QED BY <1>0, <3>4, <3>5 DEF MoveSteps
  <2> QED BY <2>1, <2>2
<1>3. ASSUME MoveContent PROVE StoreType' /\ MoveType' /\ pc' \in Steps
  BY <1>0, <1>3, <1>c DEF MoveContent, Register, MoveSteps
<1>4. ASSUME MoveSet PROVE StoreType' /\ MoveType' /\ pc' \in Steps
  BY <1>0, <1>4, <1>c DEF MoveSet, Set, MoveSteps
<1>5. ASSUME MoveCommit PROVE StoreType' /\ MoveType' /\ pc' \in Steps
  BY <1>0, <1>5, <1>c DEF MoveCommit, Commit, MoveSteps
<1>6. ASSUME MoveForget PROVE StoreType' /\ MoveType' /\ pc' \in Steps
  BY <1>0, <1>6 DEF MoveForget, MoveSteps
<1>7. ASSUME MovePush PROVE StoreType' /\ MoveType' /\ pc' \in Steps
  <2>1. Repointed \subseteq Copies
    BY <1>0, <1>c DEF Repointed, Copies
  <2>2. withdrawn' \subseteq Copies
    BY <1>0, <1>7, <1>c DEF MovePush, Copies
  <2> QED BY <1>0, <1>7, <2>1, <2>2 DEF MovePush, MoveSteps
<1>8. ASSUME DeleteContent PROVE StoreType' /\ MoveType' /\ pc' \in Steps
  BY <1>0, <1>8, <1>c DEF DeleteContent, Delete, MoveSteps
<1>9. ASSUME DeleteKey PROVE StoreType' /\ MoveType' /\ pc' \in Steps
  BY <1>0, <1>9, <1>c DEF DeleteKey, Remove, MoveSteps
<1>10. ASSUME DeleteCommit PROVE StoreType' /\ MoveType' /\ pc' \in Steps
  BY <1>0, <1>10, <1>c DEF DeleteCommit, Commit, MoveSteps
<1>11. ASSUME DeleteStart PROVE StoreType' /\ MoveType' /\ pc' \in Steps
  <2>0. PICK a \in record :
          \E k \in Found(a) : component' = [key |-> k, src |-> a.storage, dst |-> a.storage]
    BY <1>11 DEF DeleteStart
  <2>1. PICK k \in Found(a) : component' = [key |-> k, src |-> a.storage, dst |-> a.storage]
    BY <2>0
  <2>2. component' \in [key : Keys, src : Storages, dst : Storages]
    BY <1>0, <1>f, <2>1
  <2>3. /\ plan' = {} /\ placed' = {} /\ has_meta' = FALSE /\ list' = list /\ pc' = "d_forget"
        /\ Begins /\ UNCHANGED j /\ jobs' = jobs + 1 /\ outcome' = "none"
    BY <1>11 DEF DeleteStart
  <2>4. MoveType'
    BY <1>0, <2>2, <2>3
  <2> QED BY <1>0, <2>3, <2>4 DEF Begins, MoveSteps
<1>12. ASSUME DeleteForget PROVE StoreType' /\ MoveType' /\ pc' \in Steps
  BY <1>0, <1>12 DEF DeleteForget, MoveSteps
<1>13. ASSUME DeletePush PROVE StoreType' /\ MoveType' /\ pc' \in Steps
  BY <1>0, <1>13 DEF DeletePush, MoveSteps
<1>14. ASSUME MoveFails PROVE StoreType' /\ MoveType' /\ pc' \in Steps
  BY <1>0, <1>14 DEF MoveFails, MoveSteps
<1>15. ASSUME RollbackMeta PROVE StoreType' /\ MoveType' /\ pc' \in Steps
  <2>1. meta' \in [Storages -> SUBSET Keys]
    BY <1>0, <1>15, <1>c DEF RollbackMeta
  <2>2. committed' \in [Storages -> SUBSET Keys]
    BY <1>0, <1>15, <1>c, <2>1 DEF RollbackMeta
  <2>3. cut' \in [Storages -> SUBSET Keys]
    BY <1>0, <1>15, <1>c DEF RollbackMeta
  <2> QED BY <1>0, <1>15, <2>1, <2>2, <2>3 DEF RollbackMeta, MoveSteps
<1>16. ASSUME RollbackContents PROVE StoreType' /\ MoveType' /\ pc' \in Steps
  BY <1>0, <1>16, <1>c DEF RollbackContents
<1> QED
  BY <1>m, <1>1, <1>2, <1>3, <1>4, <1>5, <1>6, <1>7, <1>8, <1>9, <1>10, <1>11, <1>12, <1>13,
     <1>14, <1>15, <1>16 DEF Move, TypeOK

\* So does a loss of power.
LEMMA CrashTypes ==
  ASSUME TypeOK, Crash
  PROVE  TypeOK'
<1>1. StoreType'
  BY DEF TypeOK, StoreType, Crash, StoreCrash, kept, services, history
<1>2. InstallType' /\ MoveType'
  BY DEF TypeOK, InstallType, MoveType, Crash, InstallForgets, MoveForgets
<1> QED BY <1>1, <1>2 DEF TypeOK, Crash, StoreCrash

-------------------------------------------------------------------------------
(* The launch version *)

\* A reset that was made stays the last word of its install.
LEMMA StepDeferred ==
  ASSUME TypeOK, [Next]_vars, Taken
  PROVE  Deferred => Deferred'
<1>1. CASE Crash
  BY <1>1 DEF Deferred, Crash, StoreCrash, InstallForgets
<1>2. CASE UNCHANGED vars
  BY <1>2 DEF Deferred, vars, kept, services, installing
<1>3. CASE Move /\ Aside
  <2>1. launch' = launch /\ resets' = resets /\ pc \notin InstallSteps /\ pc' \notin InstallSteps
    <3> USE DEF kept, services, InstallSteps, Aside
    <3>1. CASE MoveStart \/ MoveNext \/ MoveContent \/ MoveSet \/ MoveCommit \/ MoveForget
      BY <1>3, <3>1 DEF MoveStart, MoveNext, MoveContent, MoveSet, MoveCommit, MoveForget, Begins
    <3>2. CASE MovePush \/ DeleteContent \/ DeleteKey \/ DeleteCommit \/ DeleteStart
      BY <1>3, <3>2 DEF MovePush, DeleteContent, DeleteKey, DeleteCommit, DeleteStart, Begins
    <3>3. CASE DeleteForget \/ DeletePush \/ MoveFails \/ RollbackMeta \/ RollbackContents
      BY <1>3, <3>3 DEF DeleteForget, DeletePush, MoveFails, RollbackMeta, RollbackContents
    <3> QED BY <1>3, <3>1, <3>2, <3>3 DEF Move
  <2> QED BY <2>1 DEF Deferred
<1>4. CASE Install
  <2> USE DEF kept, services, InstallSteps, installing, Deferred
  <2>1. CASE InstallStart \/ StreamFill \/ InstallCnmtNca \/ SkipTitle \/ TakeTitle \/ InstallNcas
    BY <2>1 DEF InstallStart, StreamFill, InstallCnmtNca, SkipTitle, TakeTitle, InstallNcas, InstallNca, EndsTitle
  <2>2. CASE ImportTickets \/ RemoveContent \/ RemoveKey \/ RemoveCommit \/ RegisterContent
    BY <2>2 DEF ImportTickets, RemoveContent, RemoveKey, RemoveCommit, RegisterContent
  <2>3. CASE RemoveList
    <3>1. pc = "remove" /\ pc' \in {"delete", "register"} /\ resets' = resets
      BY <2>3 DEF RemoveList, Pick
    <3> QED BY <3>1
  <2>4. CASE SetKey \/ CommitKey \/ PushRecord \/ InstallFails
    BY <2>4 DEF SetKey, CommitKey, PushRecord, InstallFails
  <2>5. CASE PushLaunch
    BY <2>5 DEF PushLaunch, LaunchOf, EndsTitle
  <2>6. CASE InstallEnds
    BY <2>6 DEF InstallEnds
  <2> QED BY <1>4, <2>1, <2>2, <2>3, <2>4, <2>5, <2>6 DEF Install
<1> QED BY <1>1, <1>2, <1>3, <1>4 DEF Next, Aside

-------------------------------------------------------------------------------
(* The title of an install *)

\* Installs and moves have steps of their own.
LEMMA MoveControl ==
  ASSUME Move
  PROVE  pc \in {"idle"} \cup MoveSteps /\ pc' \in {"idle"} \cup MoveSteps
<1> USE DEF MoveSteps
<1>1. CASE MoveStart \/ MoveNext \/ MoveContent \/ MoveSet \/ MoveCommit \/ MoveForget
  BY <1>1 DEF MoveStart, MoveNext, MoveContent, MoveSet, MoveCommit, MoveForget
<1>2. CASE MovePush \/ DeleteContent \/ DeleteKey \/ DeleteCommit \/ DeleteStart
  BY <1>2 DEF MovePush, DeleteContent, DeleteKey, DeleteCommit, DeleteStart
<1>3. CASE DeleteForget \/ DeletePush \/ MoveFails \/ RollbackMeta \/ RollbackContents
  BY <1>3 DEF DeleteForget, DeletePush, MoveFails, RollbackMeta, RollbackContents
<1> QED BY <1>1, <1>2, <1>3 DEF Move

\* The same, of the install.
LEMMA InstallControl ==
  ASSUME Install
  PROVE  pc \in {"idle"} \cup InstallSteps /\ pc' \in {"idle"} \cup InstallSteps
<1> USE DEF InstallSteps
<1>1. CASE InstallStart \/ StreamFill \/ InstallCnmtNca \/ SkipTitle \/ TakeTitle \/ InstallNcas
  BY <1>1 DEF InstallStart, StreamFill, InstallCnmtNca, SkipTitle, TakeTitle, InstallNcas, EndsTitle
<1>2. CASE ImportTickets \/ RemoveContent \/ RemoveKey \/ RemoveCommit \/ RegisterContent
  BY <1>2 DEF ImportTickets, RemoveContent, RemoveKey, RemoveCommit, RegisterContent
<1>3. CASE RemoveList
  BY <1>3 DEF RemoveList, Pick
<1>4. CASE SetKey \/ CommitKey \/ PushRecord \/ PushLaunch \/ InstallEnds \/ InstallFails
  BY <1>4 DEF SetKey, CommitKey, PushRecord, PushLaunch, EndsTitle, InstallEnds, InstallFails
<1> QED BY <1>1, <1>2, <1>3, <1>4 DEF Install

\* A step of a move is no step of an install.
LEMMA Disjoint ==
  \A step : step \in {"idle"} \cup MoveSteps => step \notin InstallSteps \cup Working
BY DEF MoveSteps, InstallSteps, Working, Removing, Placing, Bringing

\* A move has no title of an install under way.
LEMMA MoveRest ==
  ASSUME Move, Aside, Finished
  PROVE  Taken' /\ Ticketed' /\ Finished'
<1>1. pc' \notin InstallSteps \cup Working
  BY MoveControl, Disjoint
<1>2. pc' \notin {"fill", "cnmt", "ncas", "decide", "tickets", "remove", "register", "set", "push", "launch",
                  "delete", "forget", "forgotten", "commit"}
  BY <1>1 DEF InstallSteps
<1>3. done' = {}
  BY MoveControl DEF Aside, Finished
<1>4. Taken' /\ Ticketed'
  BY <1>1, <1>2 DEF Taken, Ticketed, Working, Removing, Placing, Bringing
<1>5. Finished'
  BY <1>1, <1>3 DEF Finished, InstalledIsWhole
<1> QED BY <1>4, <1>5

\* A loss of power leaves what was finished.
LEMMA CrashRest ==
  ASSUME Crash, Finished, Underway
  PROVE  Taken' /\ Ticketed' /\ Finished' /\ Underway'
<1>1. /\ pc' = "idle" /\ done' = done
      /\ UNCHANGED <<registered, committed, record, imported>>
  BY DEF Crash, StoreCrash, InstallForgets, services
<1>2. Taken' /\ Ticketed'
  BY <1>1 DEF Taken, Ticketed, Working, Removing, Placing, Bringing, InstallSteps
<1>3. Finished'
  BY <1>1 DEF Finished, InstalledIsWhole, Whole, Working, Removing, Placing, Bringing, InstallSteps, MoveSteps
<1>4. \A a, b \in record : SameId(a.key, b.key) => a = b
  BY DEF Underway, Named
<1>5. Underway'
  BY <1>1, <1>4 DEF Underway, Named, Copying, Deleting
<1> QED BY <1>2, <1>3, <1>5

\* An install replaces a title in the record, or nothing.
LEMMA InstallUnderway ==
  ASSUME TypeOK, Install, Underway
  PROVE  Underway'
<1>1. pc \notin {"m_push", "d_push"} /\ pc' \notin {"next", "d_forget", "d_push"} \cup Copying \cup Deleting
  BY InstallControl DEF InstallSteps, Copying, Deleting
<1>2. \A a, b \in record : SameId(a.key, b.key) => a = b
  BY <1>1 DEF Underway, Named
<1>3. Current \in Keys /\ Target \in Storages
  BY CurrentTyping DEF TypeOK
<1>4. record' = record \/ record' = Pushed(Current, Target)
  <2> USE DEF kept, services, Begins, installing
  <2>1. CASE InstallStart \/ StreamFill \/ InstallCnmtNca \/ SkipTitle \/ TakeTitle \/ InstallNcas
    BY <2>1 DEF InstallStart, StreamFill, InstallCnmtNca, SkipTitle, TakeTitle, InstallNcas, InstallNca
  <2>2. CASE ImportTickets \/ RemoveList \/ RemoveContent \/ RemoveKey \/ RemoveCommit \/ RegisterContent
    BY <2>2 DEF ImportTickets, RemoveList, RemoveContent, RemoveKey, RemoveCommit, RegisterContent
  <2>3. CASE SetKey \/ CommitKey \/ PushRecord \/ PushLaunch \/ InstallEnds \/ InstallFails
    BY <2>3 DEF SetKey, CommitKey, PushRecord, PushLaunch, InstallEnds, InstallFails
  <2> QED BY <2>1, <2>2, <2>3 DEF Install
<1>5. \A a, b \in Pushed(Current, Target) : SameId(a.key, b.key) => a = b
  <2> DEFINE new == [key |-> Current, storage |-> Target]
  <2>1. new.key = Current
    OBVIOUS
  <2>2. \A a \in Pushed(Current, Target) : a = new \/ (a \in record /\ ~SameId(a.key, Current))
    BY DEF Pushed, SameId
  <2> HIDE DEF new
  <2>3. \A k : SameId(k, Current) <=> SameId(Current, k)
    BY DEF SameId
  <2> QED BY <1>2, <2>1, <2>2, <2>3
<1>6. \A a, b \in record' : SameId(a.key, b.key) => a = b
  BY <1>2, <1>4, <1>5
<1> QED BY <1>1, <1>6 DEF Underway, Named, Copying, Deleting

\* What a step of an install has reached is where its title stands.
LEMMA InstallTaken ==
  ASSUME TypeOK, Taken, Install
  PROVE  Taken'
<1> USE DEF kept, databases, services, history, installing, InstallSteps, Removing, Placing, Bringing
<1>0. /\ StoreType /\ InstallType
      /\ Current \in Keys /\ Target \in Storages
      /\ Len(Holds[Current]) \in Nat \ {0} /\ j \in Nat \ {0}
      /\ \A n \in 1..Len(Holds[Current]) : Holds[Current][n] \in ContentsOf(Current)
  BY CurrentTyping, KeyTyping DEF TypeOK, StoreType
<1>t. /\ registered \in [Storages -> SUBSET Contents]
      /\ meta \in [Storages -> SUBSET Keys] /\ committed \in [Storages -> SUBSET Keys]
  BY <1>0 DEF StoreType
<1>u. ASSUME UNCHANGED <<run, i>> PROVE Current' = Current /\ Target' = Target
  BY <1>u DEF Current, Target
<1>n. ASSUME NEW cs, InstallNca(cs), pc \in {"fill", "cnmt", "ncas"}
      PROVE  skipped' \subseteq registered'[Target']
  BY <1>n, <1>u DEF InstallNca, There, Taken
<1>e. ASSUME EndsTitle, run' = run PROVE pc' \in {"decide", "cnmt", "reset"} /\ (pc' = "cnmt" => ~run'.stream) /\ skipped' = {}
  BY <1>e DEF EndsTitle
<1>1. ASSUME InstallStart PROVE Taken'
  BY <1>1 DEF InstallStart, Runs, Taken
<1>2. ASSUME StreamFill PROVE Taken'
  BY <1>2, <1>n DEF StreamFill, Taken
<1>3. ASSUME InstallCnmtNca PROVE Taken'
  BY <1>3, <1>n DEF InstallCnmtNca, Taken
<1>4. ASSUME InstallNcas PROVE Taken'
  BY <1>4, <1>n DEF InstallNcas, Taken
<1>5. ASSUME SkipTitle PROVE Taken'
  <2>1. run' = run
    BY <1>5 DEF SkipTitle
  <2> QED BY <1>5, <2>1, <1>e DEF SkipTitle, Taken
<1>6. ASSUME TakeTitle PROVE Taken'
  BY <1>6, <1>u DEF TakeTitle, Taken
<1>7. ASSUME ImportTickets PROVE Taken'
  BY <1>7, <1>u DEF ImportTickets, Taken
<1>8. ASSUME RemoveList PROVE Taken'
  <2>1. Current' = Current /\ Target' = Target /\ meta' = meta /\ skipped' \subseteq registered'[Target'] /\ j' = 1
    BY <1>8, <1>u DEF RemoveList, Taken
  <2>2. CASE \E s \in Storages : Pick(s)
    <3>1. PICK s \in Storages, k \in Keys : k \in Victims(s) /\ victim' = <<k, s>> /\ pc' = "delete"
      BY <2>2, <1>t DEF Pick, Victims
    <3>2. SameTitle(k, Current) /\ k \in meta[s]
      BY <3>1 DEF Victims
    <3> QED BY <2>1, <3>1, <3>2 DEF Taken
  <2>3. CASE Victims("nand") = {} /\ Victims("sd") = {} /\ pc' = "register"
    <3>1. \A s \in Storages : Victims(s)' = {}
      BY <2>1, <2>3 DEF Victims, Storages
    <3> QED BY <2>1, <2>3, <3>1 DEF Taken
  <2> QED BY <1>8, <2>2, <2>3 DEF RemoveList, Storages
<1>9. ASSUME RemoveContent PROVE Taken'
  <2>1. /\ Current' = Current /\ Target' = Target /\ meta' = meta /\ victim' = victim
        /\ pc = "delete" /\ pc' \in {"delete", "forget"} /\ skipped' = skipped
    BY <1>9, <1>u DEF RemoveContent
  <2>2. skipped \subseteq registered'[Target]
    BY <1>9, <1>t, <1>0, <2>1 DEF RemoveContent, Delete, Spared, Taken
  <2> QED BY <2>1, <2>2 DEF Taken
<1>10. ASSUME RemoveKey PROVE Taken'
  <2>1. victim \in Keys \X Storages
    BY <1>0, <1>10 DEF RemoveKey, Taken, InstallType
  <2> QED BY <1>10, <1>u, <1>t, <2>1 DEF RemoveKey, Remove, Taken
<1>11. ASSUME RemoveCommit PROVE Taken'
  BY <1>11, <1>u DEF RemoveCommit, Commit, Taken
<1>12. ASSUME RegisterContent PROVE Taken'
  <2>1. /\ Current' = Current /\ Target' = Target /\ meta' = meta
        /\ pc = "register" /\ pc' \in {"register", "set"} /\ skipped' = skipped
        /\ \A s \in Storages : Victims(s) = {} /\ Victims(s)' = {}
    BY <1>12, <1>u DEF RegisterContent, Victims, Taken
  <2>2. CASE j > Len(Holds[Current])
    <3>1. \A n \in 1..Len(Holds[Current]) : Holds[Current][n] \in registered[Target]
      BY <2>1, <2>2, <1>0 DEF Taken
    <3>2. Whole(Current, Target) /\ registered' = registered /\ pc' = "set"
      BY <3>1, <2>2, <1>12, <1>0, KeyTyping DEF Whole, ContentsOf, RegisterContent
    <3>3. Whole(Current, Target)'
      BY <2>1, <3>2 DEF Whole
    <3> QED BY <2>1, <3>2, <3>3 DEF Taken
  <2>3. CASE ~(j > Len(Holds[Current]))
    <3>1. j' = j + 1 /\ pc' = "register"
      BY <1>12, <2>3 DEF RegisterContent
    <3>2. registered[Target] \subseteq registered'[Target] /\ Holds[Current][j] \in registered'[Target]
      BY <1>12, <2>3, <1>t, <1>0, <2>1 DEF RegisterContent, Register, Taken
    <3> QED BY <1>0, <2>1, <3>1, <3>2 DEF Taken
  <2> QED BY <2>2, <2>3
<1>13. ASSUME SetKey PROVE Taken'
  <2>1. /\ Current' = Current /\ Target' = Target /\ pc = "set" /\ pc' = "commit"
        /\ skipped' = skipped /\ registered' = registered
        /\ meta' = [meta EXCEPT ![Target] = @ \cup {Current}]
    BY <1>13, <1>u DEF SetKey, Set
  <2>2. Current \in meta'[Target]
    BY <2>1, <1>t, <1>0
  <2>3. \A s \in Storages : \A k \in meta'[s] : SameTitle(k, Current) => k = Current /\ s = Target
    BY <2>1, <1>t, <1>0 DEF Taken, Victims
  <2>4. Whole(Current, Target)'
    BY <2>1 DEF Whole, Taken
  <2> QED BY <2>1, <2>2, <2>3, <2>4 DEF Taken, Victims
<1>14. ASSUME CommitKey PROVE Taken'
  <2>1. /\ Current' = Current /\ Target' = Target /\ pc = "commit" /\ pc' = "push"
        /\ skipped' = skipped /\ registered' = registered /\ meta' = meta
        /\ Current \in committed'[Target]
    BY <1>14, <1>u, <1>t, <1>0 DEF CommitKey, Commit, Taken
  <2>2. Whole(Current, Target)'
    BY <2>1 DEF Whole, Taken
  <2> QED BY <2>1, <2>2 DEF Taken, Victims
<1>15. ASSUME PushRecord PROVE Taken'
  <2>1. /\ Current' = Current /\ Target' = Target /\ pc = "push" /\ pc' = "launch"
        /\ UNCHANGED <<skipped, registered, meta, committed>>
        /\ [key |-> Current, storage |-> Target] \in record'
    BY <1>15, <1>u DEF PushRecord, Pushed
  <2>2. Whole(Current, Target)'
    BY <2>1 DEF Whole, Taken
  <2> QED BY <2>1, <2>2 DEF Taken, Victims
<1>16. ASSUME PushLaunch PROVE Taken'
  <2>1. run' = run
    BY <1>16 DEF PushLaunch
  <2> QED BY <1>16, <2>1, <1>e DEF PushLaunch, Taken
<1>17. ASSUME InstallEnds PROVE Taken'
  BY <1>17 DEF InstallEnds, Taken
<1>18. ASSUME InstallFails PROVE Taken'
  BY <1>18 DEF InstallFails, Taken
<1> QED
  BY <1>1, <1>2, <1>3, <1>4, <1>5, <1>6, <1>7, <1>8, <1>9, <1>10, <1>11, <1>12, <1>13,
     <1>14, <1>15, <1>16, <1>17, <1>18 DEF Install

\* Tickets are noted when a content is looked at and imported before the removal.
LEMMA InstallTicketed ==
  ASSUME TypeOK, Ticketed, Taken, Install
  PROVE  Ticketed'
<1> USE DEF kept, databases, services, history, installing, InstallSteps, Removing, Placing, Bringing, Working
<1>0. /\ StoreType /\ InstallType
      /\ Current \in Keys /\ run.batch \in Seq(Keys) /\ run.batch # <<>> /\ i \in DOMAIN run.batch
      /\ run.stream \in BOOLEAN
      /\ Len(Holds[Current]) \in Nat \ {0}
      /\ \A n \in 1..Len(Holds[Current]) : Holds[Current][n] \in ContentsOf(Current)
  BY CurrentTyping, KeyTyping DEF TypeOK
<1>f. Holds[Current][1] \in ContentsOf(Current)
  BY <1>0
<1>u. ASSUME UNCHANGED <<run, i>> PROVE Current' = Current
  BY <1>u DEF Current
<1>e. ASSUME EndsTitle, run' = run, imported' = imported, required' = required, pc \in {"decide", "launch"}
      PROVE  Ticketed'
  <2>1. CASE run.stream
    <3>1. \A n \in DOMAIN run.batch : TicketsOf(run.batch[n]) \subseteq required \cup imported
      BY <1>e, <2>1 DEF Ticketed
    <3>2. pc' \in {"decide", "reset"} /\ i' \in DOMAIN run.batch /\ Current' = run.batch[i']
      BY <1>0, <1>e, <2>1 DEF EndsTitle, Current
    <3>3. Current' \in Keys
      BY <3>2, <1>0
    <3>4. Holds[Current'][1] \in ContentsOf(Current')
      BY <3>3, KeyTyping
    <3>5. TicketsOf(Current') \subseteq required \cup imported
      BY <3>1, <3>2
    <3>6. {Holds[Current'][1]} \cap Locked \subseteq required \cup imported
      BY <3>4, <3>5 DEF TicketsOf
    <3> QED BY <1>e, <3>1, <3>2, <3>6 DEF Ticketed
  <2>2. CASE ~run.stream
    <3>1. pc' \in {"cnmt", "reset"}
      BY <1>e, <2>2 DEF EndsTitle
    <3> QED BY <1>e, <2>2, <3>1 DEF Ticketed
  <2> QED BY <2>1, <2>2
<1>1. ASSUME InstallStart PROVE Ticketed'
  BY <1>1 DEF InstallStart, Ticketed
<1>2. ASSUME StreamFill PROVE Ticketed'
  <2> DEFINE All == UNION {ContentsOf(run.batch[n]) : n \in DOMAIN run.batch}
  <2>a. InstallNca(All) /\ pc = "fill" /\ pc' = "decide"
    BY <1>2 DEF StreamFill
  <2>b. \A n \in DOMAIN run.batch : ContentsOf(run.batch[n]) \subseteq All
    OBVIOUS
  <2> HIDE DEF All
  <2>1. /\ pc' = "decide" /\ Current' = Current /\ run' = run /\ run.stream /\ imported' = imported
        /\ required' = required \cup (All \cap Locked)
    BY <2>a, <1>u DEF InstallNca, HasRequiredTicket, Taken
  <2>2. \A n \in DOMAIN run.batch : TicketsOf(run.batch[n]) \subseteq required' \cup imported
    BY <2>1, <2>b DEF TicketsOf
  <2>3. {Holds[Current][1]} \cap Locked \subseteq required' \cup imported
    BY <2>2, <1>0, <1>f DEF TicketsOf, Current
  <2> QED BY <2>1, <2>2, <2>3 DEF Ticketed
<1>3. ASSUME InstallCnmtNca PROVE Ticketed'
  <2>1. /\ pc' = "decide" /\ Current' = Current /\ run' = run /\ ~run.stream /\ imported' = imported
        /\ required' = required \cup ({Holds[Current][1]} \cap Locked)
    BY <1>3, <1>u DEF InstallCnmtNca, InstallNca, HasRequiredTicket, Taken
  <2> QED BY <2>1 DEF Ticketed
<1>4. ASSUME InstallNcas PROVE Ticketed'
  <2>1. /\ pc = "ncas" /\ pc' = "tickets" /\ Current' = Current /\ run' = run /\ ~run.stream /\ imported' = imported
        /\ required' = required \cup ((ContentsOf(Current) \ {Holds[Current][1]}) \cap Locked)
    BY <1>4, <1>u DEF InstallNcas, InstallNca, HasRequiredTicket, Taken
  <2>2. TicketsOf(Current) \subseteq required' \cup imported
    BY <2>1 DEF Ticketed, TicketsOf
  <2> QED BY <2>1, <2>2 DEF Ticketed
<1>5. ASSUME SkipTitle PROVE Ticketed'
  BY <1>5, <1>e DEF SkipTitle
<1>6. ASSUME TakeTitle PROVE Ticketed'
  <2>1. /\ pc = "decide" /\ pc' = IF run.stream THEN "tickets" ELSE "ncas"
        /\ Current' = Current /\ run' = run /\ imported' = imported /\ required' = required
    BY <1>6, <1>u DEF TakeTitle
  <2>2. run.stream => TicketsOf(Current) \subseteq required \cup imported
    BY <2>1, <1>0 DEF Ticketed, Current
  <2> QED BY <2>1, <2>2 DEF Ticketed
<1>7. ASSUME ImportTickets PROVE Ticketed'
  BY <1>7, <1>u DEF ImportTickets, Ticketed
<1>8. ASSUME RemoveList PROVE Ticketed'
  <2>1. pc = "remove" /\ pc' \in {"delete", "register"} /\ Current' = Current /\ UNCHANGED <<run, imported, required>>
    BY <1>8, <1>u DEF RemoveList, Pick
  <2> QED BY <2>1 DEF Ticketed
<1>9. ASSUME RemoveContent \/ RemoveKey \/ RemoveCommit PROVE Ticketed'
  <2>1. pc \in Removing /\ pc' \in Removing \cup {"remove"} /\ Current' = Current /\ UNCHANGED <<run, imported, required>>
    BY <1>9, <1>u DEF RemoveContent, RemoveKey, RemoveCommit
  <2> QED BY <2>1 DEF Ticketed
<1>10. ASSUME RegisterContent \/ SetKey \/ CommitKey \/ PushRecord PROVE Ticketed'
  <2>1. pc \in Working /\ pc' \in Working /\ Current' = Current /\ UNCHANGED <<run, imported, required>>
    BY <1>10, <1>u DEF RegisterContent, SetKey, CommitKey, PushRecord
  <2> QED BY <2>1 DEF Ticketed
<1>11. ASSUME PushLaunch PROVE Ticketed'
  BY <1>11, <1>e DEF PushLaunch
<1>12. ASSUME InstallEnds \/ InstallFails PROVE Ticketed'
  <2>1. pc' \in {"idle", "exit"}
    BY <1>12 DEF InstallEnds, InstallFails
  <2> QED BY <2>1 DEF Ticketed
<1> QED
  BY <1>1, <1>2, <1>3, <1>4, <1>5, <1>6, <1>7, <1>8, <1>9, <1>10, <1>11, <1>12 DEF Install

\* What was finished survives the titles behind it.
LEMMA InstallFinished ==
  ASSUME TypeOK, Taken, Ticketed, Finished, Install
  PROVE  Finished'
<1> USE DEF kept, databases, services, history, installing, InstallSteps, Removing, Placing, Bringing, Working
<1> DEFINE Alone(a) == \A s \in Storages : \A k \in meta[s] : SameTitle(k, a.key) => k = a.key /\ s = a.storage
<1>0. /\ StoreType /\ InstallType
      /\ Current \in Keys /\ Target \in Storages
      /\ \A n \in 1..Len(Holds[Current]) : Holds[Current][n] \in ContentsOf(Current)
      /\ Len(Holds[Current]) \in Nat \ {0} /\ j \in Nat \ {0}
  BY CurrentTyping, KeyTyping DEF TypeOK, StoreType
<1>t. /\ registered \in [Storages -> SUBSET Contents]
      /\ meta \in [Storages -> SUBSET Keys] /\ committed \in [Storages -> SUBSET Keys]
      /\ imported \subseteq Locked /\ record \subseteq Copies
  BY <1>0 DEF StoreType
<1>d. \A a \in done : a \in Copies /\ a.key \in Keys /\ a.storage \in Storages
  BY <1>0 DEF InstallType, Copies
<1>m. pc \in InstallSteps => \A a \in done : a.key \in meta[a.storage] /\ Alone(a)
  BY DEF Finished
<1>u. ASSUME UNCHANGED <<run, i>> PROVE Current' = Current /\ Target' = Target
  BY <1>u DEF Current, Target
\* what was finished stays whole
<1>k. ASSUME done' \subseteq done, imported \subseteq imported',
             \A a \in done' : /\ a.key \in committed[a.storage] => a.key \in committed'[a.storage]
                              /\ ContentsOf(a.key) \cap registered[a.storage] \subseteq registered'[a.storage]
                              /\ a \in record => a \in record'
      PROVE  InstalledIsWhole'
  BY <1>k DEF Finished, InstalledIsWhole, Whole
\* a step that leaves the databases and what was finished alone
<1>s. ASSUME pc \in InstallSteps, pc' \in InstallSteps \cup {"idle"}, done' \subseteq done, meta' = meta,
             pc' \in Working => \A a \in done' : ~SameTitle(a.key, Current'),
             InstalledIsWhole'
      PROVE  Finished'
  <2>1. \A a \in done' : a.key \in meta'[a.storage] /\ Alone(a)'
    BY <1>s, <1>m
  <2>2. pc' \notin MoveSteps
    BY <1>s DEF MoveSteps
  <2> QED BY <1>s, <2>1, <2>2 DEF Finished
\* a step that changes nothing of it
<1>i. ASSUME done' = done, UNCHANGED <<imported, registered, committed, record>>
      PROVE  InstalledIsWhole'
  BY <1>i, <1>k
<1>1. ASSUME InstallStart PROVE Finished'
  <2>1. done' = {} /\ pc' \in {"fill", "cnmt"}
    BY <1>1 DEF InstallStart
  <2> QED BY <2>1 DEF Finished, InstalledIsWhole, MoveSteps
<1>2. ASSUME StreamFill \/ InstallCnmtNca \/ InstallNcas PROVE Finished'
  <2>1. /\ done' = done /\ meta' = meta /\ UNCHANGED <<imported, registered, committed, record>>
        /\ pc \in {"fill", "cnmt", "ncas"} /\ pc' \in {"decide", "tickets"}
    BY <1>2 DEF StreamFill, InstallCnmtNca, InstallNcas, InstallNca
  <2> QED BY <2>1, <1>i, <1>s
<1>3. ASSUME SkipTitle PROVE Finished'
  <2>1. /\ done' = done /\ meta' = meta /\ UNCHANGED <<imported, registered, committed, record>>
        /\ pc = "decide" /\ pc' \in {"decide", "cnmt", "reset"}
    BY <1>3 DEF SkipTitle, EndsTitle
  <2> QED BY <2>1, <1>i, <1>s
<1>4. ASSUME TakeTitle PROVE Finished'
  <2>1. /\ done' = done /\ meta' = meta /\ UNCHANGED <<imported, registered, committed, record>>
        /\ pc = "decide" /\ pc' \in {"tickets", "ncas"}
    BY <1>4 DEF TakeTitle
  <2> QED BY <2>1, <1>i, <1>s
<1>5. ASSUME ImportTickets PROVE Finished'
  <2>1. /\ done' = done /\ meta' = meta /\ UNCHANGED <<registered, committed, record>>
        /\ imported \subseteq imported' /\ pc = "tickets" /\ pc' = "remove"
    BY <1>5 DEF ImportTickets
  <2>2. InstalledIsWhole'
    BY <2>1, <1>k
  <2> QED BY <2>1, <2>2, <1>s
<1>6. ASSUME RemoveList PROVE Finished'
  <2>1. /\ meta' = meta /\ UNCHANGED <<imported, registered, committed, record>>
        /\ pc = "remove" /\ Current' = Current
    BY <1>6, <1>u DEF RemoveList
  <2>2. CASE \E s \in Storages : Pick(s)
    <3>1. PICK s \in Storages, k \in Keys :
            /\ k \in Victims(s) /\ pc' = "delete"
            /\ done' = done \ {[key |-> k, storage |-> s]}
      BY <2>2, <1>t DEF Pick, Victims
    <3>2. k \in meta[s] /\ SameTitle(k, Current)
      BY <3>1 DEF Victims
    <3>3. ASSUME NEW a \in done', SameTitle(a.key, Current) PROVE FALSE
      <4>1. a \in done /\ a # [key |-> k, storage |-> s]
        BY <3>1, <3>3
      <4>2. SameTitle(k, a.key)
        BY <3>2, <3>3, <4>1, <1>d, <1>0, OneTitle
      <4>3. k = a.key /\ s = a.storage
        BY <4>1, <4>2, <3>2, <2>1, <1>m
      <4> QED BY <4>1, <4>3, <1>d DEF Copies
    <3>4. InstalledIsWhole'
      BY <3>1, <2>1, <1>k
    <3> QED BY <2>1, <3>1, <3>3, <3>4, <1>s
  <2>3. CASE Victims("nand") = {} /\ Victims("sd") = {} /\ pc' = "register" /\ done' = done
    <3>1. \A a \in done' : ~SameTitle(a.key, Current)
      BY <2>1, <2>3, <1>m, <1>d DEF Victims, Storages
    <3> QED BY <2>1, <2>3, <3>1, <1>i, <1>s
  <2> QED BY <1>6, <2>2, <2>3 DEF RemoveList, Storages
<1>7. ASSUME RemoveContent PROVE Finished'
  <2>1. /\ done' = done /\ meta' = meta /\ UNCHANGED <<imported, committed, record>>
        /\ pc = "delete" /\ pc' \in {"delete", "forget"} /\ Current' = Current
    BY <1>7, <1>u DEF RemoveContent
  <2>2. victim \in Keys \X Storages /\ SameTitle(victim[1], Current)
    BY <2>1, <1>0 DEF Taken, InstallType
  <2>3. \A a \in done : ~SameTitle(a.key, Current)
    BY <2>1 DEF Finished
  <2>4. \A a \in done : ~SameTitle(a.key, victim[1])
    BY <2>2, <2>3, <1>d, <1>0, OneTitle
  <2>5. \A n \in 1..Len(Holds[victim[1]]) : Holds[victim[1]][n] \in ContentsOf(victim[1])
    BY <2>2, KeyTyping
  <2>6. \A a \in done : ContentsOf(a.key) \cap registered[a.storage] \subseteq registered'[a.storage]
    <3>1. CASE registered' = registered
      BY <3>1
    <3>2. CASE /\ j \in 1..Len(Holds[victim[1]])
               /\ registered' = [registered EXCEPT ![victim[2]] = @ \ {Holds[victim[1]][j]}]
      <4>1. \A a \in done : Holds[victim[1]][j] \notin ContentsOf(a.key)
        BY <3>2, <2>2, <2>4, <2>5, <1>d, Apart, OneTitle
      <4> QED BY <4>1, <3>2, <1>t, <1>d
    <3>3. Len(Holds[victim[1]]) \in Nat
      BY <2>2, KeyTyping
    <3>4. \/ registered' = registered
          \/ /\ ~(j > Len(Holds[victim[1]]))
             /\ registered' = [registered EXCEPT ![victim[2]] = @ \ {Holds[victim[1]][j]}]
      BY <1>7 DEF RemoveContent, Delete
    <3> QED BY SMTT(20), <1>0, <3>1, <3>2, <3>3, <3>4
  <2>7. InstalledIsWhole'
    BY <2>1, <2>6, <1>k
  <2> QED BY <2>1, <2>3, <2>7, <1>s
<1>8. ASSUME RemoveKey PROVE Finished'
  <2>1. /\ done' = done /\ UNCHANGED <<imported, committed, record, registered>>
        /\ pc = "forget" /\ pc' = "forgotten" /\ Current' = Current
        /\ meta' = [meta EXCEPT ![victim[2]] = @ \ {victim[1]}]
    BY <1>8, <1>u DEF RemoveKey, Remove
  <2>2. victim \in Keys \X Storages /\ SameTitle(victim[1], Current)
    BY <2>1, <1>0 DEF Taken, InstallType
  <2>3. \A a \in done : ~SameTitle(a.key, Current)
    BY <2>1 DEF Finished
  <2>4. \A a \in done : a.key # victim[1]
    BY <2>2, <2>3
  <2>5. \A s \in Storages : meta'[s] \subseteq meta[s]
    BY <2>1, <1>t, <2>2
  <2>6. \A a \in done : a.key \in meta'[a.storage] /\ Alone(a)'
    BY <2>1, <2>2, <2>4, <2>5, <1>m, <1>d, <1>t
  <2>7. InstalledIsWhole'
    BY <2>1, <1>i
  <2> QED BY <2>1, <2>3, <2>6, <2>7 DEF Finished, MoveSteps
<1>9. ASSUME RemoveCommit \/ CommitKey PROVE Finished'
  <2>1. PICK s \in Storages : /\ committed' = [committed EXCEPT ![s] = meta[s]] /\ meta' = meta
                              /\ done' = done /\ UNCHANGED <<imported, record, registered>> /\ Current' = Current
                              /\ pc \in {"forgotten", "commit"} /\ pc' \in {"remove", "push"}
    <3>1. CASE RemoveCommit
      <4>1. victim[2] \in Storages
        BY <3>1, <1>0 DEF RemoveCommit, Taken, InstallType
      <4> QED BY <3>1, <4>1, <1>u DEF RemoveCommit, Commit
    <3>2. CASE CommitKey
      BY <3>2, <1>0, <1>u DEF CommitKey, Commit
    <3> QED BY <1>9, <3>1, <3>2
  <2>2. \A a \in done : a.key \in committed[a.storage] => a.key \in committed'[a.storage]
    BY <2>1, <1>m, <1>d, <1>t
  <2>3. InstalledIsWhole'
    BY <2>1, <2>2, <1>k
  <2>4. \A a \in done : ~SameTitle(a.key, Current)
    BY <2>1 DEF Finished
  <2> QED BY <2>1, <2>3, <2>4, <1>s
<1>10. ASSUME RegisterContent PROVE Finished'
  <2>1. /\ done' = done /\ meta' = meta /\ UNCHANGED <<imported, committed, record>>
        /\ pc = "register" /\ pc' \in {"register", "set"} /\ Current' = Current
    BY <1>10, <1>u DEF RegisterContent
  <2>2. \A s \in Storages : registered[s] \subseteq registered'[s]
    BY <1>10, <1>t, <1>0 DEF RegisterContent, Register
  <2>3. InstalledIsWhole'
    BY <2>1, <2>2, <1>k, <1>d
  <2>4. \A a \in done : ~SameTitle(a.key, Current)
    BY <2>1 DEF Finished
  <2> QED BY <2>1, <2>3, <2>4, <1>s
<1>11. ASSUME SetKey PROVE Finished'
  <2>1. /\ done' = done /\ UNCHANGED <<imported, committed, record, registered>>
        /\ pc = "set" /\ pc' = "commit" /\ Current' = Current
        /\ meta' = [meta EXCEPT ![Target] = @ \cup {Current}]
    BY <1>11, <1>u DEF SetKey, Set
  <2>2. \A a \in done : ~SameTitle(a.key, Current) /\ ~SameTitle(Current, a.key)
    BY <2>1, <1>d, <1>0, OneTitle DEF Finished
  <2>3. \A a \in done : a.key \in meta'[a.storage] /\ Alone(a)'
    BY <2>1, <2>2, <1>m, <1>d, <1>t, <1>0
  <2>4. InstalledIsWhole'
    BY <2>1, <1>i
  <2> QED BY <2>1, <2>2, <2>3, <2>4 DEF Finished, MoveSteps
<1>12. ASSUME PushRecord PROVE Finished'
  <2>1. /\ done' = done /\ meta' = meta /\ UNCHANGED <<imported, committed, registered>>
        /\ pc = "push" /\ pc' = "launch" /\ Current' = Current /\ record' = Pushed(Current, Target)
    BY <1>12, <1>u DEF PushRecord
  <2>2. \A a \in done : ~SameTitle(a.key, Current)
    BY <2>1 DEF Finished
  <2>3. \A a \in done : ~(a.key.id = Current.id /\ a.key.type = Current.type)
    BY <2>2, <1>d, <1>0, OneTitle DEF SameId
  <2>4. \A a \in done : a \in record => a \in record'
    BY <2>1, <2>3 DEF Pushed
  <2>5. InstalledIsWhole'
    BY <2>1, <2>4, <1>k
  <2> QED BY <2>1, <2>2, <2>5, <1>s
<1>13. ASSUME PushLaunch PROVE Finished'
  <2> DEFINE new == [key |-> Current, storage |-> Target]
  <2>1. /\ done' = done \cup {new} /\ meta' = meta /\ UNCHANGED <<imported, committed, record, registered>>
        /\ pc = "launch" /\ pc' \in {"decide", "cnmt", "reset"}
    BY <1>13 DEF PushLaunch, EndsTitle
  <2>2. /\ Current \in committed[Target] /\ Whole(Current, Target) /\ new \in record
        /\ ContentsOf(Current) \cap Locked \subseteq imported
    BY <2>1 DEF Taken, Ticketed, TicketsOf
  <2>3. InstalledIsWhole'
    <3> SUFFICES ASSUME NEW a \in done'
                 PROVE  /\ a.key \in committed[a.storage] /\ Whole(a.key, a.storage)
                        /\ ContentsOf(a.key) \cap Locked \subseteq imported /\ a \in record
      BY <2>1 DEF InstalledIsWhole, Whole
    <3>1. CASE a \in done
      BY <3>1 DEF Finished, InstalledIsWhole
    <3>2. CASE a = new
      BY <3>2, <2>2
    <3> QED BY <2>1, <3>1, <3>2
  <2>4. Current \in meta[Target] /\ Alone(new)
    BY <2>1, <1>t DEF Taken, Victims
  <2>5. \A a \in done' : a.key \in meta'[a.storage] /\ Alone(a)'
    <3>1. \A a \in done : a.key \in meta[a.storage] /\ Alone(a)
      BY <2>1, <1>m
    <3>2. new.key = Current /\ new.storage = Target
      OBVIOUS
    <3> HIDE DEF new
    <3>3. \A a \in done' : a.key \in meta[a.storage] /\ Alone(a)
      BY <2>1, <2>4, <3>1, <3>2
    <3> QED BY <2>1, <3>3
  <2> QED BY <2>1, <2>3, <2>5 DEF Finished, MoveSteps
<1>14. ASSUME InstallEnds PROVE Finished'
  <2>1. /\ done' = done /\ meta' = meta /\ UNCHANGED <<imported, registered, committed, record>>
        /\ pc \in {"reset", "exit"} /\ pc' = "idle"
    BY <1>14 DEF InstallEnds
  <2> QED BY <2>1, <1>i, <1>s
<1>15. ASSUME InstallFails PROVE Finished'
  <2>1. /\ done' = done /\ meta' = meta /\ UNCHANGED <<committed, record>>
        /\ pc \in InstallSteps /\ pc' = "exit" /\ imported \subseteq imported'
    BY <1>15 DEF InstallFails
  <2>2. \A a \in done : ContentsOf(a.key) \cap registered[a.storage] \subseteq registered'[a.storage]
    <3>1. CASE registered' = registered
      BY <3>1
    <3>2. CASE /\ pc = "register" /\ j \in 1..Len(Holds[Current])
               /\ registered' = [registered EXCEPT ![Target] = @ \ {Holds[Current][j]}]
      <4>1. \A a \in done : ~SameTitle(a.key, Current)
        BY <3>2 DEF Finished
      <4>2. \A a \in done : Holds[Current][j] \notin ContentsOf(a.key)
        BY <3>2, <4>1, <1>d, <1>0, Apart
      <4> QED BY <4>2, <3>2, <1>t, <1>d
    <3>3. \/ registered' = registered
          \/ /\ pc = "register" /\ j <= Len(Holds[Current])
             /\ registered' = [registered EXCEPT ![Target] = @ \ {Holds[Current][j]}]
      BY <1>15 DEF InstallFails, Delete
    <3>4. j <= Len(Holds[Current]) => j \in 1..Len(Holds[Current])
      BY <1>0
    <3> QED BY <3>1, <3>2, <3>3, <3>4
  <2>3. InstalledIsWhole'
    BY <2>1, <2>2, <1>k
  <2> QED BY <2>1, <2>3, <1>s
<1> QED
  BY <1>1, <1>2, <1>3, <1>4, <1>5, <1>6, <1>7, <1>8, <1>9, <1>10, <1>11, <1>12, <1>13,
     <1>14, <1>15 DEF Install

-------------------------------------------------------------------------------
(* The component of a move *)

\* A move has its source, and its record, until the target is complete.
LEMMA MoveUnderway ==
  ASSUME TypeOK, Move, Underway
  PROVE  Underway'
<1> USE DEF kept, databases, services, history, moving, MoveSteps, Copying, Deleting
<1> DEFINE Single(S) == \A a, b \in S : SameId(a.key, b.key) => a = b
<1>0. /\ registered \in [Storages -> SUBSET Contents]
      /\ meta \in [Storages -> SUBSET Keys] /\ committed \in [Storages -> SUBSET Keys]
      /\ record \subseteq Copies /\ plan \subseteq Copies /\ list \subseteq Copies
      /\ j \in Nat \ {0} /\ component \in [key : Keys, src : Storages, dst : Storages]
  BY DEF TypeOK, StoreType, MoveType
<1>c. Key \in Keys /\ Src \in Storages /\ Dst \in Storages
  BY <1>0 DEF Key, Src, Dst
<1>h. Len(Holds[Key]) \in Nat \ {0} /\ \A n \in 1..Len(Holds[Key]) : Holds[Key][n] \in ContentsOf(Key)
  BY <1>c, KeyTyping
<1>w. ASSUME \A n \in 1..Len(Holds[Key]) : Holds[Key][n] \in registered[Dst] PROVE Whole(Key, Dst)
  BY <1>w, <1>c, KeyTyping DEF Whole, ContentsOf
<1>i. /\ \A k : SameId(k, k)
      /\ \A k, l : SameId(k, l) => SameId(l, k)
      /\ \A k, l, m : SameId(k, l) /\ SameId(l, m) => SameId(k, m)
  BY DEF SameId
<1>u. ASSUME component' = component PROVE Key' = Key /\ Src' = Src /\ Dst' = Dst
  BY <1>u DEF Key, Src, Dst
<1>r. pc \notin {"m_push", "d_push"} => Single(record)
  BY DEF Underway, Named
<1>l. pc \in {"m_push", "d_push"} => Single(list) /\ record = {}
  BY DEF Underway, Named
<1>d. ASSUME pc' = "idle", record' = record PROVE Underway'
  BY <1>d, <1>r, <1>l DEF Underway, Named
<1>1. ASSUME MoveStart PROVE Underway'
  <2>1. PICK target \in Storages : /\ plan' = {a \in record : a.storage # target /\ Found(a) # {}}
                                   /\ component' = [component EXCEPT !.dst = target]
    BY <1>1 DEF MoveStart
  <2>2. Dst' = target
    BY <2>1, <1>0 DEF Dst
  <2>3. pc = "idle" /\ pc' = "next" /\ record' = record
    BY <1>1 DEF MoveStart, Begins
  <2>4. plan' \subseteq record /\ \A a \in plan' : a.storage # Dst'
    BY <2>1, <2>2
  <2> QED BY <2>3, <2>4, <1>r DEF Underway, Named
<1>2. ASSUME MoveNext PROVE Underway'
  <2>1. CASE plan = {}
    BY <1>2, <2>1, <1>d DEF MoveNext
  <2>2. CASE plan # {}
    <3>0. PICK a \in plan : \E k \in Found(a) :
            /\ plan' = plan \ {a}
            /\ component' = [component EXCEPT !.key = k, !.src = a.storage]
      BY <1>2, <2>2 DEF MoveNext
    <3>1. PICK k \in Found(a) :
            /\ plan' = plan \ {a}
            /\ component' = [component EXCEPT !.key = k, !.src = a.storage]
      BY <3>0
    <3>2. Key' = k /\ Src' = a.storage /\ Dst' = Dst
      BY <3>1, <1>0 DEF Key, Src, Dst
    <3>3. k \in meta[a.storage] /\ SameId(k, a.key)
      BY DEF Found
    <3>4. /\ pc = "next" /\ pc' = "copy" /\ j' = 1 /\ placed' = {}
          /\ record' = record /\ meta' = meta
      BY <1>2, <2>2 DEF MoveNext
    <3>5. plan \subseteq record /\ Single(record) /\ \A b \in plan : b.storage # Dst
      BY <3>4, <1>r DEF Underway, Named
    <3>6. \A b \in plan' : ~SameId(b.key, k)
      BY <3>1, <3>3, <3>5, <1>i
    <3>7. \A b \in record : SameId(b.key, k) => b.storage = a.storage
      BY <3>3, <3>5, <1>i
    <3>8. plan' \subseteq record /\ \A b \in plan' : b.storage # Dst
      BY <3>1, <3>5
    <3>9. \A n \in 1..Len(Holds[Key']) : ~(n < j')
      BY <3>4
    <3>10. Src' # Dst' /\ Key' \in meta'[Src']
      BY <3>2, <3>3, <3>4, <3>5
    <3>11. Single(record')
      BY <3>4, <3>5
    <3>12. (\A b \in plan' : ~SameId(b.key, Key')) /\ (\A b \in plan' : b.storage # Dst')
      BY <3>2, <3>6, <3>8
    <3>13. plan' \subseteq record' /\ \A b \in record' : SameId(b.key, Key') => b.storage = Src'
      BY <3>2, <3>4, <3>7, <3>8
    <3> HIDE <3>0, <3>1
    <3> QED BY <3>4, <3>9, <3>10, <3>11, <3>12, <3>13 DEF Underway, Named
  <2> QED BY <2>1, <2>2
<1>3. ASSUME MoveContent PROVE Underway'
  <2>1. /\ Key' = Key /\ Src' = Src /\ Dst' = Dst /\ pc = "copy" /\ pc' \in {"copy", "m_set"}
        /\ UNCHANGED <<record, meta, committed, plan>>
    BY <1>3, <1>u DEF MoveContent
  <2>2. CASE j > Len(Holds[Key])
    <3>1. pc' = "m_set" /\ registered' = registered /\ placed' = placed
      BY <1>3, <2>2 DEF MoveContent
    <3>2. \A n \in 1..Len(Holds[Key]) : n < j
      BY <2>2, <1>0, <1>h
    <3>3. Whole(Key, Dst)
      BY <2>1, <3>2, <1>w DEF Underway
    <3>4. Whole(Key, Dst)'
      BY <2>1, <3>1, <3>3 DEF Whole
    <3> QED BY <2>1, <3>1, <3>4 DEF Underway, Named
  <2>3. CASE ~(j > Len(Holds[Key]))
    <3>1. pc' = "copy" /\ j' = j + 1 /\ placed' \subseteq placed \cup {Holds[Key][j]}
      BY <1>3, <2>3 DEF MoveContent
    <3>2. j \in 1..Len(Holds[Key])
      BY <2>3, <1>0, <1>h
    <3>3. registered[Dst] \subseteq registered'[Dst] /\ Holds[Key][j] \in registered'[Dst]
      BY <1>3, <2>3, <3>2, <1>0, <1>c DEF MoveContent, Register
    <3>4. \A n \in 1..Len(Holds[Key]) : n < j + 1 => Holds[Key][n] \in registered'[Dst]
      BY <2>1, <3>2, <3>3 DEF Underway
    <3>5. placed' \subseteq ContentsOf(Key)
      BY <2>1, <3>1, <3>2, <1>h DEF Underway
    <3>6. \A n \in 1..Len(Holds[Key']) : n < j' => Holds[Key'][n] \in registered'[Dst']
      BY <2>1, <3>1, <3>4
    <3>7. placed' \subseteq ContentsOf(Key')
      BY <2>1, <3>5
    <3> QED BY <2>1, <3>1, <3>6, <3>7 DEF Underway, Named
  <2> QED BY <2>2, <2>3
<1>4. ASSUME MoveSet PROVE Underway'
  <2>1. /\ Key' = Key /\ Src' = Src /\ Dst' = Dst /\ pc = "m_set" /\ pc' = "m_commit"
        /\ UNCHANGED <<record, registered, committed, plan, placed>>
        /\ meta' = [meta EXCEPT ![Dst] = @ \cup {Key}]
    BY <1>4, <1>u DEF MoveSet, Set
  <2>2. Key \in meta'[Src] /\ Key \in meta'[Dst]
    BY <2>1, <1>0, <1>c DEF Underway
  <2>3. Whole(Key, Dst)'
    BY <2>1 DEF Underway, Whole
  <2> QED BY <2>1, <2>2, <2>3 DEF Underway, Named
<1>5. ASSUME MoveCommit PROVE Underway'
  <2>1. /\ Key' = Key /\ Src' = Src /\ Dst' = Dst /\ pc = "m_commit" /\ pc' = "m_forget"
        /\ UNCHANGED <<record, registered, meta, plan, placed>>
        /\ committed' = [committed EXCEPT ![Dst] = meta[Dst]]
    BY <1>5, <1>u DEF MoveCommit, Commit
  <2>2. Key \in committed'[Dst]
    BY <2>1, <1>0, <1>c DEF Underway
  <2>3. Whole(Key, Dst)'
    BY <2>1 DEF Underway, Whole
  <2> QED BY <2>1, <2>2, <2>3 DEF Underway, Named
<1>6. ASSUME MoveForget PROVE Underway'
  <2>1. /\ Key' = Key /\ Src' = Src /\ Dst' = Dst /\ pc = "m_forget" /\ pc' = "m_push"
        /\ UNCHANGED <<registered, meta, committed, plan, placed>>
        /\ list' = record /\ record' = {}
    BY <1>6, <1>u DEF MoveForget
  <2>2. Whole(Key, Dst)'
    BY <2>1 DEF Underway, Whole
  <2> QED BY <2>1, <2>2 DEF Underway, Named
<1>7. ASSUME MovePush PROVE Underway'
  <2>1. /\ Key' = Key /\ Src' = Src /\ Dst' = Dst /\ pc = "m_push" /\ pc' = "m_delete"
        /\ UNCHANGED <<meta, plan>> /\ record' = Repointed
    BY <1>7, <1>u DEF MovePush
  <2>2. /\ Single(list) /\ plan \subseteq list /\ Src # Dst /\ Key \in meta[Src]
        /\ \A a \in plan : a.storage # Dst
        /\ \A a \in plan : ~SameId(a.key, Key)
    BY <2>1 DEF Underway, Named
  <2>3. \A a \in Repointed : \/ a \in list /\ ~SameId(a.key, Key)
                             \/ a.storage = Dst /\ SameId(a.key, Key)
    BY <1>i, <1>0 DEF Repointed, Copies
  <2>4. \A a, b \in Repointed : SameId(a.key, Key) /\ SameId(b.key, Key) => a = b
    <3> DEFINE mine == {a \in list : SameId(a.key, Key)}
    <3>1. CASE mine = {}
      <4>1. Repointed = (list \ mine) \cup {[key |-> Key, storage |-> Dst]}
        BY <3>1 DEF Repointed
      <4> QED BY <4>1
    <3>2. CASE mine # {}
      <4>1. PICK m \in mine : TRUE
        BY <3>2
      <4>2. \A a \in mine : a = m
        BY <4>1, <2>2, <1>i
      <4>3. Repointed = (list \ mine) \cup {[a EXCEPT !.storage = Dst] : a \in mine}
        BY <3>2 DEF Repointed
      <4>4. \A a \in Repointed : SameId(a.key, Key) => a = [m EXCEPT !.storage = Dst]
        BY <4>2, <4>3
      <4> QED BY <4>4
    <3> QED BY <3>1, <3>2
  <2>5. Single(Repointed)
    BY <2>2, <2>3, <2>4, <1>i
  <2>6. plan \subseteq Repointed
    BY <2>2 DEF Repointed
  <2>7. \A a \in Repointed : SameId(a.key, Key) => a.storage # Src
    BY <2>2, <2>3
  <2> QED BY <2>1, <2>2, <2>5, <2>6, <2>7 DEF Underway, Named
<1>8. ASSUME DeleteContent PROVE Underway'
  <2>1. /\ Key' = Key /\ Src' = Src /\ Dst' = Dst /\ pc = "m_delete" /\ pc' \in {"m_delete", "m_remove"}
        /\ UNCHANGED <<record, meta, committed, plan>>
    BY <1>8, <1>u DEF DeleteContent
  <2> QED BY <2>1 DEF Underway, Named
<1>9. ASSUME DeleteKey PROVE Underway'
  <2>1. /\ Key' = Key /\ Src' = Src /\ Dst' = Dst /\ pc = "m_remove" /\ pc' = "m_removed"
        /\ UNCHANGED <<record, plan>>
    BY <1>9, <1>u DEF DeleteKey
  <2> QED BY <2>1 DEF Underway, Named
<1>10. ASSUME DeleteCommit PROVE Underway'
  <2>1. /\ Key' = Key /\ Src' = Src /\ Dst' = Dst /\ pc = "m_removed" /\ pc' = "next"
        /\ UNCHANGED <<record, plan>>
    BY <1>10, <1>u DEF DeleteCommit
  <2> QED BY <2>1 DEF Underway, Named
<1>11. ASSUME DeleteStart PROVE Underway'
  <2>0. PICK a \in record :
          \E k \in Found(a) : component' = [key |-> k, src |-> a.storage, dst |-> a.storage]
    BY <1>11 DEF DeleteStart
  <2>1. PICK k \in Found(a) : component' = [key |-> k, src |-> a.storage, dst |-> a.storage]
    BY <2>0
  <2>2. Key' = k /\ Src' = a.storage /\ k \in meta[a.storage]
    BY <2>1 DEF Key, Src, Found
  <2>3. pc = "idle" /\ pc' = "d_forget" /\ record' = record /\ meta' = meta /\ plan' = {}
    BY <1>11 DEF DeleteStart, Begins
  <2> QED BY <2>2, <2>3, <1>r DEF Underway, Named
<1>12. ASSUME DeleteForget PROVE Underway'
  <2>1. /\ Key' = Key /\ Src' = Src /\ pc = "d_forget" /\ pc' = "d_push"
        /\ list' = {a \in record : ~SameId(a.key, Key)} /\ record' = {} /\ meta' = meta /\ plan' = plan
    BY <1>12, <1>u DEF DeleteForget
  <2>2. Single(list') /\ (\A a \in list' : ~SameId(a.key, Key'))
    BY <2>1, <1>r
  <2>3. Key' \in meta'[Src'] /\ plan' = {}
    BY <2>1 DEF Underway
  <2> QED BY <2>1, <2>2, <2>3 DEF Underway, Named
<1>13. ASSUME DeletePush PROVE Underway'
  <2>1. /\ Key' = Key /\ Src' = Src /\ Dst' = Dst /\ pc = "d_push" /\ pc' = "m_delete"
        /\ record' = list /\ meta' = meta /\ plan' = plan
    BY <1>13, <1>u DEF DeletePush
  <2>2. plan = {}
    BY <2>1 DEF Underway
  <2>3. Single(list) /\ (\A a \in list : ~SameId(a.key, Key)) /\ Key \in meta[Src]
    BY <2>1 DEF Underway, Named
  <2> QED BY <2>1, <2>2, <2>3 DEF Underway, Named
<1>14. ASSUME MoveFails PROVE Underway'
  <2>1. /\ Key' = Key /\ Src' = Src /\ Dst' = Dst
        /\ UNCHANGED <<record, meta, plan, placed, list>>
    BY <1>14, <1>u DEF MoveFails
  <2>2. CASE pc \in {"copy", "m_set", "m_commit", "m_forget", "m_push"} /\ pc' = "undo"
    <3>1. Single(record) /\ \A a \in record : SameId(a.key, Key) => a.storage = Src
      BY <2>2, <1>r, <1>l DEF Underway, Named
    <3> QED BY <2>1, <2>2, <3>1 DEF Underway, Named
  <2>3. CASE pc' = "idle"
    BY <2>1, <2>3, <1>d
  <2> QED BY <1>14, <2>2, <2>3 DEF MoveFails
<1>15. ASSUME RollbackMeta PROVE Underway'
  <2>1. /\ Key' = Key /\ Src' = Src /\ Dst' = Dst /\ pc = "undo" /\ pc' = "undone"
        /\ UNCHANGED <<record, plan, placed>>
    BY <1>15, <1>u DEF RollbackMeta
  <2>2. Src # Dst /\ Key \in meta[Src]
    BY <2>1 DEF Underway
  <2>3. meta' = meta \/ meta' = [meta EXCEPT ![Dst] = @ \ {Key}]
    BY <1>15 DEF RollbackMeta
  <2>4. Key \in meta'[Src]
    BY <2>2, <2>3, <1>0, <1>c
  <2> QED BY <2>1, <2>2, <2>4 DEF Underway, Named
<1>16. ASSUME RollbackContents PROVE Underway'
  BY <1>16, <1>d DEF RollbackContents
<1> QED
  BY <1>1, <1>2, <1>3, <1>4, <1>5, <1>6, <1>7, <1>8, <1>9, <1>10, <1>11, <1>12, <1>13,
     <1>14, <1>15, <1>16 DEF Move

-------------------------------------------------------------------------------
(* The databases, the contents and the record *)

\* To know less of the databases is to know one version still.
LEMMA FewerEach ==
  ASSUME OneEach, \A s \in Storages : Seen(s)' \subseteq Seen(s)
  PROVE  OneEach'
BY DEF OneEach

\* A key that is new is complete, and no removal of another is forgotten.
LEMMA StillComplete ==
  ASSUME Complete,
         \A s \in Storages : registered[s] \subseteq registered'[s],
         \A s \in Storages : \A k \in Seen(s)' :
           \/ Whole(k, s)'
           \/ k \in Seen(s) /\ (k \in cut[s] => k \in cut'[s])
  PROVE  Complete'
BY DEF Complete, Whole

\* What the record names and no step has taken away is there still.
LEMMA StillTruthful ==
  ASSUME TypeOK, Truthful, Named' \subseteq Copies,
         \A s \in Storages : registered[s] \subseteq registered'[s],
         \A a \in Named' :
           \/ a \in withdrawn'
           \/ a.key \in meta'[a.storage] /\ a.key \in committed'[a.storage] /\ Whole(a.key, a.storage)'
           \/ /\ a \in Named
              /\ a \in withdrawn => a \in withdrawn'
              /\ a.key \in meta[a.storage] /\ a.key \in committed[a.storage] =>
                   a.key \in meta'[a.storage] /\ a.key \in committed'[a.storage]
  PROVE  Truthful'
<1>1. \A a \in Named' : a.storage \in Storages
  BY DEF Copies
<1> QED BY <1>1 DEF Truthful, Whole

\* To delete a content of a key spares what is another title; what is the same title has
\* to be known as being removed, and as withdrawn from the record.
LEMMA Loss ==
  ASSUME TypeOK, Complete, Truthful,
         NEW v \in Keys, NEW s \in Storages, NEW X \in SUBSET ContentsOf(v),
         registered' = [registered EXCEPT ![s] = @ \ X],
         \A t \in Storages : Seen(t)' = Seen(t) /\ cut[t] \subseteq cut'[t],
         \A k \in Seen(s) : SameTitle(k, v) => k \in cut'[s],
         UNCHANGED <<meta, committed>>, withdrawn \subseteq withdrawn', Named' \subseteq Named,
         \A a \in Named : a.storage = s /\ SameTitle(a.key, v) => a \in withdrawn \/ a.key \notin meta[s]
  PROVE  Complete' /\ Truthful'
<1>1. /\ registered \in [Storages -> SUBSET Contents]
      /\ meta \in [Storages -> SUBSET Keys] /\ committed \in [Storages -> SUBSET Keys]
      /\ Named \subseteq Copies
  BY DEF TypeOK, StoreType, MoveType, Named
<1>2. \A t \in Storages : \A k \in Keys : Whole(k, t) => Whole(k, t)' \/ (t = s /\ SameTitle(k, v))
  <2> SUFFICES ASSUME NEW t \in Storages, NEW k \in Keys, Whole(k, t), t # s \/ ~SameTitle(k, v)
               PROVE  ContentsOf(k) \subseteq registered'[t]
    BY DEF Whole
  <2>1. CASE t # s
    BY <2>1, <1>1 DEF Whole
  <2>2. CASE ~SameTitle(k, v)
    BY <2>2, <1>1, Apart DEF Whole
  <2> QED BY <2>1, <2>2
<1>3. \A t \in Storages : Seen(t) \subseteq Keys
  BY <1>1 DEF Seen
<1>4. Complete'
  <2> SUFFICES ASSUME NEW t \in Storages, NEW k \in Seen(t) PROVE Whole(k, t)' \/ k \in cut'[t]
    BY DEF Complete
  <2>1. Whole(k, t) \/ k \in cut[t]
    BY DEF Complete
  <2>2. k \in Keys
    BY <1>3
  <2> QED BY <2>1, <2>2, <1>2
<1>5. Truthful'
  <2> SUFFICES ASSUME NEW a \in Named'
               PROVE  \/ a \in withdrawn'
                      \/ a.key \in meta[a.storage] /\ a.key \in committed[a.storage] /\ Whole(a.key, a.storage)'
    BY DEF Truthful
  <2>1. a \in Named /\ a.key \in Keys /\ a.storage \in Storages
    BY <1>1 DEF Copies
  <2>2. CASE a \in withdrawn
    BY <2>2
  <2>3. CASE a.key \in meta[a.storage] /\ a.key \in committed[a.storage] /\ Whole(a.key, a.storage)
    BY <2>1, <2>3, <1>2
  <2> QED BY <2>1, <2>2, <2>3 DEF Truthful
<1> QED BY <1>4, <1>5

\* A loss of power takes what is in memory only.
LEMMA CrashSettled ==
  ASSUME TypeOK, Underway, Settled, Crash
  PROVE  Settled'
<1>1. pc' = "idle" /\ meta' = committed /\ UNCHANGED <<registered, committed, record, cut, withdrawn>>
  BY DEF Crash, StoreCrash, services, history
<1>2. \A s \in Storages : Seen(s)' \subseteq Seen(s)
  BY <1>1 DEF Seen
<1>3. OneEach'
  BY <1>2, FewerEach DEF Settled
<1>4. Complete'
  BY <1>1, <1>2, StillComplete DEF Settled
<1>5. Named' \subseteq Named /\ Named' \subseteq Copies
  BY <1>1 DEF Named, Underway, TypeOK, StoreType
<1>6. Truthful'
  BY <1>1, <1>5, StillTruthful DEF Settled
<1> QED BY <1>1, <1>3, <1>4, <1>6 DEF Settled, OnDisk, Removing

\* An install removes the versions of a title before it brings the new one.
LEMMA InstallSettled ==
  ASSUME TypeOK, Taken, Settled, Install, ~unsettled'
  PROVE  Settled'
<1> USE DEF kept, databases, services, history, installing
<1>0. /\ registered \in [Storages -> SUBSET Contents]
      /\ meta \in [Storages -> SUBSET Keys] /\ committed \in [Storages -> SUBSET Keys]
      /\ cut \in [Storages -> SUBSET Keys] /\ record \subseteq Copies /\ withdrawn \subseteq Copies
      /\ j \in Nat \ {0}
  BY DEF TypeOK, StoreType
<1>c. /\ Current \in Keys /\ Target \in Storages
      /\ \A n \in 1..Len(Holds[Current]) : Holds[Current][n] \in ContentsOf(Current)
      /\ Len(Holds[Current]) \in Nat \ {0}
  BY CurrentTyping, KeyTyping DEF TypeOK
<1>v. pc \in Removing => victim \in Keys \X Storages /\ SameTitle(victim[1], Current)
  BY DEF TypeOK, InstallType, Taken
<1>u. ASSUME UNCHANGED <<run, i>> PROVE Current' = Current /\ Target' = Target
  BY <1>u DEF Current, Target
<1>k. \A s \in Storages : Seen(s) \subseteq Keys
  BY <1>0 DEF Seen
<1>p. pc \in {"idle"} \cup InstallSteps /\ pc' \in {"idle"} \cup InstallSteps
  BY InstallControl
<1>n. Named = record /\ Named' = record' /\ pc # "undone" /\ pc' # "undone"
  BY <1>p DEF Named, InstallSteps
<1>d. \A s \in Storages :
        /\ pc # "forgotten" => Leaving(s) = {}
        /\ pc' # "forgotten" => Leaving(s)' = {}
        /\ pc = "forgotten" => Leaving(s) = IF s = victim[2] THEN {victim[1]} ELSE {}
        /\ pc' = "forgotten" => Leaving(s)' = {k \in Keys : s = victim'[2] /\ k = victim'[1]}
  BY <1>p, <1>v DEF Leaving, InstallSteps, Removing
<1>o. pc \notin {"idle", "exit", "forgotten"} => \A s \in Storages : committed[s] \subseteq meta[s]
  BY <1>d, <1>n DEF Settled, OnDisk
\* a step that leaves the store alone
<1>s. ASSUME UNCHANGED <<registered, meta, committed, record, cut, withdrawn>>, pc' \notin Removing,
             pc' \in {"idle", "exit"} \/ pc \notin {"idle", "exit"} \/ \A s \in Storages : committed[s] \subseteq meta[s],
             pc # "forgotten"
      PROVE  Settled'
  <2>1. \A s \in Storages : Seen(s)' = Seen(s)
    BY <1>s DEF Seen
  <2>2. OneEach'
    BY <2>1, FewerEach DEF Settled
  <2>3. Complete'
    BY <2>1, <1>s, StillComplete DEF Settled
  <2>4. Truthful'
    BY <1>s, <1>n, <1>0, StillTruthful DEF Settled
  <2>5. OnDisk'
    BY <1>s, <1>o DEF OnDisk
  <2> QED BY <1>s, <1>n, <2>2, <2>3, <2>4, <2>5 DEF Settled
<1>1. ASSUME InstallStart PROVE Settled'
  <2>1. /\ UNCHANGED <<registered, meta, committed, record, cut, withdrawn>>
        /\ pc = "idle" /\ pc' \in {"fill", "cnmt"}
        /\ \A s \in Storages : committed[s] \subseteq meta[s]
    BY <1>1 DEF InstallStart, Begins
  <2> QED BY <2>1, <1>s DEF Removing
<1>2. ASSUME StreamFill \/ InstallCnmtNca \/ InstallNcas \/ TakeTitle PROVE Settled'
  <2>1. /\ UNCHANGED <<registered, meta, committed, record, cut, withdrawn>>
        /\ pc \in {"fill", "cnmt", "ncas", "decide"} /\ pc' \in {"decide", "tickets", "ncas"}
    BY <1>2 DEF StreamFill, InstallCnmtNca, InstallNcas, InstallNca, TakeTitle
  <2> QED BY <2>1, <1>s DEF Removing
<1>3. ASSUME SkipTitle \/ ImportTickets \/ PushLaunch PROVE Settled'
  <2>1. /\ UNCHANGED <<registered, meta, committed, record, cut, withdrawn>>
        /\ pc \in {"decide", "tickets", "launch"} /\ pc' \in {"decide", "cnmt", "reset", "remove"}
    BY <1>3 DEF SkipTitle, ImportTickets, PushLaunch, EndsTitle
  <2> QED BY <2>1, <1>s DEF Removing
<1>4. ASSUME InstallEnds PROVE Settled'
  <2>1. /\ UNCHANGED <<registered, meta, committed, record, cut, withdrawn>>
        /\ pc \in {"reset", "exit"} /\ pc' = "idle"
    BY <1>4 DEF InstallEnds
  <2> QED BY <2>1, <1>s DEF Removing
<1>5. ASSUME RemoveList PROVE Settled'
  <2>1. UNCHANGED <<registered, meta, committed, record, cut>> /\ pc = "remove"
    BY <1>5 DEF RemoveList
  <2>2. CASE \E s \in Storages : Pick(s)
    <3>1. PICK s \in Storages, k \in Keys :
            /\ victim' = <<k, s>> /\ pc' = "delete"
            /\ withdrawn' = withdrawn \cup {[key |-> k, storage |-> s]}
      BY <2>2, <1>0 DEF Pick, Victims
    <3>2. \A t \in Storages : Seen(t)' = Seen(t)
      BY <2>1 DEF Seen
    <3>3. OneEach'
      BY <3>2, FewerEach DEF Settled
    <3>4. Complete'
      BY <3>2, <2>1, StillComplete DEF Settled
    <3>5. Truthful'
      BY <2>1, <3>1, <1>n, <1>0, StillTruthful DEF Settled
    <3>6. OnDisk'
      BY <2>1, <1>o DEF OnDisk
    <3>7. [key |-> victim'[1], storage |-> victim'[2]] \in withdrawn'
      BY <3>1
    <3> QED BY <3>3, <3>4, <3>5, <3>6, <3>7, <1>n DEF Settled
  <2>3. CASE pc' = "register" /\ withdrawn' = withdrawn
    BY <2>1, <2>3, <1>s DEF Removing
  <2> QED BY <1>5, <2>2, <2>3 DEF RemoveList, Storages
<1>6. ASSUME RemoveContent PROVE Settled'
  <2>1. /\ UNCHANGED <<meta, committed, record, withdrawn, victim>>
        /\ pc = "delete" /\ pc' \in {"delete", "forget"}
    BY <1>6 DEF RemoveContent
  <2> DEFINE k == victim[1]
             s == victim[2]
  <2>2. /\ k \in Keys /\ s \in Storages /\ SameTitle(k, Current) /\ k \in meta[s]
        /\ [key |-> k, storage |-> s] \in withdrawn
    BY <2>1, <1>v DEF Removing, Settled, Taken
  <2>3. \A t \in Storages : Seen(t)' = Seen(t)
    BY <2>1 DEF Seen
  <2>4. OneEach'
    BY <2>3, FewerEach DEF Settled
  <2>5. OnDisk'
    BY <2>1, <1>o DEF OnDisk
  <2>6. Complete' /\ Truthful'
    <3>1. CASE registered' = registered /\ cut' = cut
      <4>1. Complete'
        BY <3>1, <2>3, StillComplete DEF Settled
      <4>2. Truthful'
        BY <2>1, <3>1, <1>n, <1>0, StillTruthful DEF Settled
      <4> QED BY <4>1, <4>2
    <3>2. CASE /\ ~(j > Len(Holds[k]))
               /\ registered' = [registered EXCEPT ![s] = @ \ {Holds[k][j]}]
               /\ cut' = [cut EXCEPT ![s] = @ \cup {k}]
      <4>1. {Holds[k][j]} \in SUBSET ContentsOf(k)
        BY <3>2, <2>2, <1>0, KeyTyping
      <4>2. \A l \in Seen(s) : SameTitle(l, k) => l = k
        BY <2>2 DEF Settled, OneEach, Seen
      <4>3. k \in cut'[s] /\ \A t \in Storages : cut[t] \subseteq cut'[t]
        BY <3>2, <2>2, <1>0
      <4>4. \A a \in Named : a.storage = s /\ SameTitle(a.key, k) => a \in withdrawn \/ a.key \notin meta[s]
        <5> SUFFICES ASSUME NEW a \in record, a.storage = s, SameTitle(a.key, k), a.key \in meta[s]
                     PROVE  a \in withdrawn
          BY <1>n
        <5>1. a.key = k
          BY <4>2 DEF Seen
        <5>2. a = [key |-> k, storage |-> s]
          BY <5>1, <1>0 DEF Copies
        <5> QED BY <5>2, <2>2
      <4>5. \A l \in Seen(s) : SameTitle(l, k) => l \in cut'[s]
        BY <4>2, <4>3
      <4>6. \A t \in Storages : Seen(t)' = Seen(t) /\ cut[t] \subseteq cut'[t]
        BY <4>3, <2>3
      <4>7. /\ Complete /\ Truthful /\ UNCHANGED <<meta, committed>>
            /\ withdrawn \subseteq withdrawn' /\ Named' \subseteq Named
        BY <2>1, <1>n DEF Settled
      <4>8. k \in Keys /\ s \in Storages /\ registered' = [registered EXCEPT ![s] = @ \ {Holds[k][j]}]
        BY <2>2, <3>2
      <4> HIDE DEF k, s
      <4> QED BY <4>1, <4>4, <4>5, <4>6, <4>7, <4>8, Loss
    <3>3. \/ registered' = registered /\ cut' = cut
          \/ /\ ~(j > Len(Holds[k]))
             /\ registered' = [registered EXCEPT ![s] = @ \ {Holds[k][j]}]
             /\ cut' = [cut EXCEPT ![s] = @ \cup {k}]
      BY <1>6 DEF RemoveContent, Delete
    <3> QED BY <3>1, <3>2, <3>3
  <2> QED BY <2>1, <2>2, <2>4, <2>5, <2>6, <1>n DEF Settled
<1>7. ASSUME RemoveKey PROVE Settled'
  <2>1. /\ UNCHANGED <<registered, committed, record, cut, withdrawn, victim>>
        /\ pc = "forget" /\ pc' = "forgotten"
        /\ meta' = [meta EXCEPT ![victim[2]] = @ \ {victim[1]}]
    BY <1>7 DEF RemoveKey, Remove
  <2>2. /\ victim \in Keys \X Storages /\ [key |-> victim[1], storage |-> victim[2]] \in withdrawn
    BY <2>1, <1>v DEF Removing, Settled
  <2>3. \A s \in Storages : Seen(s)' \subseteq Seen(s)
    BY <2>1, <2>2, <1>0 DEF Seen
  <2>4. OneEach'
    BY <2>3, FewerEach DEF Settled
  <2>5. Complete'
    BY <2>1, <2>3, StillComplete DEF Settled
  <2>6. Truthful'
    <3>1. ASSUME NEW a \in record, a \notin withdrawn, a.key \in meta[a.storage]
          PROVE  a.key \in meta'[a.storage]
      <4>1. a \in Copies /\ a.key \in Keys /\ a.storage \in Storages
        BY <1>0 DEF Copies
      <4>2. ~(a.key = victim[1] /\ a.storage = victim[2])
        BY <2>2, <3>1, <4>1 DEF Copies
      <4> QED BY <2>1, <2>2, <3>1, <4>1, <4>2, <1>0
    <3> QED BY <2>1, <3>1, <1>n, <1>0, StillTruthful DEF Settled
  <2>7. OnDisk'
    <3>1. \A s \in Storages : committed[s] \subseteq meta[s]
      BY <2>1, <1>o
    <3>2. \A s \in Storages : committed'[s] \subseteq meta'[s] \cup Leaving(s)'
      BY <2>1, <2>2, <3>1, <1>d, <1>0
    <3> QED BY <3>2 DEF OnDisk
  <2> QED BY <2>1, <2>2, <2>4, <2>5, <2>6, <2>7, <1>n DEF Settled
<1>8. ASSUME RemoveCommit PROVE Settled'
  <2> DEFINE s == victim[2]
  <2>1. /\ UNCHANGED <<registered, meta, record, withdrawn>>
        /\ pc = "forgotten" /\ pc' = "remove"
        /\ committed' = [committed EXCEPT ![s] = meta[s]]
        /\ cut' = [cut EXCEPT ![s] = @ \cap meta[s]]
    BY <1>8 DEF RemoveCommit, Commit
  <2>2. s \in Storages
    BY <2>1, <1>v DEF Removing
  <2>3. \A t \in Storages : \A k \in Seen(t)' : k \in Seen(t) /\ (k \in cut[t] => k \in cut'[t])
    BY <2>1, <2>2, <1>0 DEF Seen
  <2>4. OneEach'
    BY <2>3, FewerEach DEF Settled
  <2>5. Complete'
    BY <2>1, <2>3, StillComplete DEF Settled
  <2>6. Truthful'
    <3>1. \A t \in Storages : \A k \in meta[t] : k \in committed[t] => k \in committed'[t]
      BY <2>1, <2>2, <1>0
    <3>2. \A a \in record : a.storage \in Storages
      BY <1>0 DEF Copies
    <3> QED BY <2>1, <3>1, <3>2, <1>n, <1>0, StillTruthful DEF Settled
  <2>7. OnDisk'
    <3>1. \A t \in Storages : committed[t] \subseteq meta[t] \/ t = s
      BY <2>1, <1>d, <1>n DEF Settled, OnDisk
    <3>2. \A t \in Storages : committed'[t] \subseteq meta'[t]
      BY <2>1, <2>2, <3>1, <1>0
    <3> QED BY <3>2 DEF OnDisk
  <2> QED BY <2>1, <2>4, <2>5, <2>6, <2>7, <1>n DEF Settled, Removing
<1>9. ASSUME RegisterContent PROVE Settled'
  <2>1. /\ UNCHANGED <<meta, committed, record, cut, withdrawn>>
        /\ pc = "register" /\ pc' \in {"register", "set"}
    BY <1>9 DEF RegisterContent
  <2>2. \A s \in Storages : registered[s] \subseteq registered'[s]
    BY <1>9, <1>0, <1>c DEF RegisterContent, Register
  <2>3. \A s \in Storages : Seen(s)' = Seen(s)
    BY <2>1 DEF Seen
  <2>4. OneEach'
    BY <2>3, FewerEach DEF Settled
  <2>5. Complete'
    BY <2>1, <2>2, <2>3, StillComplete DEF Settled
  <2>6. Truthful'
    BY <2>1, <2>2, <1>n, <1>0, StillTruthful DEF Settled
  <2>7. OnDisk'
    BY <2>1, <1>o DEF OnDisk
  <2> QED BY <2>1, <2>4, <2>5, <2>6, <2>7, <1>n DEF Settled, Removing
<1>10. ASSUME SetKey PROVE Settled'
  <2>1. /\ UNCHANGED <<registered, committed, record, cut, withdrawn>>
        /\ pc = "set" /\ pc' = "commit"
        /\ meta' = [meta EXCEPT ![Target] = @ \cup {Current}]
    BY <1>10 DEF SetKey, Set
  <2>2. Whole(Current, Target) /\ Whole(Current, Target)'
    <3>1. Whole(Current, Target)
      BY <2>1 DEF Taken, Bringing
    <3> QED BY <3>1, <1>10, <1>u DEF SetKey, Whole
  <2>3. \A s \in Storages : \A k \in Seen(s) : ~SameTitle(k, Current)
    BY <2>1, <1>o DEF Taken, Victims, Seen
  <2>4. \A s \in Storages : Seen(s)' \subseteq Seen(s) \cup (IF s = Target THEN {Current} ELSE {})
    BY <2>1, <1>0, <1>c DEF Seen
  <2>5. OneEach'
    <3>1. \A s \in Storages : \A k \in Seen(s) : ~SameTitle(k, Current) /\ ~SameTitle(Current, k)
      BY <2>3, <1>k, <1>c, OneTitle
    <3> QED BY <2>4, <3>1 DEF Settled, OneEach
  <2>6. Complete'
    <3>1. Current' = Current /\ Target' = Target
      BY <1>10, <1>u DEF SetKey
    <3>2. \A s \in Storages : \A k \in Seen(s)' : Whole(k, s)' \/ (k \in Seen(s) /\ (k \in cut[s] => k \in cut'[s]))
      BY <2>1, <2>2, <2>4, <3>1
    <3> QED BY <2>1, <3>2, StillComplete DEF Settled
  <2>7. Truthful'
    <3>1. \A s \in Storages : meta[s] \subseteq meta'[s]
      BY <2>1, <1>0, <1>c
    <3>2. \A a \in record : a.storage \in Storages
      BY <1>0 DEF Copies
    <3> QED BY <2>1, <3>1, <3>2, <1>n, <1>0, StillTruthful DEF Settled
  <2>8. OnDisk'
    <3>1. \A s \in Storages : meta[s] \subseteq meta'[s]
      BY <2>1, <1>0, <1>c
    <3> QED BY <2>1, <3>1, <1>o DEF OnDisk
  <2> QED BY <2>1, <2>5, <2>6, <2>7, <2>8, <1>n DEF Settled, Removing
<1>11. ASSUME CommitKey PROVE Settled'
  <2>1. /\ UNCHANGED <<registered, meta, record, withdrawn>>
        /\ pc = "commit" /\ pc' = "push"
        /\ committed' = [committed EXCEPT ![Target] = meta[Target]]
        /\ cut' = [cut EXCEPT ![Target] = (@ \cap meta[Target]) \ {Current}]
        /\ Current' = Current /\ Target' = Target
    BY <1>11, <1>u DEF CommitKey, Commit
  <2>2. Whole(Current, Target)'
    BY <2>1 DEF Taken, Bringing, Placing, Whole
  <2>3. \A t \in Storages : \A k \in Seen(t)' :
          k \in Seen(t) /\ ((k \in cut[t] => k \in cut'[t]) \/ (k = Current /\ t = Target))
    BY <2>1, <1>c, <1>0 DEF Seen
  <2>4. OneEach'
    BY <2>3, FewerEach DEF Settled
  <2>5. Complete'
    <3>1. \A t \in Storages : \A k \in Seen(t)' : Whole(k, t)' \/ (k \in Seen(t) /\ (k \in cut[t] => k \in cut'[t]))
      BY <2>1, <2>2, <2>3
    <3> QED BY <2>1, <3>1, StillComplete DEF Settled
  <2>6. Truthful'
    <3>1. \A t \in Storages : \A k \in meta[t] : k \in committed[t] => k \in committed'[t]
      BY <2>1, <1>c, <1>0
    <3>2. \A a \in record : a.storage \in Storages
      BY <1>0 DEF Copies
    <3> QED BY <2>1, <3>1, <3>2, <1>n, <1>0, StillTruthful DEF Settled
  <2>7. OnDisk'
    BY <2>1, <1>c, <1>0, <1>o DEF OnDisk
  <2> QED BY <2>1, <2>4, <2>5, <2>6, <2>7, <1>n DEF Settled, Removing
<1>12. ASSUME PushRecord PROVE Settled'
  <2>0. PICK new \in Copies : /\ new = [key |-> Current, storage |-> Target]
                              /\ new.key = Current /\ new.storage = Target
    <3> DEFINE copy == [key |-> Current, storage |-> Target]
    <3>1. copy \in Copies /\ copy.key = Current /\ copy.storage = Target
      BY <1>c DEF Copies
    <3> QED BY <3>1
  <2>1. /\ UNCHANGED <<registered, meta, committed, cut>>
        /\ pc = "push" /\ pc' = "launch"
        /\ record' = Pushed(Current, Target)
        /\ withdrawn' = {a \in withdrawn : ~SameTitle(a.key, Current)}
        /\ Current' = Current /\ Target' = Target
    BY <1>12, <1>u DEF PushRecord
  <2>2. /\ Current \in meta[Target] /\ Current \in committed[Target] /\ Whole(Current, Target)
    BY <2>1 DEF Taken, Bringing, Placing
  <2>3. \A s \in Storages : Seen(s)' = Seen(s)
    BY <2>1 DEF Seen
  <2>4. OneEach'
    BY <2>3, FewerEach DEF Settled
  <2>5. Complete'
    BY <2>1, <2>3, StillComplete DEF Settled
  <2>6. Truthful'
    <3>1. \A a \in record' : a = new \/ (a \in record /\ ~SameId(a.key, Current))
      BY <2>0, <2>1 DEF Pushed, SameId
    <3>2. \A a \in record : a \in withdrawn /\ ~SameId(a.key, Current) => a \in withdrawn'
      BY <2>1, <1>0, <1>c, OneTitle DEF Copies
    <3>3. record' \subseteq Copies
      BY <3>1, <1>0
    <3>4. Whole(new.key, new.storage)'
      BY <2>0, <2>1, <2>2 DEF Whole
    <3> QED BY <2>0, <2>1, <2>2, <3>1, <3>2, <3>3, <3>4, <1>n, StillTruthful DEF Settled
  <2>7. OnDisk'
    BY <2>1, <1>o DEF OnDisk
  <2> QED BY <2>1, <2>4, <2>5, <2>6, <2>7, <1>n DEF Settled, Removing
<1>13. ASSUME InstallFails PROVE Settled'
  <2>1. /\ UNCHANGED <<meta, committed, record, cut, withdrawn>>
        /\ pc \in InstallSteps /\ pc' = "exit"
    BY <1>13 DEF InstallFails
  <2>2. \A t \in Storages : Seen(t)' = Seen(t)
    BY <2>1 DEF Seen
  <2>3. OneEach'
    BY <2>2, FewerEach DEF Settled
  <2>4. OnDisk'
    BY <2>1 DEF OnDisk
  <2>5. Complete' /\ Truthful'
    <3>1. CASE registered' = registered
      <4>1. Complete'
        BY <2>1, <3>1, <2>2, StillComplete DEF Settled
      <4>2. Truthful'
        BY <2>1, <3>1, <1>n, <1>0, StillTruthful DEF Settled
      <4> QED BY <4>1, <4>2
    <3>2. CASE /\ pc = "register" /\ j <= Len(Holds[Current])
               /\ registered' = [registered EXCEPT ![Target] = @ \ {Holds[Current][j]}]
      <4>1. {Holds[Current][j]} \in SUBSET ContentsOf(Current)
        <5>1. j \in 1..Len(Holds[Current])
          BY <3>2, <1>0, <1>c
        <5> QED BY <5>1, <1>c
      <4>2. \A s \in Storages : \A k \in meta[s] : ~SameTitle(k, Current)
        BY <3>2 DEF Taken, Victims
      <4>3. \A k \in Seen(Target) : ~SameTitle(k, Current)
        BY <3>2, <4>2, <1>o, <1>c DEF Seen
      <4>4. \A a \in Named : a.storage = Target /\ SameTitle(a.key, Current) => a.key \notin meta[Target]
        BY <4>2, <1>c
      <4> QED BY <3>2, <4>1, <4>3, <4>4, <2>1, <2>2, <1>c, <1>n, Loss DEF Settled
    <3>3. \/ registered' = registered
          \/ /\ pc = "register" /\ j <= Len(Holds[Current])
             /\ registered' = [registered EXCEPT ![Target] = @ \ {Holds[Current][j]}]
      BY <1>13 DEF InstallFails, Delete
    <3> QED BY <3>1, <3>2, <3>3
  <2> QED BY <2>1, <2>3, <2>4, <2>5, <1>n DEF Settled, Removing
<1> QED
  BY <1>1, <1>2, <1>3, <1>4, <1>5, <1>6, <1>7, <1>8, <1>9, <1>10, <1>11, <1>12, <1>13 DEF Install

\* A move brings the copy before it repoints the record, and removes the source last.
LEMMA MoveSettled ==
  ASSUME TypeOK, Underway, Settled, Move, ~unsettled'
  PROVE  Settled'
<1> USE DEF kept, databases, services, history, moving
<1>0. /\ registered \in [Storages -> SUBSET Contents]
      /\ meta \in [Storages -> SUBSET Keys] /\ committed \in [Storages -> SUBSET Keys]
      /\ cut \in [Storages -> SUBSET Keys] /\ record \subseteq Copies /\ withdrawn \subseteq Copies
      /\ list \subseteq Copies /\ Named \subseteq Copies /\ j \in Nat \ {0}
      /\ \A a \in Named : a.key \in Keys /\ a.storage \in Storages
  BY DEF TypeOK, StoreType, MoveType, Named, Copies
<1>c. Key \in Keys /\ Src \in Storages /\ Dst \in Storages
  BY DEF TypeOK, MoveType, Key, Src, Dst
<1>h. Len(Holds[Key]) \in Nat \ {0} /\ \A n \in 1..Len(Holds[Key]) : Holds[Key][n] \in ContentsOf(Key)
  BY <1>c, KeyTyping
<1>u. ASSUME component' = component PROVE Key' = Key /\ Src' = Src /\ Dst' = Dst
  BY <1>u DEF Key, Src, Dst
<1>k. \A s \in Storages : Seen(s) \subseteq Keys
  BY <1>0 DEF Seen
<1>p. pc \in {"idle"} \cup MoveSteps /\ pc' \in {"idle"} \cup MoveSteps
  BY MoveControl
<1>r. pc \notin Removing /\ pc' \notin Removing
  BY <1>p DEF MoveSteps, Removing
<1>d. \A s \in Storages :
        /\ pc # "m_removed" => Leaving(s) = {}
        /\ pc' # "m_removed" => Leaving(s)' = {}
        /\ pc = "m_removed" /\ s # Src => Leaving(s) = {}
        /\ pc' = "m_removed" /\ s = Src' => Leaving(s)' = {k \in Keys : k = Key'}
  BY <1>p DEF Leaving, MoveSteps
<1>o. pc \notin {"idle", "undone", "m_removed"} => \A s \in Storages : committed[s] \subseteq meta[s]
  BY <1>d, <1>p DEF Settled, OnDisk, MoveSteps
\* a step that leaves the store alone, but for the record
<1>s. ASSUME UNCHANGED <<registered, meta, committed, cut, withdrawn>>, Named' \subseteq Named,
             pc' = "idle" \/ \A s \in Storages : committed[s] \subseteq meta[s],
             pc' # "undone"
      PROVE  Settled'
  <2>1. \A s \in Storages : Seen(s)' = Seen(s)
    BY <1>s DEF Seen
  <2>2. OneEach'
    BY <2>1, FewerEach DEF Settled
  <2>3. Complete'
    BY <2>1, <1>s, StillComplete DEF Settled
  <2>4. Truthful'
    BY <1>s, <1>0, StillTruthful DEF Settled
  <2>5. OnDisk'
    BY <1>s DEF OnDisk
  <2> QED BY <1>r, <1>s, <2>2, <2>3, <2>4, <2>5 DEF Settled
<1>1. ASSUME MoveStart \/ DeleteStart PROVE Settled'
  <2>1. /\ UNCHANGED <<registered, meta, committed, record, cut, withdrawn>>
        /\ pc = "idle" /\ pc' \in {"next", "d_forget"}
        /\ \A s \in Storages : committed[s] \subseteq meta[s]
    BY <1>1 DEF MoveStart, DeleteStart, Begins
  <2>2. Named' = Named
    BY <2>1 DEF Named
  <2> QED BY <2>1, <2>2, <1>s
<1>2. ASSUME MoveNext PROVE Settled'
  <2>1. /\ UNCHANGED <<registered, meta, committed, record, cut, withdrawn>>
        /\ pc = "next" /\ pc' \in {"idle", "copy"}
    BY <1>2 DEF MoveNext
  <2>2. Named' = Named
    BY <2>1 DEF Named
  <2> QED BY <2>1, <2>2, <1>s, <1>o
<1>3. ASSUME MoveForget PROVE Settled'
  <2>1. /\ UNCHANGED <<registered, meta, committed, cut, withdrawn>> /\ list' = record
        /\ pc = "m_forget" /\ pc' = "m_push"
    BY <1>3 DEF MoveForget
  <2>2. Named' = Named
    BY <2>1 DEF Named
  <2> QED BY <2>1, <2>2, <1>s, <1>o
<1>4. ASSUME DeleteForget PROVE Settled'
  <2>1. /\ UNCHANGED <<registered, meta, committed, cut, withdrawn>> /\ list' \subseteq record
        /\ pc = "d_forget" /\ pc' = "d_push"
    BY <1>4 DEF DeleteForget
  <2>2. Named' \subseteq Named
    BY <2>1 DEF Named
  <2> QED BY <2>1, <2>2, <1>s, <1>o
<1>5. ASSUME DeletePush PROVE Settled'
  <2>1. /\ UNCHANGED <<registered, meta, committed, cut, withdrawn>> /\ record' = list
        /\ pc = "d_push" /\ pc' = "m_delete"
    BY <1>5 DEF DeletePush
  <2>2. Named' = Named
    BY <2>1 DEF Named
  <2> QED BY <2>1, <2>2, <1>s, <1>o
<1>6. ASSUME MoveFails PROVE Settled'
  <2>1. /\ UNCHANGED <<registered, meta, committed, record, cut, withdrawn>>
        /\ \/ pc' = "idle"
           \/ pc' = "undo" /\ pc \in {"copy", "m_set", "m_commit", "m_forget", "m_push"}
    BY <1>6 DEF MoveFails
  <2>2. Named' \subseteq Named
    BY <2>1 DEF Named, Underway
  <2> QED BY <2>1, <2>2, <1>s, <1>o
<1>7. ASSUME MoveContent PROVE Settled'
  <2>1. /\ UNCHANGED <<meta, committed, record, cut, withdrawn>>
        /\ pc = "copy" /\ pc' \in {"copy", "m_set"}
    BY <1>7 DEF MoveContent
  <2>2. \A s \in Storages : registered[s] \subseteq registered'[s]
    BY <1>7, <1>0, <1>c DEF MoveContent, Register
  <2>3. Named' = Named /\ \A s \in Storages : Seen(s)' = Seen(s)
    BY <2>1 DEF Named, Seen
  <2>4. OneEach'
    BY <2>3, FewerEach DEF Settled
  <2>5. Complete'
    BY <2>1, <2>2, <2>3, StillComplete DEF Settled
  <2>6. Truthful'
    BY <2>1, <2>2, <2>3, <1>0, StillTruthful DEF Settled
  <2>7. OnDisk'
    BY <2>1, <1>o DEF OnDisk
  <2> QED BY <2>1, <2>4, <2>5, <2>6, <2>7, <1>r DEF Settled
<1>8. ASSUME MoveSet PROVE Settled'
  <2>1. /\ UNCHANGED <<registered, committed, record, cut, withdrawn>>
        /\ pc = "m_set" /\ pc' = "m_commit"
        /\ meta' = [meta EXCEPT ![Dst] = @ \cup {Key}]
        /\ Key' = Key /\ Dst' = Dst
    BY <1>8, <1>u DEF MoveSet, Set
  <2>2. Whole(Key, Dst)' /\ Key \in Seen(Src)
    BY <2>1 DEF Underway, Copying, Whole, Seen
  <2>3. \A s \in Storages : Seen(s)' \subseteq Seen(s) \cup (IF s = Dst THEN {Key} ELSE {})
    BY <2>1, <1>0, <1>c DEF Seen
  <2>4. OneEach'
    <3>1. \A s \in Storages : \A k \in Seen(s)' : \E t \in Storages : k \in Seen(t)
      BY <2>2, <2>3, <1>c
    <3> QED BY <3>1 DEF Settled, OneEach
  <2>5. Complete'
    <3>1. \A s \in Storages : \A k \in Seen(s)' : Whole(k, s)' \/ (k \in Seen(s) /\ (k \in cut[s] => k \in cut'[s]))
      BY <2>1, <2>2, <2>3
    <3> QED BY <2>1, <3>1, StillComplete DEF Settled
  <2>6. Named' = Named /\ \A s \in Storages : meta[s] \subseteq meta'[s]
    BY <2>1, <1>0, <1>c DEF Named
  <2>7. Truthful'
    BY <2>1, <2>6, <1>0, StillTruthful DEF Settled
  <2>8. OnDisk'
    BY <2>1, <2>6, <1>o DEF OnDisk
  <2> QED BY <2>1, <2>4, <2>5, <2>7, <2>8, <1>r DEF Settled
<1>9. ASSUME MoveCommit PROVE Settled'
  <2>1. /\ UNCHANGED <<registered, meta, record, withdrawn>>
        /\ pc = "m_commit" /\ pc' = "m_forget"
        /\ committed' = [committed EXCEPT ![Dst] = meta[Dst]]
        /\ cut' = [cut EXCEPT ![Dst] = (@ \cap meta[Dst]) \ {Key}]
        /\ Key' = Key /\ Dst' = Dst
    BY <1>9, <1>u DEF MoveCommit, Commit
  <2>2. Whole(Key, Dst)'
    BY <2>1 DEF Underway, Whole
  <2>3. \A t \in Storages : \A k \in Seen(t)' :
          k \in Seen(t) /\ ((k \in cut[t] => k \in cut'[t]) \/ (k = Key /\ t = Dst))
    BY <2>1, <1>c, <1>0 DEF Seen
  <2>4. OneEach'
    BY <2>3, FewerEach DEF Settled
  <2>5. Complete'
    <3>1. \A t \in Storages : \A k \in Seen(t)' : Whole(k, t)' \/ (k \in Seen(t) /\ (k \in cut[t] => k \in cut'[t]))
      BY <2>1, <2>2, <2>3
    <3> QED BY <2>1, <3>1, StillComplete DEF Settled
  <2>6. Named' = Named /\ \A t \in Storages : \A k \in meta[t] : k \in committed[t] => k \in committed'[t]
    BY <2>1, <1>c, <1>0 DEF Named
  <2>7. Truthful'
    BY <2>1, <2>6, <1>0, StillTruthful DEF Settled
  <2>8. OnDisk'
    BY <2>1, <1>c, <1>0, <1>o DEF OnDisk
  <2> QED BY <2>1, <2>4, <2>5, <2>7, <2>8, <1>r DEF Settled
<1>10. ASSUME MovePush PROVE Settled'
  <2>1. /\ UNCHANGED <<registered, meta, committed, cut>>
        /\ pc = "m_push" /\ pc' = "m_delete" /\ record' = Repointed
        /\ withdrawn' = withdrawn \cup
             {[a EXCEPT !.storage = Dst] : a \in {b \in list \cap withdrawn : SameId(b.key, Key)}}
        /\ Key' = Key /\ Dst' = Dst
    BY <1>10, <1>u DEF MovePush
  <2>2. Named = list /\ Named' = Repointed
    BY <2>1 DEF Named
  <2>3. /\ Key \in meta[Dst] /\ Key \in committed[Dst] /\ Whole(Key, Dst) /\ Key \in meta[Src]
    BY <2>1 DEF Underway, Copying
  <2>4. \A s \in Storages : Seen(s)' = Seen(s)
    BY <2>1 DEF Seen
  <2>5. OneEach'
    BY <2>4, FewerEach DEF Settled
  <2>6. Complete'
    BY <2>1, <2>4, StillComplete DEF Settled
  <2>7. \A a \in list : a \in withdrawn \/ a.key \in meta[a.storage]
    BY <2>2 DEF Settled, Truthful
  <2>8. \A b \in list : SameId(b.key, Key) => b \in withdrawn \/ b.key = Key
    <3> SUFFICES ASSUME NEW b \in list, SameId(b.key, Key), b \notin withdrawn PROVE b.key = Key
      OBVIOUS
    <3>1. b.key \in Seen(b.storage) /\ b.storage \in Storages /\ b.key \in Keys
      BY <2>2, <2>7, <1>0 DEF Seen
    <3>2. Key \in Seen(Src)
      BY <2>3 DEF Seen
    <3> QED BY <3>1, <3>2, <1>c, OneTitle DEF Settled, OneEach
  <2>9. Repointed \subseteq Copies
    BY <1>0, <1>c DEF Repointed, Copies
  <2>10. \A a \in Repointed :
           \/ a \in list
           \/ a.storage = Dst /\ a.key = Key
           \/ a \in withdrawn'
    <3> SUFFICES ASSUME NEW a \in Repointed, a \notin list
                 PROVE  (a.storage = Dst /\ a.key = Key) \/ a \in withdrawn'
      OBVIOUS
    <3>1. \/ a = [key |-> Key, storage |-> Dst]
          \/ \E b \in list : SameId(b.key, Key) /\ a = [b EXCEPT !.storage = Dst]
      BY DEF Repointed
    <3>2. CASE a = [key |-> Key, storage |-> Dst]
      BY <3>2
    <3>3. ASSUME NEW b \in list, SameId(b.key, Key), a = [b EXCEPT !.storage = Dst]
          PROVE  (a.storage = Dst /\ a.key = Key) \/ a \in withdrawn'
      <4>1. a.storage = Dst /\ a.key = b.key
        BY <3>3, <1>0 DEF Copies
      <4>2. b \in withdrawn => a \in withdrawn'
        BY <3>3, <2>1
      <4> QED BY <4>1, <4>2, <2>8, <3>3
    <3> QED BY <3>1, <3>2, <3>3
  <2>11. Truthful'
    <3>1. \A a \in Named' :
            \/ a \in withdrawn'
            \/ a.key \in meta'[a.storage] /\ a.key \in committed'[a.storage] /\ Whole(a.key, a.storage)'
      <4> SUFFICES ASSUME NEW a \in Repointed
                   PROVE  \/ a \in withdrawn'
                          \/ a.key \in meta[a.storage] /\ a.key \in committed[a.storage] /\ Whole(a.key, a.storage)
        BY <2>1, <2>2 DEF Whole
      <4>1. CASE a \in list
        BY <4>1, <2>1, <2>2 DEF Settled, Truthful
      <4>2. CASE a.storage = Dst /\ a.key = Key
        BY <4>2, <2>3
      <4> QED BY <4>1, <4>2, <2>10
    <3> QED BY <3>1 DEF Truthful
  <2>12. OnDisk'
    BY <2>1, <1>o DEF OnDisk
  <2> QED BY <2>1, <2>5, <2>6, <2>11, <2>12, <1>r DEF Settled
<1>11. ASSUME DeleteContent PROVE Settled'
  <2>1. /\ UNCHANGED <<meta, committed, record, withdrawn>>
        /\ pc = "m_delete" /\ pc' \in {"m_delete", "m_remove"}
    BY <1>11 DEF DeleteContent
  <2>2. Named' = Named /\ \A t \in Storages : Seen(t)' = Seen(t)
    BY <2>1 DEF Named, Seen
  <2>3. Key \in Seen(Src) /\ \A a \in Named : SameId(a.key, Key) => a.storage # Src
    BY <2>1 DEF Underway, Deleting, Seen
  <2>4. OneEach'
    BY <2>2, FewerEach DEF Settled
  <2>5. OnDisk'
    BY <2>1, <1>o DEF OnDisk
  <2>6. Complete' /\ Truthful'
    <3>1. CASE registered' = registered /\ cut' = cut
      <4>1. Complete'
        BY <3>1, <2>2, StillComplete DEF Settled
      <4>2. Truthful'
        BY <2>1, <2>2, <3>1, <1>0, StillTruthful DEF Settled
      <4> QED BY <4>1, <4>2
    <3>2. CASE /\ ~(j > Len(Holds[Key]))
               /\ registered' = [registered EXCEPT ![Src] = @ \ {Holds[Key][j]}]
               /\ cut' = [cut EXCEPT ![Src] = @ \cup {Key}]
      <4>1. {Holds[Key][j]} \in SUBSET ContentsOf(Key)
        BY <3>2, <1>0, <1>h
      <4>2. \A l \in Seen(Src) : SameTitle(l, Key) => l = Key
        BY <2>3, <1>c DEF Settled, OneEach
      <4>3. Key \in cut'[Src] /\ \A t \in Storages : cut[t] \subseteq cut'[t]
        BY <3>2, <1>c, <1>0
      <4>4. \A a \in Named : ~(a.storage = Src /\ SameTitle(a.key, Key))
        BY <2>3, <1>0, <1>c, OneTitle
      <4>5. \A l \in Seen(Src) : SameTitle(l, Key) => l \in cut'[Src]
        BY <4>2, <4>3
      <4>6. \A t \in Storages : Seen(t)' = Seen(t) /\ cut[t] \subseteq cut'[t]
        BY <2>2, <4>3
      <4>7. /\ Complete /\ Truthful /\ UNCHANGED <<meta, committed>>
            /\ withdrawn \subseteq withdrawn' /\ Named' \subseteq Named
        BY <2>1, <2>2 DEF Settled
      <4> QED BY <3>2, <4>1, <4>4, <4>5, <4>6, <4>7, <1>c, Loss
    <3>3. \/ registered' = registered /\ cut' = cut
          \/ /\ ~(j > Len(Holds[Key]))
             /\ registered' = [registered EXCEPT ![Src] = @ \ {Holds[Key][j]}]
             /\ cut' = [cut EXCEPT ![Src] = @ \cup {Key}]
      BY <1>11 DEF DeleteContent, Delete
    <3> QED BY <3>1, <3>2, <3>3
  <2> QED BY <2>1, <2>4, <2>5, <2>6, <1>r DEF Settled
<1>12. ASSUME DeleteKey PROVE Settled'
  <2>1. /\ UNCHANGED <<registered, committed, record, cut, withdrawn>>
        /\ pc = "m_remove" /\ pc' = "m_removed"
        /\ meta' = [meta EXCEPT ![Src] = @ \ {Key}]
        /\ Key' = Key /\ Src' = Src
    BY <1>12, <1>u DEF DeleteKey, Remove
  <2>2. Named' = Named /\ \A a \in Named : SameId(a.key, Key) => a.storage # Src
    BY <2>1 DEF Named, Underway, Deleting
  <2>3. \A s \in Storages : Seen(s)' \subseteq Seen(s)
    BY <2>1, <1>c, <1>0 DEF Seen
  <2>4. OneEach'
    BY <2>3, FewerEach DEF Settled
  <2>5. Complete'
    BY <2>1, <2>3, StillComplete DEF Settled
  <2>6. Truthful'
    <3>1. ASSUME NEW a \in Named, a.key \in meta[a.storage] PROVE a.key \in meta'[a.storage]
      <4>1. ~(a.key = Key /\ a.storage = Src)
        BY <2>2 DEF SameId
      <4> QED BY <2>1, <3>1, <4>1, <1>0, <1>c
    <3> QED BY <2>1, <2>2, <3>1, <1>0, StillTruthful DEF Settled
  <2>7. OnDisk'
    <3>1. \A s \in Storages : committed[s] \subseteq meta[s]
      BY <2>1, <1>o
    <3>2. \A s \in Storages : committed'[s] \subseteq meta'[s] \cup Leaving(s)'
      BY <2>1, <3>1, <1>d, <1>0, <1>c
    <3> QED BY <3>2 DEF OnDisk
  <2> QED BY <2>1, <2>4, <2>5, <2>6, <2>7, <1>r DEF Settled
<1>13. ASSUME DeleteCommit PROVE Settled'
  <2>1. /\ UNCHANGED <<registered, meta, record, withdrawn>>
        /\ pc = "m_removed" /\ pc' = "next"
        /\ committed' = [committed EXCEPT ![Src] = meta[Src]]
        /\ cut' = [cut EXCEPT ![Src] = @ \cap meta[Src]]
    BY <1>13 DEF DeleteCommit, Commit
  <2>3. \A t \in Storages : \A k \in Seen(t)' : k \in Seen(t) /\ (k \in cut[t] => k \in cut'[t])
    BY <2>1, <1>c, <1>0 DEF Seen
  <2>4. OneEach'
    BY <2>3, FewerEach DEF Settled
  <2>5. Complete'
    BY <2>1, <2>3, StillComplete DEF Settled
  <2>6. Named' = Named /\ \A t \in Storages : \A k \in meta[t] : k \in committed[t] => k \in committed'[t]
    BY <2>1, <1>c, <1>0 DEF Named
  <2>7. Truthful'
    BY <2>1, <2>6, <1>0, StillTruthful DEF Settled
  <2>8. OnDisk'
    <3>1. \A t \in Storages : committed[t] \subseteq meta[t] \/ t = Src
      BY <2>1, <1>d DEF Settled, OnDisk
    <3>2. \A t \in Storages : committed'[t] \subseteq meta'[t]
      BY <2>1, <1>c, <3>1, <1>0
    <3> QED BY <3>2 DEF OnDisk
  <2> QED BY <2>1, <2>4, <2>5, <2>7, <2>8, <1>r DEF Settled
<1>14. ASSUME RollbackMeta PROVE Settled'
  <2>1. /\ UNCHANGED <<registered, record, withdrawn>>
        /\ pc = "undo" /\ pc' = "undone" /\ Key' = Key /\ Src' = Src /\ Dst' = Dst
    BY <1>14, <1>u DEF RollbackMeta
  <2>2. /\ Src # Dst /\ \A s \in Storages : committed[s] \subseteq meta[s]
        /\ Named' = Named /\ \A a \in Named : SameId(a.key, Key) => a.storage = Src
    BY <2>1, <1>o DEF Underway, Copying, Named
  <2>3. /\ meta' = meta \/ meta' = [meta EXCEPT ![Dst] = @ \ {Key}]
        /\ committed' = committed \/ committed' = [committed EXCEPT ![Dst] = meta'[Dst]]
        /\ cut' = cut \/ cut' = [cut EXCEPT ![Dst] = @ \cup {Key}]
    BY <1>14 DEF RollbackMeta
  <2>4. /\ \A s \in Storages : meta'[s] \subseteq meta[s] /\ committed'[s] \subseteq meta[s] /\ cut[s] \subseteq cut'[s]
        /\ \A s \in Storages : \A k \in meta[s] : k \in meta'[s] \/ (k = Key /\ s = Dst)
        /\ \A s \in Storages : \A k \in committed[s] : k \in committed'[s] \/ (k = Key /\ s = Dst)
    BY <2>2, <2>3, <1>0, <1>c
  <2>5. \A s \in Storages : Seen(s)' \subseteq Seen(s)
    BY <2>4 DEF Seen
  <2>6. OneEach'
    BY <2>5, FewerEach DEF Settled
  <2>7. Complete'
    BY <2>1, <2>4, <2>5, StillComplete DEF Settled
  <2>8. Truthful'
    <3>1. \A a \in Named : ~(a.key = Key /\ a.storage = Dst)
      BY <2>2 DEF SameId
    <3> QED BY <2>1, <2>2, <2>4, <3>1, <1>0, StillTruthful DEF Settled
  <2>9. Key \in cut'[Dst] \/ (Key \notin meta'[Dst] /\ Key \notin committed'[Dst])
    <3>1. CASE has_meta /\ meta' = [meta EXCEPT ![Dst] = @ \ {Key}] /\ committed' = [committed EXCEPT ![Dst] = meta'[Dst]]
      BY <3>1, <1>0, <1>c
    <3>2. CASE cut' = [cut EXCEPT ![Dst] = @ \cup {Key}]
      BY <3>2, <1>0, <1>c
    <3>3. CASE ~has_meta /\ Key \notin meta[Dst]
      BY <3>3, <2>4, <1>c
    <3> QED BY <1>14, <3>1, <3>2, <3>3 DEF RollbackMeta
  <2>10. (Key \in cut[Dst] \/ Key \notin Seen(Dst))'
    BY <2>1, <2>9 DEF Seen
  <2> QED BY <2>1, <2>6, <2>7, <2>8, <2>10, <1>r DEF Settled, OnDisk
<1>15. ASSUME RollbackContents PROVE Settled'
  <2>1. /\ UNCHANGED <<meta, committed, record, cut, withdrawn>>
        /\ pc = "undone" /\ pc' = "idle"
    BY <1>15 DEF RollbackContents
  <2>2. PICK stuck \in SUBSET placed : registered' = [registered EXCEPT ![Dst] = @ \ (placed \ stuck)]
    BY <1>15 DEF RollbackContents
  <2>3. /\ Src # Dst /\ Key \in Seen(Src) /\ placed \subseteq ContentsOf(Key)
        /\ \A a \in Named : SameId(a.key, Key) => a.storage = Src
        /\ Key \in cut[Dst] \/ Key \notin Seen(Dst)
    BY <2>1 DEF Underway, Copying, Seen, Settled
  <2>4. Named' = Named /\ \A t \in Storages : Seen(t)' = Seen(t)
    BY <2>1 DEF Named, Seen
  <2>5. OneEach'
    BY <2>4, FewerEach DEF Settled
  <2>6. \A l \in Seen(Dst) : SameTitle(l, Key) => l \in cut'[Dst]
    <3>1. \A l \in Seen(Dst) : SameTitle(l, Key) => l = Key
      BY <2>3, <1>c DEF Settled, OneEach
    <3> QED BY <3>1, <2>3, <2>1
  <2>7. \A a \in Named : ~(a.storage = Dst /\ SameTitle(a.key, Key))
    BY <2>3, <1>0, <1>c, OneTitle
  <2>8. placed \ stuck \in SUBSET ContentsOf(Key)
    BY <2>3
  <2>9. /\ Complete /\ Truthful /\ UNCHANGED <<meta, committed>>
        /\ withdrawn \subseteq withdrawn' /\ Named' \subseteq Named
        /\ \A t \in Storages : Seen(t)' = Seen(t) /\ cut[t] \subseteq cut'[t]
    BY <2>1, <2>4 DEF Settled
  <2>10. Complete' /\ Truthful'
    BY <2>2, <2>6, <2>7, <2>8, <2>9, <1>c, Loss
  <2> QED BY <2>1, <2>5, <2>10, <1>r DEF Settled, OnDisk
<1> QED
  BY <1>1, <1>2, <1>3, <1>4, <1>5, <1>6, <1>7, <1>8, <1>9, <1>10, <1>11, <1>12, <1>13,
     <1>14, <1>15 DEF Move

-------------------------------------------------------------------------------
(* The system *)

\* The console as it is found.
LEMMA InitInv == Init => IInv
<1> SUFFICES ASSUME Init PROVE IInv
  OBVIOUS
<1>1. TypeOK
  BY InitTypes
<1>2. /\ pc = "idle" /\ resets = "none" /\ done = {} /\ launch = 0 /\ ~unsettled /\ committed = meta
  BY DEF Init, StoreInit, InstallInit
<1>3. Deferred /\ Taken /\ Ticketed /\ Finished
  BY <1>2 DEF Deferred, Taken, Ticketed, Finished, InstalledIsWhole, InstallSteps, MoveSteps,
              Working, Removing, Placing, Bringing
<1>4. PICK there \in SUBSET Copies :
        /\ \A a, b \in there : SameTitle(a.key, b.key) => a = b
        /\ record = there
        /\ meta = [s \in Storages |-> {a.key : a \in {b \in there : b.storage = s}}]
        /\ registered = [s \in Storages |-> UNION {ContentsOf(k) : k \in meta[s]}]
  BY DEF Init, StoreInit
<1>5. \A a \in there : a.key \in Keys /\ a.storage \in Storages
  BY DEF Copies
<1>6. \A s \in Storages : \A k \in meta[s] : \E a \in there : a.key = k
  BY <1>4
<1>7. \A a \in there : a.key \in meta[a.storage]
  BY <1>4, <1>5
<1>8. \A s \in Storages : \A k \in meta[s] : Whole(k, s)
  BY <1>4 DEF Whole
<1>9. Named = record
  BY <1>2 DEF Named
<1>10. Underway
  <2>1. \A a, b \in record : SameId(a.key, b.key) => a = b
    BY <1>4, <1>5, OneTitle
  <2> QED BY <1>2, <1>9, <2>1 DEF Underway, Copying, Deleting
<1>11. \A s \in Storages : Seen(s) = meta[s]
  BY <1>2 DEF Seen
<1>12. OneEach
  BY <1>4, <1>6, <1>11 DEF OneEach
<1>13. Complete
  BY <1>8, <1>11 DEF Complete
<1>14. Truthful
  BY <1>2, <1>4, <1>5, <1>7, <1>8, <1>9 DEF Truthful
<1>15. Settled
  BY <1>2, <1>12, <1>13, <1>14 DEF Settled, OnDisk, Removing
<1> QED BY <1>1, <1>3, <1>10, <1>15 DEF IInv

\* What began with a removal that was not on disk stays unsettled.
LEMMA StaysUnsettled ==
  ASSUME Next
  PROVE  unsettled => unsettled'
<1> USE DEF kept, history, Begins, installing
<1>1. CASE Crash
  BY <1>1 DEF Crash, StoreCrash
<1>2. CASE InstallStart \/ StreamFill \/ InstallCnmtNca \/ SkipTitle \/ TakeTitle \/ InstallNcas
  BY <1>2 DEF InstallStart, StreamFill, InstallCnmtNca, SkipTitle, TakeTitle, InstallNcas, InstallNca
<1>3. CASE ImportTickets \/ RemoveList \/ RemoveContent \/ RemoveKey \/ RemoveCommit \/ RegisterContent
  BY <1>3 DEF ImportTickets, RemoveList, RemoveContent, RemoveKey, RemoveCommit, RegisterContent
<1>4. CASE SetKey \/ CommitKey \/ PushRecord \/ PushLaunch \/ InstallEnds \/ InstallFails
  BY <1>4 DEF SetKey, CommitKey, PushRecord, PushLaunch, InstallEnds, InstallFails
<1>5. CASE MoveStart \/ MoveNext \/ MoveContent \/ MoveSet \/ MoveCommit \/ MoveForget
  BY <1>5 DEF MoveStart, MoveNext, MoveContent, MoveSet, MoveCommit, MoveForget
<1>6. CASE MovePush \/ DeleteContent \/ DeleteKey \/ DeleteCommit \/ DeleteStart
  BY <1>6 DEF MovePush, DeleteContent, DeleteKey, DeleteCommit, DeleteStart
<1>7. CASE DeleteForget \/ DeletePush \/ MoveFails \/ RollbackMeta \/ RollbackContents
  BY <1>7 DEF DeleteForget, DeletePush, MoveFails, RollbackMeta, RollbackContents
<1> QED BY <1>1, <1>2, <1>3, <1>4, <1>5, <1>6, <1>7 DEF Next, Install, Move

\* Every step keeps the invariant.
LEMMA StepInv == IInv /\ [Next]_vars => IInv'
<1> SUFFICES ASSUME IInv, [Next]_vars PROVE IInv'
  OBVIOUS
<1>0. TypeOK /\ Deferred /\ Taken /\ Ticketed /\ Finished /\ Underway /\ (unsettled \/ Settled)
  BY DEF IInv
<1>1. Deferred'
  BY <1>0, StepDeferred
<1>2. CASE Install /\ UNCHANGED moving
  <2>1. TypeOK' /\ Taken' /\ Ticketed' /\ Finished' /\ Underway'
    BY <1>0, <1>2, InstallTypes, InstallTaken, InstallTicketed, InstallFinished, InstallUnderway
  <2>2. Next
    BY <1>2 DEF Next
  <2>3. unsettled' \/ Settled'
    BY <1>0, <1>2, <2>2, StaysUnsettled, InstallSettled
  <2> QED BY <1>1, <2>1, <2>3 DEF IInv
<1>3. CASE Move /\ Aside
  <2>1. TypeOK' /\ Taken' /\ Ticketed' /\ Finished' /\ Underway'
    BY <1>0, <1>3, MoveTypes, MoveRest, MoveUnderway
  <2>2. Next
    BY <1>3 DEF Next, Aside
  <2>3. unsettled' \/ Settled'
    BY <1>0, <1>3, <2>2, StaysUnsettled, MoveSettled
  <2> QED BY <1>1, <2>1, <2>3 DEF IInv
<1>4. CASE Crash
  <2>1. TypeOK' /\ Taken' /\ Ticketed' /\ Finished' /\ Underway'
    BY <1>0, <1>4, CrashTypes, CrashRest
  <2>2. Next
    BY <1>4 DEF Next
  <2>3. unsettled' \/ Settled'
    BY <1>0, <1>4, <2>2, StaysUnsettled, CrashSettled
  <2> QED BY <1>1, <2>1, <2>3 DEF IInv
<1>5. CASE UNCHANGED vars
  <2> USE DEF vars, kept, databases, services, history, installing, moving
  <2>1. TypeOK'
    BY <1>0, <1>5 DEF TypeOK, StoreType, InstallType, MoveType
  <2>2. /\ Current' = Current /\ Target' = Target /\ Key' = Key /\ Src' = Src /\ Dst' = Dst /\ Named' = Named
        /\ \A s : Seen(s)' = Seen(s) /\ Victims(s)' = Victims(s) /\ Leaving(s)' = Leaving(s)
    BY <1>5 DEF Current, Target, Key, Src, Dst, Named, Seen, Victims, Leaving
  <2>3. \A k, s : Whole(k, s)' = Whole(k, s)
    BY <1>5 DEF Whole
  <2>4. Taken'
    BY <1>0, <1>5, <2>2, <2>3 DEF Taken
  <2>5. Ticketed' /\ Finished'
    BY <1>0, <1>5, <2>2, <2>3 DEF Ticketed, Finished, InstalledIsWhole
  <2>6. Underway'
    BY <1>0, <1>5, <2>2, <2>3 DEF Underway
  <2>7. unsettled' \/ Settled'
    BY <1>0, <1>5, <2>2, <2>3 DEF Settled, OneEach, OnDisk, Complete, Truthful
  <2> QED BY <1>1, <2>1, <2>4, <2>5, <2>6, <2>7 DEF IInv
<1> QED BY <1>2, <1>3, <1>4, <1>5 DEF Next, Aside

-------------------------------------------------------------------------------
(* The theorems *)

\* The invariant holds in every state.
THEOREM Invariance == Spec => []IInv
BY InitInv, StepInv, PTL DEF Spec

\* Every variable keeps its type: the index of a title stays inside its container.
THEOREM Typing == Spec => []TypeOK
BY Invariance, PTL DEF IInv

\* What is on disk is seen.
LEMMA InvKeysWhole == IInv => KeysWhole
BY DEF IInv, KeysWhole, Settled, Complete, Seen

\* A key on disk has all its contents, or its own removal was stopped half way: the order of
\* RegisterNcasAndPushRecord, what RemoveInstalledNcas spares, and the rollback of a move.
THEOREM WholeOnDisk == Spec => []KeysWhole
BY Invariance, InvKeysWhole, PTL

\* What is on disk is seen.
LEMMA InvOneVersion == IInv => OneVersion
BY DEF IInv, OneVersion, Settled, OneEach, Seen

\* The databases on disk never hold two versions of a title: RemoveInstalledNcas looks on
\* both storages before the new key is set.
THEOREM VersionsOnce == Spec => []OneVersion
BY Invariance, InvOneVersion, PTL

\* The record is empty while it is deleted to be pushed again.
LEMMA InvRecordTrue == IInv => RecordTrue
BY DEF IInv, RecordTrue, Settled, Truthful, Named, Underway

\* The application record names only what is there and complete: MoveComponentImpl repoints
\* it before ncm::DeleteKey, and DeleteComponent takes a component out of it first.
THEOREM RecordHolds == Spec => []RecordTrue
BY Invariance, InvRecordTrue, PTL

\* What an install finished stays on disk, complete, with its tickets and in the record, also
\* when a later title of its container fails or the power goes.
THEOREM InstalledStays == Spec => []InstalledIsWhole
BY Invariance, PTL DEF IInv, Finished

\* No install is under way between jobs.
LEMMA InvLaunchReset == IInv => LaunchReset
BY DEF IInv, LaunchReset, Deferred, InstallSteps

\* DeferredPatchLaunchResets: no install ends, but by a crash, with a reset still due, and one
\* that was made is not undone.
THEOREM ResetsKept == Spec => []LaunchReset
BY Invariance, InvLaunchReset, PTL
=============================================================================
