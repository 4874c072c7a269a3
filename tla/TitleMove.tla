------------------------------ MODULE TitleMove ------------------------------
(***************************************************************************)
(* title::MoveApplication and title::DeleteComponent: the components of an *)
(* application are copied to the other storage one by one (contents, meta  *)
(* key, application record, and only then the removal of the source), with *)
(* a rollback of what was placed on the target until the record names it.  *)
(* A deletion takes the component out of the record before its files.      *)
(*                                                                         *)
(* Which components there are is what the record says.  ns can only        *)
(* replace a record as a whole: it is read, deleted and pushed again.      *)
(***************************************************************************)
EXTENDS TitleStore

VARIABLES
  plan,      \* SUBSET Copies: the components still to move
  component, \* [key, src, dst]: the one under way; src = dst for a deletion
  placed,    \* SUBSET Contents: MoveRollback.registered
  has_meta,  \* MoveRollback.has_meta
  list       \* SUBSET Copies: the records as they were read

moving == <<plan, component, placed, has_meta, list>>

MoveSteps == {"next", "copy", "m_set", "m_commit", "m_forget", "m_push", "undo", "undone",
              "d_forget", "d_push", "m_delete", "m_remove", "m_removed"}

MoveType ==
  /\ plan \subseteq Copies
  /\ component \in [key : Keys, src : Storages, dst : Storages]
  /\ placed \subseteq Contents
  /\ has_meta \in BOOLEAN
  /\ list \subseteq Copies

MoveInit ==
  /\ component = [key |-> CHOOSE k \in Keys : TRUE, src |-> "nand", dst |-> "nand"]
  /\ plan = {} /\ placed = {} /\ has_meta = FALSE /\ list = {}

Key == component.key
Src == component.src
Dst == component.dst

SameId(k, l) == k.id = l.id /\ k.type = l.type

\* GetComponentContents: what the database has under the id that the record names.
Found(a) == {k \in meta[a.storage] : SameId(k, a.key)}

-----------------------------------------------------------------------------
\* GetMovePlan: a component that its database does not know is left out.
MoveStart ==
  /\ pc = "idle" /\ jobs < MaxJobs
  /\ \E target \in Storages :
       /\ plan' = {a \in record : a.storage # target /\ Found(a) # {}}
       /\ plan' # {}
       /\ component' = [component EXCEPT !.dst = target]
  /\ jobs' = jobs + 1 /\ pc' = "next" /\ outcome' = "none"
  /\ Begins /\ UNCHANGED <<j, placed, has_meta, list>>

\* MoveComponentImpl, its beginning
MoveNext ==
  /\ pc = "next"
  /\ IF plan = {}
     THEN /\ pc' = "idle" /\ outcome' = "success"
          /\ UNCHANGED <<plan, component, placed, has_meta, list, j>>
     ELSE /\ \E a \in plan : \E k \in Found(a) :
               /\ plan' = plan \ {a}
               /\ component' = [component EXCEPT !.key = k, !.src = a.storage]
          /\ pc' = "copy" /\ j' = 1
          /\ placed' = {} /\ has_meta' = FALSE /\ list' = {}
          /\ UNCHANGED outcome
  /\ UNCHANGED <<kept, jobs>>

\* One content: it is on the target already, or copied through a placeholder.
MoveContent ==
  /\ pc = "copy"
  /\ IF j > Len(Holds[Key])
     THEN pc' = "m_set" /\ UNCHANGED <<registered, placed, j>>
     ELSE LET c == Holds[Key][j] IN
          /\ j' = j + 1 /\ UNCHANGED pc
          /\ IF c \in registered[Dst]
             THEN UNCHANGED <<registered, placed>>
             ELSE /\ c \in registered[Src]
                  /\ Register(c, Dst)
                  /\ placed' = placed \cup {c}
  /\ UNCHANGED <<databases, services, history, jobs, outcome, plan, component, has_meta, list>>

MoveSet ==
  /\ pc = "m_set" /\ pc' = "m_commit"
  /\ Set(Key, Dst)
  /\ UNCHANGED <<registered, services, history, jobs, j, outcome, moving>>

\* Mutant: the source is removed before the record names the target.
MoveCommitDeletes ==
  /\ pc = "m_commit" /\ pc' = "m_delete"
  /\ Commit(Dst)
  /\ cut' = [cut EXCEPT ![Dst] = (@ \cap meta[Dst]) \ {Key}]
  /\ has_meta' = TRUE /\ j' = 1
  /\ UNCHANGED <<registered, services, withdrawn, unsettled, jobs, outcome, plan, component, placed, list>>

MoveCommit ==
  /\ pc = "m_commit" /\ pc' = "m_forget"
  /\ Commit(Dst)
  /\ cut' = [cut EXCEPT ![Dst] = (@ \cap meta[Dst]) \ {Key}]
  /\ has_meta' = TRUE
  /\ UNCHANGED <<registered, services, withdrawn, unsettled, jobs, j, outcome, plan, component, placed, list>>

\* RepointApplicationRecord: the record is read and deleted ...
MoveForget ==
  /\ pc = "m_forget" /\ pc' = "m_push"
  /\ list' = record
  /\ record' = {}
  /\ UNCHANGED <<registered, databases, imported, launch, history, jobs, j, outcome,
                 plan, component, placed, has_meta>>

\* ... and pushed again with the new storage.  This commits the move.
Repointed ==
  LET mine == {a \in list : SameId(a.key, Key)}
  IN (list \ mine) \cup
     (IF mine = {} THEN {[key |-> Key, storage |-> Dst]}
      ELSE {[a EXCEPT !.storage = Dst] : a \in mine})

MovePush ==
  /\ pc = "m_push" /\ pc' = "m_delete"
  /\ record' = Repointed
  \* a record that an interrupted install left behind takes its old version along
  /\ withdrawn' = withdrawn \cup
       {[a EXCEPT !.storage = Dst] : a \in {b \in list \cap withdrawn : SameId(b.key, Key)}}
  /\ j' = 1
  /\ UNCHANGED <<registered, databases, imported, launch, cut, unsettled, jobs, outcome, moving>>

-----------------------------------------------------------------------------
\* ncm::DeleteKey.  Unlike ncm::Delete it fails for a content that is gone.
DeleteContent ==
  /\ pc = "m_delete"
  /\ IF j > Len(Holds[Key])
     THEN pc' = "m_remove" /\ UNCHANGED <<registered, cut, j>>
     ELSE /\ Holds[Key][j] \in registered[Src]
          /\ Delete(Holds[Key][j], Src)
          /\ cut' = [cut EXCEPT ![Src] = @ \cup {Key}]
          /\ j' = j + 1 /\ UNCHANGED pc
  /\ UNCHANGED <<databases, services, withdrawn, unsettled, jobs, outcome, moving>>

DeleteKey ==
  /\ pc = "m_remove" /\ pc' = "m_removed"
  /\ Remove(Key, Src)
  /\ UNCHANGED <<registered, services, history, jobs, j, outcome, moving>>

\* The end of a component; plan is empty in a deletion.
DeleteCommit ==
  /\ pc = "m_removed" /\ pc' = "next"
  /\ Commit(Src)
  /\ cut' = [cut EXCEPT ![Src] = @ \cap meta[Src]]
  /\ UNCHANGED <<registered, services, withdrawn, unsettled, jobs, j, outcome, moving>>

-----------------------------------------------------------------------------
\* DeleteComponent: the record first.
DeleteStart ==
  /\ pc = "idle" /\ jobs < MaxJobs
  /\ \E a \in record : \E k \in Found(a) :
       component' = [key |-> k, src |-> a.storage, dst |-> a.storage]
  /\ plan' = {} /\ placed' = {} /\ has_meta' = FALSE
  /\ jobs' = jobs + 1 /\ pc' = "d_forget" /\ outcome' = "none"
  /\ Begins /\ UNCHANGED <<j, list>>

DeleteForget ==
  /\ pc = "d_forget" /\ pc' = "d_push"
  /\ list' = {a \in record : ~SameId(a.key, Key)}
  /\ record' = {}
  /\ UNCHANGED <<registered, databases, imported, launch, history, jobs, j, outcome,
                 plan, component, placed, has_meta>>

DeletePush ==
  /\ pc = "d_push" /\ pc' = "m_delete"
  /\ record' = list
  /\ j' = 1
  /\ UNCHANGED <<registered, databases, imported, launch, history, jobs, outcome, moving>>

-----------------------------------------------------------------------------
\* Any call may fail, and a cancel stops the copying.  Until the record is pushed the
\* rollback is armed.
MoveFails ==
  /\ \/ /\ pc \in {"copy", "m_set", "m_commit", "m_forget", "m_push"}
        /\ pc' = "undo" /\ UNCHANGED outcome
     \/ /\ pc \in {"next", "d_forget", "d_push", "m_delete", "m_remove", "m_removed"}
        /\ pc' = "idle" /\ outcome' = "failed"
  /\ UNCHANGED <<kept, jobs, j, moving>>

\* ~MoveRollback: the meta key first.  Its results are not looked at: the key stays in
\* the database if has_meta was not set yet, or if one of the two calls fails.
RollbackMeta ==
  /\ pc = "undo" /\ pc' = "undone"
  /\ \/ /\ has_meta
        /\ meta' = [meta EXCEPT ![Dst] = @ \ {Key}]
        /\ committed' = [committed EXCEPT ![Dst] = meta'[Dst]]
        /\ UNCHANGED cut
     \/ /\ has_meta
        /\ meta' \in {meta, [meta EXCEPT ![Dst] = @ \ {Key}]}
        /\ UNCHANGED committed
        /\ cut' = [cut EXCEPT ![Dst] = @ \cup {Key}]
     \/ /\ ~has_meta
        /\ cut' = IF Key \in meta[Dst] THEN [cut EXCEPT ![Dst] = @ \cup {Key}] ELSE cut
        /\ UNCHANGED databases
  /\ UNCHANGED <<registered, services, withdrawn, unsettled, jobs, j, outcome, moving>>

RollbackContents ==
  /\ pc = "undone" /\ pc' = "idle" /\ outcome' = "failed"
  /\ \E stuck \in SUBSET placed :
       registered' = [registered EXCEPT ![Dst] = @ \ (placed \ stuck)]
  /\ UNCHANGED <<databases, services, history, jobs, j, moving>>

Move ==
  \/ MoveStart \/ MoveNext \/ MoveContent \/ MoveSet \/ MoveCommit \/ MoveForget \/ MovePush
  \/ DeleteContent \/ DeleteKey \/ DeleteCommit
  \/ DeleteStart \/ DeleteForget \/ DeletePush
  \/ MoveFails \/ RollbackMeta \/ RollbackContents

MoveForgets == plan' = {} /\ placed' = {} /\ has_meta' = FALSE /\ list' = {} /\ UNCHANGED component
=============================================================================
