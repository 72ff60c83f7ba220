-------------------------- MODULE CollectionAccess --------------------------
(***************************************************************************)
(* Opening and scanning collections: instances of the program that share   *)
(* one database and one lock file per directory, each with a controller    *)
(* (CollectionController), a scanner whose workers answer late             *)
(* (DirectoryScanner) and at most one lock (AppLock).  A directory's       *)
(* contents are the number of times it has changed; an inventory is the    *)
(* directory and the contents it was taken from.                           *)
(***************************************************************************)
EXTENDS Integers, FiniteSets

CONSTANTS
  Instances, Dirs, None,
  OpenFaults,   \* when the record of a collection may be unobtainable: as the
                \* "first" an instance opens, or as a "later" one
  MaxScans,     \* bound on the scans each instance requests of its own accord
  MaxChanges    \* no directory changes once one has changed so often

ASSUME AccessAssumption ==
  /\ None \notin Dirs
  /\ OpenFaults \subseteq {"first", "later"}
  /\ MaxScans \in [Instances -> Nat] /\ MaxChanges \in Nat

VARIABLES
  root,      \* the directory an instance has open
  readOnly,  \* whether it opened it without the lock
  held,      \* the directory whose lock file it has locked
  gen,       \* generation_, also the scanner's
  tasks,     \* its scan tasks: running, or posted to its event loop
  scanning,  \* the indicator in its status bar
  shown,     \* the inventory its browser lists
  stored,    \* the inventory the database holds of each collection
  disk       \* the contents of each directory

vars == <<root, readOnly, held, gen, tasks, scanning, shown, stored, disk>>

Inventory(d, n) == [from |-> d, seen |-> n]
Unscanned == -1
Failed == -2

Task(g, d) == [gen |-> g, dir |-> d, posted |-> FALSE, seen |-> Unscanned]

Writable(i) == root[i] # None /\ ~readOnly[i]

-----------------------------------------------------------------------------
(* AppLock *)

\* Mutant: a lock that another instance holds is taken over as stale.
MutObtainable(i, d) == TRUE

(* acquire() keeps a lock it has, else releases it and tries the new one.    *)
Obtainable(i, d) == held[i] = d \/ \A j \in Instances \ {i} : held[j] # d

-----------------------------------------------------------------------------
(* CollectionController *)

StartScan(i, d) ==
  /\ gen' = [gen EXCEPT ![i] = @ + 1]
  /\ scanning' = [scanning EXCEPT ![i] = TRUE]
  /\ tasks' = [tasks EXCEPT ![i] = @ \cup {Task(gen[i] + 1, d)}]

Unhurried(i) == gen[i] < MaxScans[i]

OpenWritable(i, d) ==
  /\ Unhurried(i) /\ Obtainable(i, d)
  /\ held' = [held EXCEPT ![i] = d]
  /\ stored' = [stored EXCEPT ![d] = IF @ = None THEN Inventory(d, Unscanned) ELSE @]
  /\ root' = [root EXCEPT ![i] = d]
  /\ readOnly' = [readOnly EXCEPT ![i] = FALSE]
  /\ shown' = [shown EXCEPT ![i] = stored'[d]]
  /\ StartScan(i, d)
  /\ UNCHANGED disk

(* The scan that may be out is neither superseded nor cancelled.             *)
OpenReadOnly(i, d) ==
  /\ ~Obtainable(i, d)
  /\ stored[d] # None
  /\ held' = [held EXCEPT ![i] = None]
  /\ root' = [root EXCEPT ![i] = d]
  /\ readOnly' = [readOnly EXCEPT ![i] = TRUE]
  /\ shown' = [shown EXCEPT ![i] = stored[d]]
  /\ UNCHANGED <<gen, tasks, scanning, stored, disk>>

(* The record can be neither made nor found.  (The fault is the database's:  *)
(* a collection whose lock is held has a record.)  The directory that was open    *)
(* stays open as it was, without the lock acquire() has released.            *)
OpenFails(i) ==
  /\ (IF root[i] = None THEN "first" ELSE "later") \in OpenFaults
  /\ held' = [held EXCEPT ![i] = None]
  /\ UNCHANGED <<root, readOnly, gen, tasks, scanning, shown, stored, disk>>

(* The Refresh command, the activation of the window, the end of a recovery, *)
(* or the watcher's debounce timer, which runs only for a writer and is a    *)
(* hint: it may come at any time, or never.                                  *)
Refresh(i) ==
  /\ Unhurried(i) /\ Writable(i)
  /\ StartScan(i, root[i])
  /\ UNCHANGED <<root, readOnly, held, shown, stored, disk>>

-----------------------------------------------------------------------------
(* DirectoryScanner *)

Running(i) == {t \in tasks[i] : ~t.posted}
Posted(i) == {t \in tasks[i] : t.posted}

Answer(t, seen) == [gen |-> t.gen, dir |-> t.dir, posted |-> TRUE, seen |-> seen]

(* A worker reads the directory, or fails to, and drops what is superseded.  *)
Enumerate(i, t) ==
  /\ t \in Running(i)
  /\ \E seen \in {disk[t.dir], Failed} :
       tasks' = [tasks EXCEPT ![i] =
                   (@ \ {t}) \cup (IF t.gen = gen[i] THEN {Answer(t, seen)} ELSE {})]
  /\ UNCHANGED <<root, readOnly, held, gen, scanning, shown, stored, disk>>

\* Mutant: a delivery is not compared with the generation.
MutAnswers(i, t) == TRUE

(* Both the scanner and the controller compare the generation.               *)
Answers(i, t) == t.gen = gen[i]

Drop(i, t) == /\ t \in Posted(i) /\ ~Answers(i, t)
              /\ tasks' = [tasks EXCEPT ![i] = @ \ {t}]
              /\ UNCHANGED <<root, readOnly, held, gen, scanning, shown, stored, disk>>

\* Mutant: the indicator is left on.
MutScanFailed(i, t) ==
  /\ t \in Posted(i) /\ Answers(i, t) /\ t.seen = Failed
  /\ tasks' = [tasks EXCEPT ![i] = @ \ {t}]
  /\ UNCHANGED <<root, readOnly, held, gen, scanning, shown, stored, disk>>

ScanFailed(i, t) ==
  /\ t \in Posted(i) /\ Answers(i, t) /\ t.seen = Failed
  /\ tasks' = [tasks EXCEPT ![i] = @ \ {t}]
  /\ scanning' = [scanning EXCEPT ![i] = FALSE]
  /\ UNCHANGED <<root, readOnly, held, gen, shown, stored, disk>>

(* applyScanResult() reconciles into the collection that is open now; a      *)
(* result that cannot be stored is still shown.                              *)
Reconcile(i, t) ==
  /\ t \in Posted(i) /\ Answers(i, t) /\ t.seen # Failed
  /\ tasks' = [tasks EXCEPT ![i] = @ \ {t}]
  /\ scanning' = [scanning EXCEPT ![i] = FALSE]
  /\ shown' = [shown EXCEPT ![i] = Inventory(t.dir, t.seen)]
  /\ stored' \in {stored, [stored EXCEPT ![root[i]] = Inventory(t.dir, t.seen)]}
  /\ UNCHANGED <<root, readOnly, held, gen, disk>>

-----------------------------------------------------------------------------
(* The environment *)

Change(d) ==
  /\ \A f \in Dirs : disk[f] < MaxChanges
  /\ disk' = [disk EXCEPT ![d] = @ + 1]
  /\ UNCHANGED <<root, readOnly, held, gen, tasks, scanning, shown, stored>>

(* An instance ends, or dies and is started again: a lock file whose process *)
(* is gone counts as free.                                                   *)
Quit(i) ==
  /\ root[i] # None
  /\ root' = [root EXCEPT ![i] = None]
  /\ readOnly' = [readOnly EXCEPT ![i] = FALSE]
  /\ held' = [held EXCEPT ![i] = None]
  /\ gen' = [gen EXCEPT ![i] = 0]
  /\ tasks' = [tasks EXCEPT ![i] = {}]
  /\ scanning' = [scanning EXCEPT ![i] = FALSE]
  /\ shown' = [shown EXCEPT ![i] = None]
  /\ UNCHANGED <<stored, disk>>

-----------------------------------------------------------------------------
Init ==
  /\ root = [i \in Instances |-> None]
  /\ readOnly = [i \in Instances |-> FALSE]
  /\ held = [i \in Instances |-> None]
  /\ gen = [i \in Instances |-> 0]
  /\ tasks = [i \in Instances |-> {}]
  /\ scanning = [i \in Instances |-> FALSE]
  /\ shown = [i \in Instances |-> None]
  /\ stored = [d \in Dirs |-> None]
  /\ disk = [d \in Dirs |-> 0]

Open(i) == OpenFails(i) \/ \E d \in Dirs : OpenWritable(i, d) \/ OpenReadOnly(i, d)

Work(i) == \E t \in tasks[i] : Enumerate(i, t)
Deliver(i) == \E t \in tasks[i] : Drop(i, t) \/ ScanFailed(i, t) \/ Reconcile(i, t)

Next == \/ \E i \in Instances : \/ Open(i) \/ Refresh(i)
                                \/ Work(i) \/ Deliver(i) \/ Quit(i)
        \/ \E d \in Dirs : Change(d)

Spec == Init /\ [][Next]_vars

(* The thread pool runs what is queued, the event loop delivers what is      *)
(* posted.                                                                   *)
FairSpec == Spec /\ \A i \in Instances : WF_vars(Work(i)) /\ WF_vars(Deliver(i))

-----------------------------------------------------------------------------
(* Properties *)

(* At most one instance has a collection open for writing.                   *)
OneWriter == \A i, j \in Instances : Writable(i) /\ Writable(j) /\ root[i] = root[j] => i = j

(* An instance that may write stores in its collection, and lists, only what *)
(* was read from that collection's directory, and never an older inventory   *)
(* after a newer one, through any order of openings, refreshes, failures and *)
(* late answers.                                                             *)
WriterKeepsInventory ==
  [][\A i \in Instances : Writable(i) /\ Deliver(i) =>
       /\ \A d \in Dirs : stored'[d] # stored[d] => d = root[i] /\ stored'[d].from = d
       /\ shown'[i] # shown[i] => shown'[i].from = root[i]
       /\ shown[i].from = root[i] => shown'[i].seen >= shown[i].seen]_vars

(* Every scan that was announced is reported as over, whatever superseded or *)
(* failed it, and whichever directory was opened meanwhile.                  *)
ScansEnd == \A i \in Instances : scanning[i] ~> ~scanning[i]

(* An instance that has a collection open read-only stores nothing.          *)
ReadersStoreNothing ==
  [][\A i \in Instances : readOnly[i] /\ Deliver(i) => stored' = stored]_vars
=============================================================================
