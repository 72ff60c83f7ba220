------------------------ MODULE CollectionAccess_proofs ------------------------
(***************************************************************************)
(* Proofs about CollectionAccess, for any instances, directories and       *)
(* bounds: one writer per collection as long as an opening fails only      *)
(* where nothing was open, and, whatever fails, a writer that stores and   *)
(* lists only what its own directory held, and never turns back in time.   *)
(***************************************************************************)
EXTENDS CollectionAccess, TLAPS

-----------------------------------------------------------------------------
(* One writer *)

LockType ==
  /\ root \in [Instances -> Dirs \cup {None}]
  /\ readOnly \in [Instances -> BOOLEAN]
  /\ held \in [Instances -> Dirs \cup {None}]

Exclusive == \A i, j \in Instances : held[i] = held[j] /\ held[i] # None => i = j
WritersHold == \A i \in Instances : Writable(i) => held[i] = root[i]

LockInv == LockType /\ Exclusive /\ WritersHold

lockVars == <<root, readOnly, held>>

(* Where no opening fails with another collection open, an instance that may *)
(* write holds the lock of what it has open.                                 *)
LEMMA LockInvInductive ==
  ASSUME "later" \notin OpenFaults, LockInv, [Next]_vars
  PROVE  LockInv'
<1> USE AccessAssumption
<1>1. ASSUME NEW i \in Instances, NEW d \in Dirs, OpenWritable(i, d) PROVE LockInv'
  <2>1. LockType'
    BY <1>1 DEF OpenWritable, LockInv, LockType
  <2>2. \A j \in Instances \ {i} : held[j] # d
    BY <1>1 DEF OpenWritable, Obtainable, LockInv, Exclusive
  <2>3. Exclusive'
    BY <1>1, <2>2 DEF OpenWritable, LockInv, LockType, Exclusive
  <2>4. WritersHold'
    BY <1>1 DEF OpenWritable, Writable, LockInv, LockType, WritersHold
  <2> QED BY <2>1, <2>3, <2>4 DEF LockInv
<1>2. ASSUME NEW i \in Instances, NEW d \in Dirs, OpenReadOnly(i, d) PROVE LockInv'
  <2>1. LockType'
    BY <1>2 DEF OpenReadOnly, LockInv, LockType
  <2>2. Exclusive'
    BY <1>2 DEF OpenReadOnly, LockInv, LockType, Exclusive
  <2>3. WritersHold'
    BY <1>2 DEF OpenReadOnly, Writable, LockInv, LockType, WritersHold
  <2> QED BY <2>1, <2>2, <2>3 DEF LockInv
<1>3. ASSUME NEW i \in Instances, OpenFails(i) PROVE LockInv'
  <2>1. root[i] = None
    BY <1>3 DEF OpenFails
  <2>2. LockType'
    BY <1>3 DEF OpenFails, LockInv, LockType
  <2>3. Exclusive'
    BY <1>3 DEF OpenFails, LockInv, LockType, Exclusive
  <2>4. WritersHold'
    BY <1>3, <2>1 DEF OpenFails, Writable, LockInv, LockType, WritersHold
  <2> QED BY <2>2, <2>3, <2>4 DEF LockInv
<1>4. ASSUME NEW i \in Instances, Quit(i) PROVE LockInv'
  <2>1. LockType'
    BY <1>4 DEF Quit, LockInv, LockType
  <2>2. Exclusive'
    BY <1>4 DEF Quit, LockInv, LockType, Exclusive
  <2>3. WritersHold'
    BY <1>4 DEF Quit, Writable, LockInv, LockType, WritersHold
  <2> QED BY <2>1, <2>2, <2>3 DEF LockInv
<1>5. ASSUME UNCHANGED lockVars PROVE LockInv'
  BY <1>5 DEF lockVars, LockInv, LockType, Exclusive, WritersHold, Writable
<1>6. ASSUME NEW i \in Instances, Refresh(i) \/ Work(i) \/ Deliver(i) PROVE UNCHANGED lockVars
  BY <1>6 DEF lockVars, Refresh, Work, Deliver, Enumerate, Drop, ScanFailed, Reconcile
<1>7. ASSUME NEW d \in Dirs, Change(d) PROVE UNCHANGED lockVars
  BY <1>7 DEF lockVars, Change
<1>8. CASE UNCHANGED vars
  BY <1>5, <1>8 DEF vars, lockVars
<1> QED BY <1>1, <1>2, <1>3, <1>4, <1>5, <1>6, <1>7, <1>8 DEF Next, Open

(* At most one instance has a collection open for writing, in every          *)
(* behaviour in which no opening fails while another collection is open.     *)
THEOREM OneWriterHolds ==
  ASSUME "later" \notin OpenFaults
  PROVE  Spec => []OneWriter
<1>1. Init => LockInv
  BY AccessAssumption DEF Init, LockInv, LockType, Exclusive, WritersHold, Writable
<1>2. LockInv /\ [Next]_vars => LockInv'
  BY LockInvInductive
<1>3. LockInv => OneWriter
  BY AccessAssumption DEF LockInv, LockType, Exclusive, WritersHold, Writable, OneWriter
<1> QED BY <1>1, <1>2, <1>3, PTL DEF Spec

-----------------------------------------------------------------------------
(* What a writer stores and lists *)

Inventories == [from : Dirs, seen : Int]
Tasks == [gen : Nat, dir : Dirs, posted : BOOLEAN, seen : Int]

ScanType ==
  /\ root \in [Instances -> Dirs \cup {None}]
  /\ readOnly \in [Instances -> BOOLEAN]
  /\ gen \in [Instances -> Nat]
  /\ tasks \in [Instances -> SUBSET Tasks]
  /\ shown \in [Instances -> Inventories \cup {None}]
  /\ stored \in [Dirs -> Inventories \cup {None}]
  /\ disk \in [Dirs -> Nat]

(* An inventory is of a directory as it is or once was.                      *)
Past(inventory) == inventory \in Inventories /\ inventory.seen <= disk[inventory.from]

StoredIsPast == \A d \in Dirs : stored[d] = None \/ Past(stored[d])
TasksArePast == \A i \in Instances : \A t \in tasks[i] :
                  t.gen <= gen[i] /\ t.seen <= disk[t.dir]

(* The scan of the current generation, if it is out.                         *)
Current(i) == {t \in tasks[i] : t.gen = gen[i]}
OneIsCurrent == \A i \in Instances : \A t, u \in Current(i) : t = u

(* What a writer lists is past, and the answer it waits for is of its        *)
(* directory and no older.                                                   *)
Newer(i, t) == t.posted /\ t.seen # Failed /\ shown[i].from = root[i]
                 => shown[i].seen <= t.seen
WritersWait == \A i \in Instances : Writable(i) =>
                 /\ Past(shown[i])
                 /\ \A t \in Current(i) : t.dir = root[i] /\ Newer(i, t)

ScanInv == ScanType /\ StoredIsPast /\ TasksArePast /\ OneIsCurrent /\ WritersWait

(* A new scan leaves every earlier one superseded.                           *)
LEMMA StartScanStarts ==
  ASSUME NEW i \in Instances, NEW d \in Dirs, ScanInv, StartScan(i, d), UNCHANGED disk
  PROVE  /\ gen' \in [Instances -> Nat]
         /\ tasks' \in [Instances -> SUBSET Tasks]
         /\ TasksArePast' /\ OneIsCurrent'
         /\ Current(i)' = {Task(gen[i] + 1, d)}
         /\ \A j \in Instances \ {i} : Current(j)' = Current(j)
<1> DEFINE new == Task(gen[i] + 1, d)
<1>1. /\ gen' = [gen EXCEPT ![i] = @ + 1]
      /\ tasks' = [tasks EXCEPT ![i] = @ \cup {new}]
  BY DEF StartScan
<1>2. new \in Tasks /\ new.gen = gen[i] + 1 /\ new.seen = -1 /\ new.dir = d
  BY DEF Task, Tasks, ScanInv, ScanType, Unscanned
<1>3. /\ gen' \in [Instances -> Nat]
      /\ tasks' \in [Instances -> SUBSET Tasks]
  BY <1>1, <1>2 DEF ScanInv, ScanType
<1>4. /\ gen'[i] = gen[i] + 1 /\ tasks'[i] = tasks[i] \cup {new}
      /\ \A j \in Instances \ {i} : gen'[j] = gen[j] /\ tasks'[j] = tasks[j]
  BY <1>1 DEF ScanInv, ScanType
<1>5. \A t \in tasks[i] : t.gen <= gen[i] /\ t.gen \in Nat /\ gen[i] \in Nat
  BY DEF ScanInv, ScanType, TasksArePast, Tasks
<1>6. TasksArePast'
  <2> SUFFICES ASSUME NEW j \in Instances, NEW t \in tasks'[j]
               PROVE  t.gen <= gen'[j] /\ t.seen <= disk[t.dir]
    BY DEF TasksArePast
  <2>1. CASE j = i /\ t = new
    <3>1. disk[d] \in Nat
      BY DEF ScanInv, ScanType
    <3> QED BY <2>1, <3>1, <1>2, <1>4, <1>5 DEF ScanInv, ScanType
  <2>2. CASE j = i /\ t \in tasks[i]
    BY <2>2, <1>4, <1>5 DEF ScanInv, TasksArePast
  <2>3. CASE j # i
    BY <2>3, <1>4 DEF ScanInv, TasksArePast
  <2> QED BY <2>1, <2>2, <2>3, <1>4
<1>7. Current(i)' = {new}
  BY <1>2, <1>4, <1>5 DEF Current
<1>8. \A j \in Instances \ {i} : Current(j)' = Current(j)
  BY <1>4 DEF Current
<1>9. OneIsCurrent'
  BY <1>7, <1>8 DEF ScanInv, OneIsCurrent
<1> QED BY <1>3, <1>6, <1>7, <1>8, <1>9

LEMMA OpenWritableKeeps ==
  ASSUME NEW i \in Instances, NEW d \in Dirs, ScanInv, OpenWritable(i, d)
  PROVE  ScanInv'
<1>1. /\ gen' \in [Instances -> Nat] /\ tasks' \in [Instances -> SUBSET Tasks]
      /\ TasksArePast' /\ OneIsCurrent'
      /\ Current(i)' = {Task(gen[i] + 1, d)}
      /\ \A j \in Instances \ {i} : Current(j)' = Current(j)
  BY StartScanStarts DEF OpenWritable
<1> DEFINE fresh == Inventory(d, Unscanned)
<1>2. disk' = disk /\ disk[d] \in Nat
  BY DEF OpenWritable, ScanInv, ScanType
<1>3. fresh \in Inventories /\ fresh.from = d /\ fresh.seen = -1
  BY DEF Inventory, Inventories, Unscanned
<1>4. Past(fresh)
  BY <1>2, <1>3 DEF Past
<1>5. stored' = [stored EXCEPT ![d] = IF @ = None THEN fresh ELSE @]
  BY DEF OpenWritable
<1> HIDE DEF fresh
<1>6. Past(stored'[d]) /\ \A e \in Dirs \ {d} : stored'[e] = stored[e]
  BY <1>4, <1>5 DEF ScanInv, ScanType, StoredIsPast
<1>7. stored' \in [Dirs -> Inventories \cup {None}]
  BY <1>3, <1>5 DEF ScanInv, ScanType
<1>8. /\ root' = [root EXCEPT ![i] = d]
      /\ readOnly' = [readOnly EXCEPT ![i] = FALSE]
      /\ shown' = [shown EXCEPT ![i] = stored'[d]]
  BY DEF OpenWritable
<1>9. ScanType'
  <2>1. root' \in [Instances -> Dirs \cup {None}] /\ readOnly' \in [Instances -> BOOLEAN]
    BY <1>8 DEF ScanInv, ScanType
  <2>2. shown' \in [Instances -> Inventories \cup {None}]
    BY <1>7, <1>8 DEF ScanInv, ScanType
  <2> QED BY <1>1, <1>2, <1>7, <2>1, <2>2 DEF ScanInv, ScanType
<1>10. StoredIsPast'
  BY <1>2, <1>6 DEF StoredIsPast, ScanInv, Past
<1>11. WritersWait'
  <2> SUFFICES ASSUME NEW j \in Instances, Writable(j)'
               PROVE  /\ Past(shown[j])'
                      /\ \A t \in Current(j)' : t.dir = root'[j] /\ Newer(j, t)'
    BY DEF WritersWait
  <2>1. CASE j = i
    <3>1. shown'[i] = stored'[d] /\ root'[i] = d
      BY <1>8 DEF ScanInv, ScanType
    <3>2. Past(shown[i])'
      BY <1>2, <1>6, <3>1 DEF Past
    <3>3. \A t \in Current(i)' : t.dir = d /\ ~t.posted
      BY <1>1 DEF Task
    <3> QED BY <2>1, <3>1, <3>2, <3>3 DEF Newer
  <2>2. CASE j # i
    <3>1. root'[j] = root[j] /\ readOnly'[j] = readOnly[j] /\ shown'[j] = shown[j]
      BY <1>8, <2>2 DEF ScanInv, ScanType
    <3>2. Writable(j) /\ Current(j)' = Current(j)
      BY <1>1, <2>2, <3>1 DEF Writable
    <3> QED BY <1>2, <3>1, <3>2 DEF ScanInv, WritersWait, Past, Newer
  <2> QED BY <2>1, <2>2
<1> QED BY <1>1, <1>9, <1>10, <1>11 DEF ScanInv

LEMMA OpenReadOnlyKeeps ==
  ASSUME NEW i \in Instances, NEW d \in Dirs, ScanInv, OpenReadOnly(i, d)
  PROVE  ScanInv'
<1>1. /\ root' = [root EXCEPT ![i] = d]
      /\ readOnly' = [readOnly EXCEPT ![i] = TRUE]
      /\ shown' = [shown EXCEPT ![i] = stored[d]]
      /\ UNCHANGED <<gen, tasks, stored, disk>>
  BY DEF OpenReadOnly
<1>2. ScanType'
  BY <1>1 DEF ScanInv, ScanType
<1>3. StoredIsPast' /\ TasksArePast'
  BY <1>1 DEF ScanInv, StoredIsPast, TasksArePast, Past
<1>4. \A j \in Instances : Current(j)' = Current(j)
  BY <1>1 DEF Current
<1>5. OneIsCurrent'
  BY <1>4 DEF ScanInv, OneIsCurrent
<1>6. ~Writable(i)'
  BY <1>1 DEF Writable, ScanInv, ScanType
<1>7. \A j \in Instances \ {i} : /\ root'[j] = root[j] /\ shown'[j] = shown[j]
                                 /\ readOnly'[j] = readOnly[j]
  BY <1>1 DEF ScanInv, ScanType
<1>8. WritersWait'
  BY <1>1, <1>4, <1>6, <1>7 DEF ScanInv, WritersWait, Writable, Past, Newer
<1> QED BY <1>2, <1>3, <1>5, <1>8 DEF ScanInv

LEMMA RefreshKeeps ==
  ASSUME NEW i \in Instances, ScanInv, Refresh(i)
  PROVE  ScanInv'
<1>1. root[i] \in Dirs
  BY DEF Refresh, Writable, ScanInv, ScanType
<1>2. UNCHANGED <<root, readOnly, shown, stored, disk>> /\ StartScan(i, root[i])
  BY DEF Refresh
<1>3. /\ gen' \in [Instances -> Nat] /\ tasks' \in [Instances -> SUBSET Tasks]
      /\ TasksArePast' /\ OneIsCurrent'
      /\ Current(i)' = {Task(gen[i] + 1, root[i])}
      /\ \A j \in Instances \ {i} : Current(j)' = Current(j)
  BY <1>1, <1>2, StartScanStarts
<1>4. ScanType' /\ StoredIsPast'
  BY <1>2, <1>3 DEF ScanInv, ScanType, StoredIsPast, Past
<1>5. \A t \in Current(i)' : t.dir = root[i] /\ ~t.posted
  BY <1>3 DEF Task
<1>6. WritersWait'
  BY <1>2, <1>3, <1>5 DEF ScanInv, WritersWait, Writable, Past, Newer
<1> QED BY <1>3, <1>4, <1>6 DEF ScanInv

(* Tasks of one instance that go away.                                       *)
LEMMA FewerTasksKeep ==
  ASSUME NEW i \in Instances, NEW t, ScanInv,
         tasks' = [tasks EXCEPT ![i] = @ \ {t}],
         UNCHANGED <<root, readOnly, gen, shown, stored, disk>>
  PROVE  ScanInv'
<1>1. /\ tasks'[i] = tasks[i] \ {t}
      /\ \A j \in Instances \ {i} : tasks'[j] = tasks[j]
  BY DEF ScanInv, ScanType
<1>2. ScanType' /\ StoredIsPast'
  BY DEF ScanInv, ScanType, StoredIsPast, Past
<1>3. \A j \in Instances : Current(j)' \subseteq Current(j)
  BY <1>1 DEF Current
<1>4. TasksArePast' /\ OneIsCurrent'
  BY <1>1, <1>3 DEF ScanInv, TasksArePast, OneIsCurrent
<1>5. WritersWait'
  BY <1>3 DEF ScanInv, WritersWait, Writable, Past, Newer
<1> QED BY <1>2, <1>4, <1>5 DEF ScanInv

LEMMA EnumerateKeeps ==
  ASSUME NEW i \in Instances, NEW t \in tasks[i], ScanInv, Enumerate(i, t)
  PROVE  ScanInv'
<1>1. UNCHANGED <<root, readOnly, gen, shown, stored, disk>>
  BY DEF Enumerate
<1>2. t \in Tasks /\ ~t.posted /\ t.gen <= gen[i]
  BY DEF Enumerate, Running, ScanInv, ScanType, TasksArePast
<1>3. PICK seen \in {disk[t.dir], Failed} :
        tasks' = [tasks EXCEPT ![i] =
                    (@ \ {t}) \cup (IF t.gen = gen[i] THEN {Answer(t, seen)} ELSE {})]
  BY DEF Enumerate
<1>4. seen \in Int /\ (seen = disk[t.dir] \/ seen = Failed) /\ seen <= disk[t.dir]
  <2>1. disk[t.dir] \in Nat
    BY <1>2 DEF ScanInv, ScanType, Tasks
  <2> QED BY <1>3, <2>1 DEF Failed
<1>5. CASE t.gen # gen[i]
  <2>1. tasks' = [tasks EXCEPT ![i] = @ \ {t}]
    BY <1>3, <1>5 DEF ScanInv, ScanType
  <2> QED BY <1>1, <2>1, FewerTasksKeep
<1>6. CASE t.gen = gen[i]
  <2> DEFINE done == Answer(t, seen)
  <2>2. tasks' = [tasks EXCEPT ![i] = (@ \ {t}) \cup {done}]
    BY <1>3, <1>6
  <2>3. /\ done \in Tasks /\ done.gen = gen[i] /\ done.dir = t.dir /\ done.seen = seen
    BY <1>2, <1>4, <1>6 DEF Answer, Tasks
  <2> HIDE DEF done
  <2>4. /\ tasks'[i] = (tasks[i] \ {t}) \cup {done}
        /\ \A j \in Instances \ {i} : tasks'[j] = tasks[j]
    BY <2>2 DEF ScanInv, ScanType
  <2>5. ScanType' /\ StoredIsPast'
    <3>1. tasks' \in [Instances -> SUBSET Tasks]
      BY <2>2, <2>3 DEF ScanInv, ScanType
    <3> QED BY <1>1, <3>1 DEF ScanInv, ScanType, StoredIsPast, Past
  <2>6. TasksArePast'
    <3> SUFFICES ASSUME NEW j \in Instances, NEW u \in tasks'[j]
                 PROVE  u.gen <= gen[j] /\ u.seen <= disk[u.dir]
      BY <1>1 DEF TasksArePast
    <3>1. CASE u = done /\ j = i
      BY <1>2, <1>4, <1>6, <2>3, <3>1
    <3>2. CASE u \in tasks[j]
      BY <3>2 DEF ScanInv, TasksArePast
    <3> QED BY <2>4, <3>1, <3>2
  <2>7. Current(i) = {t} /\ Current(i)' = {done}
    BY <1>1, <1>6, <2>3, <2>4 DEF Current, ScanInv, OneIsCurrent
  <2>8. \A j \in Instances \ {i} : Current(j)' = Current(j)
    BY <1>1, <2>4 DEF Current
  <2>9. OneIsCurrent'
    BY <2>7, <2>8 DEF ScanInv, OneIsCurrent
  <2>10. WritersWait'
    <3> SUFFICES ASSUME NEW j \in Instances, Writable(j)
                 PROVE  /\ Past(shown[j])
                        /\ \A u \in Current(j)' : u.dir = root[j] /\ Newer(j, u)
      BY <1>1 DEF WritersWait, Writable, Past, Newer
    <3>1. Past(shown[j]) /\ \A u \in Current(j) : u.dir = root[j] /\ Newer(j, u)
      BY DEF ScanInv, WritersWait
    <3>2. CASE j = i
      <4>1. t.dir = root[i]
        BY <2>7, <3>1, <3>2
      <4>2. Newer(i, done)
        BY <1>4, <2>3, <3>1, <3>2, <4>1 DEF Newer, Past
      <4> QED BY <2>3, <2>7, <3>1, <3>2, <4>1, <4>2
    <3>3. CASE j # i
      BY <2>8, <3>1, <3>3
    <3> QED BY <3>2, <3>3
  <2> QED BY <2>5, <2>6, <2>9, <2>10 DEF ScanInv
<1> QED BY <1>5, <1>6

(* What a writer reconciles is of its own directory.                         *)
LEMMA WriterReconciles ==
  ASSUME NEW i \in Instances, NEW t \in tasks[i], ScanInv, Writable(i), Reconcile(i, t)
  PROVE  /\ t.dir = root[i]
         /\ shown[i].from = root[i] => shown[i].seen <= t.seen
<1>1. t \in Current(i) /\ t.posted /\ t.seen # Failed
  BY DEF Reconcile, Posted, Answers, Current
<1> QED BY <1>1 DEF ScanInv, WritersWait, Newer

LEMMA ReconcileKeeps ==
  ASSUME NEW i \in Instances, NEW t \in tasks[i], ScanInv, Reconcile(i, t)
  PROVE  ScanInv'
<1> DEFINE result == Inventory(t.dir, t.seen)
<1>1. /\ UNCHANGED <<root, readOnly, gen, disk>>
      /\ tasks' = [tasks EXCEPT ![i] = @ \ {t}]
      /\ shown' = [shown EXCEPT ![i] = result]
      /\ stored' \in {stored, [stored EXCEPT ![root[i]] = result]}
  BY DEF Reconcile
<1>2. t \in Tasks /\ t.seen <= disk[t.dir]
  BY DEF ScanInv, ScanType, TasksArePast
<1>3. result \in Inventories /\ Past(result)
  BY <1>2 DEF Inventory, Inventories, Past, Tasks
<1> HIDE DEF result
<1>4. ScanType'
  <2>1. tasks' \in [Instances -> SUBSET Tasks]
    BY <1>1 DEF ScanInv, ScanType
  <2>2. shown' \in [Instances -> Inventories \cup {None}]
    BY <1>1, <1>3 DEF ScanInv, ScanType
  <2>3. stored' \in [Dirs -> Inventories \cup {None}]
    BY <1>1, <1>3 DEF ScanInv, ScanType
  <2> QED BY <1>1, <2>1, <2>2, <2>3 DEF ScanInv, ScanType
<1>5. StoredIsPast'
  BY <1>1, <1>3 DEF ScanInv, ScanType, StoredIsPast, Past
<1>6. /\ tasks'[i] = tasks[i] \ {t}
      /\ \A j \in Instances \ {i} : tasks'[j] = tasks[j]
      /\ shown'[i] = result
      /\ \A j \in Instances \ {i} : shown'[j] = shown[j]
  BY <1>1 DEF ScanInv, ScanType
<1>7. \A j \in Instances : Current(j)' \subseteq Current(j)
  BY <1>1, <1>6 DEF Current
<1>8. TasksArePast' /\ OneIsCurrent'
  BY <1>1, <1>6, <1>7 DEF ScanInv, TasksArePast, OneIsCurrent
<1>9. Current(i)' = {}
  BY <1>1, <1>6 DEF ScanInv, OneIsCurrent, Current, Reconcile, Answers, Posted
<1>10. WritersWait'
  BY <1>1, <1>3, <1>6, <1>7, <1>9 DEF ScanInv, WritersWait, Writable, Past, Newer
<1> QED BY <1>4, <1>5, <1>8, <1>10 DEF ScanInv

LEMMA ChangeKeeps ==
  ASSUME NEW d \in Dirs, ScanInv, Change(d)
  PROVE  ScanInv'
<1>1. /\ UNCHANGED <<root, readOnly, gen, tasks, shown, stored>>
      /\ disk' = [disk EXCEPT ![d] = @ + 1]
  BY DEF Change
<1>2. disk' \in [Dirs -> Nat] /\ \A e \in Dirs : disk[e] \in Nat /\ disk[e] <= disk'[e]
  BY <1>1 DEF ScanInv, ScanType
<1>3. ScanType'
  BY <1>1, <1>2 DEF ScanInv, ScanType
<1>4. ASSUME NEW v, Past(v) PROVE v \in Inventories /\ v.seen <= disk'[v.from]
  <2>1. v \in Inventories /\ v.seen \in Int /\ v.from \in Dirs /\ v.seen <= disk[v.from]
    BY <1>4 DEF Past, Inventories
  <2> QED BY <1>2, <2>1
<1>5. StoredIsPast'
  BY <1>1, <1>4 DEF ScanInv, StoredIsPast, Past
<1>6. TasksArePast'
  <2> SUFFICES ASSUME NEW i \in Instances, NEW t \in tasks[i]
               PROVE  t.gen <= gen[i] /\ t.seen <= disk'[t.dir]
    BY <1>1 DEF TasksArePast
  <2>1. t.gen <= gen[i] /\ t.seen <= disk[t.dir]
    BY DEF ScanInv, TasksArePast
  <2>2. t.seen \in Int /\ t.dir \in Dirs
    BY DEF ScanInv, ScanType, Tasks
  <2> QED BY <1>2, <2>1, <2>2
<1>7. OneIsCurrent' /\ WritersWait'
  BY <1>1, <1>4 DEF ScanInv, OneIsCurrent, WritersWait, Current, Writable, Past, Newer
<1> QED BY <1>3, <1>5, <1>6, <1>7 DEF ScanInv

LEMMA QuitKeeps ==
  ASSUME NEW i \in Instances, ScanInv, Quit(i)
  PROVE  ScanInv'
<1>1. /\ root' = [root EXCEPT ![i] = None]
      /\ readOnly' = [readOnly EXCEPT ![i] = FALSE]
      /\ gen' = [gen EXCEPT ![i] = 0]
      /\ tasks' = [tasks EXCEPT ![i] = {}]
      /\ shown' = [shown EXCEPT ![i] = None]
      /\ UNCHANGED <<stored, disk>>
  BY DEF Quit
<1>2. ScanType' /\ StoredIsPast'
  BY <1>1 DEF ScanInv, ScanType, StoredIsPast, Past
<1>3. /\ tasks'[i] = {} /\ ~Writable(i)'
      /\ \A j \in Instances \ {i} : /\ root'[j] = root[j] /\ readOnly'[j] = readOnly[j]
                                    /\ gen'[j] = gen[j] /\ tasks'[j] = tasks[j]
                                    /\ shown'[j] = shown[j]
  BY <1>1 DEF ScanInv, ScanType, Writable
<1>4. Current(i)' = {} /\ \A j \in Instances \ {i} : Current(j)' = Current(j)
  BY <1>3 DEF Current
<1>5. TasksArePast' /\ OneIsCurrent'
  BY <1>1, <1>3, <1>4 DEF ScanInv, TasksArePast, OneIsCurrent
<1>6. WritersWait'
  BY <1>1, <1>3, <1>4 DEF ScanInv, WritersWait, Writable, Past, Newer
<1> QED BY <1>2, <1>5, <1>6 DEF ScanInv

LEMMA ScanInvInductive == ScanInv /\ [Next]_vars => ScanInv'
<1> SUFFICES ASSUME ScanInv, [Next]_vars PROVE ScanInv'
  OBVIOUS
<1>1. ASSUME NEW i \in Instances, Open(i) PROVE ScanInv'
  <2>1. CASE OpenFails(i)
    BY <2>1 DEF OpenFails, ScanInv, ScanType, StoredIsPast, TasksArePast, OneIsCurrent,
                WritersWait, Current, Writable, Past, Newer
  <2> QED BY <1>1, <2>1, OpenWritableKeeps, OpenReadOnlyKeeps DEF Open
<1>2. ASSUME NEW i \in Instances, Deliver(i) PROVE ScanInv'
  <2>1. PICK t \in tasks[i] : Drop(i, t) \/ ScanFailed(i, t) \/ Reconcile(i, t)
    BY <1>2 DEF Deliver
  <2>2. CASE Drop(i, t) \/ ScanFailed(i, t)
    BY <2>2, FewerTasksKeep DEF Drop, ScanFailed
  <2> QED BY <2>1, <2>2, ReconcileKeeps
<1>3. CASE UNCHANGED vars
  BY <1>3 DEF vars, ScanInv, ScanType, StoredIsPast, TasksArePast, OneIsCurrent,
              WritersWait, Current, Writable, Past, Newer
<1> QED BY <1>1, <1>2, <1>3, RefreshKeeps, EnumerateKeeps, QuitKeeps, ChangeKeeps DEF Next, Work

(* An instance that may write stores in its collection, and lists, only what *)
(* was read from that collection's directory, and never an older inventory   *)
(* after a newer one: whatever opens, fails, is superseded or answers late,  *)
(* and whatever the other instances do.                                      *)
THEOREM WriterAlwaysKeepsInventory == Spec => WriterKeepsInventory
<1>1. Init => ScanInv
  BY AccessAssumption DEF Init, ScanInv, ScanType, StoredIsPast, TasksArePast, OneIsCurrent,
                          WritersWait, Current, Writable
<1>2. ASSUME ScanInv, NEW i \in Instances, Writable(i), Deliver(i)
      PROVE  /\ \A d \in Dirs : stored'[d] # stored[d] => d = root[i] /\ stored'[d].from = d
             /\ shown'[i] # shown[i] => shown'[i].from = root[i]
             /\ shown[i].from = root[i] => shown'[i].seen >= shown[i].seen
  <2>1. PICK t \in tasks[i] : Drop(i, t) \/ ScanFailed(i, t) \/ Reconcile(i, t)
    BY <1>2 DEF Deliver
  <2>2. shown[i].seen \in Int
    BY <1>2 DEF ScanInv, WritersWait, Past, Inventories
  <2>3. CASE Drop(i, t) \/ ScanFailed(i, t)
    BY <2>2, <2>3 DEF Drop, ScanFailed
  <2>4. CASE Reconcile(i, t)
    <3>1. t.dir = root[i] /\ (shown[i].from = root[i] => shown[i].seen <= t.seen)
      BY <1>2, <2>4, WriterReconciles
    <3>2. t.seen \in Int
      BY <1>2 DEF ScanInv, ScanType, Tasks
    <3>3. shown'[i] = Inventory(t.dir, t.seen)
      BY <1>2, <2>4 DEF Reconcile, ScanInv, ScanType
    <3>4. \A d \in Dirs : stored'[d] # stored[d] =>
            d = root[i] /\ stored'[d] = Inventory(t.dir, t.seen)
      BY <1>2, <2>4 DEF Reconcile, ScanInv, ScanType
    <3> QED BY <2>2, <3>1, <3>2, <3>3, <3>4 DEF Inventory
  <2> QED BY <2>1, <2>3, <2>4
<1> DEFINE Step == \A i \in Instances : Writable(i) /\ Deliver(i) =>
       /\ \A d \in Dirs : stored'[d] # stored[d] => d = root[i] /\ stored'[d].from = d
       /\ shown'[i] # shown[i] => shown'[i].from = root[i]
       /\ shown[i].from = root[i] => shown'[i].seen >= shown[i].seen
<1>3. ScanInv => Step
  BY <1>2
<1> HIDE DEF Step
<1>4. Spec => [][Step]_vars
  BY <1>1, <1>3, ScanInvInductive, PTL DEF Spec
<1> QED BY <1>4 DEF Step, WriterKeepsInventory
=============================================================================
