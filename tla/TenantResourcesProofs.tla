----------------------- MODULE TenantResourcesProofs -----------------------
(* Proofs that concurrent READ COMMITTED transactions keep one default      *)
(* environment and what they acknowledged, for any requests, environments,  *)
(* runs and number of faults.                                               *)
EXTENDS TenantResources, FiniteSetTheorems, TLAPS

-----------------------------------------------------------------------------
(* The inductive invariant.                                                 *)

\* Which operation is at which statement, and what a transaction in progress has not done yet.
StepsTrue ==
    \A r \in Request :
        /\ pc[r] \in {"lock", "clear", "clearRow", "set"} => ask[r].op = "select"
        /\ pc[r] \in {"scan", "mark"} => ask[r].op = "readAll"
        /\ pc[r] = "update" => ask[r].op \in {"read", "resolve", "reopen", "name", "days"}
        /\ pc[r] = "commit" =>
             /\ ask[r].op # "none"
             /\ ask[r].op \in {"read", "resolve", "reopen"} => ask[r].row \in stored
        /\ pc[r] \in {"clear", "clearRow", "set"} \/ (pc[r] = "commit" /\ ask[r].op = "select") =>
             ask[r].row \in Environment
        /\ pc[r] \in {"idle", "lock", "clear", "scan", "update"} => written[r] = {}
        /\ pc[r] # "done" => answer[r] = None /\ \A n \in Run : readBy[n] # r

(* A selection in progress has cleared, or has still to clear, the default  *)
(* unless another one committed meanwhile; past the index it is alone, and  *)
(* no default but its target is left.                                       *)
SelectTrue ==
    /\ \E e \in Environment : defaults = {e}
    /\ \A r \in Request :
         /\ pc[r] = "clearRow" =>
              found[r] \subseteq Environment /\ (r \in overtaken \/ defaults \subseteq found[r] \cup written[r])
         /\ pc[r] = "set" => r \in overtaken \/ defaults \subseteq written[r]
         /\ pc[r] = "commit" /\ ask[r].op = "select" =>
              /\ defaults \subseteq written[r] \cup {ask[r].row}
              /\ \A q \in Request : pc[q] = "commit" /\ ask[q].op = "select" => q = r

(* A notification a transaction in progress has marked is unread to all     *)
(* others and locked until it commits, and read-all has marked or has still *)
(* to visit what was unread when it came in.                                *)
MarkTrue ==
    /\ \A n \in Run : readBy[n] # None => n \in stored
    /\ \A r \in Request :
         /\ pc[r] \in {"mark", "commit"} /\ ask[r].op \in {"read", "readAll"} =>
              \A n \in written[r] : n \in Unread /\ <<<<"notification", n>>, r>> \in locks
         /\ pc[r] = "mark" =>
              /\ found[r] \subseteq stored
              /\ unreadAtStart[r] \cap Unread \subseteq found[r] \cup written[r]
         /\ pc[r] = "commit" /\ ask[r].op = "readAll" => unreadAtStart[r] \cap Unread \subseteq written[r]
         /\ pc[r] = "commit" /\ ask[r].op = "read" => {ask[r].row} \cap Unread \subseteq written[r]
         /\ answer[r] = "ok" /\ ask[r].op = "read" => ask[r].row \in stored

(* An update that has written the projects row holds it until it commits,   *)
(* so that the version it will commit is the current one with its own field.*)
DraftTrue ==
    \A r \in Request :
        pc[r] = "commit" /\ ask[r].op \in {"name", "days"} =>
            /\ <<<<"project", "own">>, r>> \in locks
            /\ draft[r] = [settings EXCEPT ![ask[r].op] = r]

IInv ==
    /\ TypeOK /\ StepsTrue /\ SelectTrue /\ MarkTrue /\ DraftTrue
    /\ RefusedBehindAnother /\ AcknowledgedIsKept

-----------------------------------------------------------------------------
(* Transactions.                                                            *)

(* What a request may ask for.                                              *)
LEMMA AskRows ==
  ASSUME NEW a \in Ask \cup {NoAsk}
  PROVE  /\ a.op \in {"none", "select", "read", "resolve", "reopen", "readAll", "name", "days"}
         /\ a.op = "select" => a.row \in Environment \cup {None}
         /\ a.op = "read" => a.row \in Run
         /\ a.op \in {"resolve", "reopen"} => a.row \in Failed
         /\ a \in Ask => a.op # "none"
  BY DEF Ask, NoAsk

(* A row lock is granted to one transaction at a time.                      *)
LEMMA HoldLocks ==
  ASSUME TypeOK, NEW r \in Request, NEW row \in Rows, Hold(r, row), pc'[r] \notin {"idle", "done"},
         \A q \in Request \ {r} : pc'[q] = pc[q]
  PROVE  /\ locks' \subseteq Rows \X Request
         /\ \A l, m \in locks' : l[1] = m[1] => l = m
         /\ \A l \in locks' : pc'[l[2]] \notin {"idle", "done"}
         /\ locks \subseteq locks' /\ <<row, r>> \in locks'
<1>1. locks' = locks \cup {<<row, r>>} /\ \A l \in locks : l[1] = row => l[2] = r
  BY DEF Hold, Free
<1>2. \A l \in locks : l \in Rows \X Request /\ l = <<l[1], l[2]>>
  BY DEF TypeOK
<1>3. \A l \in locks : l[1] = row => l = <<row, r>>
  BY <1>1, <1>2
<1>4. locks' \subseteq Rows \X Request
  BY <1>1, <1>2
<1>5. \A l, m \in locks' : l[1] = m[1] => l = m
  BY <1>1, <1>3 DEF TypeOK
<1>6. \A l \in locks' : pc'[l[2]] \notin {"idle", "done"}
  <2> TAKE l \in locks'
  <2>1. CASE l \in locks /\ l[2] # r
    BY <1>2, <2>1 DEF TypeOK
  <2>2. CASE l[2] = r
    BY <2>2
  <2> QED
    BY <1>1, <2>1, <2>2
<1> QED
  BY <1>1, <1>4, <1>5, <1>6

(* The end of a transaction gives its locks back and no other's.            *)
LEMMA EndTypes ==
  ASSUME TypeOK, NEW r \in Request, NEW reply \in {"ok", "refused", "failed"}, End(r, reply)
  PROVE  /\ locks' \subseteq Rows \X Request
         /\ \A l, m \in locks' : l[1] = m[1] => l = m
         /\ \A l \in locks' : pc'[l[2]] \notin {"idle", "done"}
         /\ \A l \in locks : l[2] # r => l \in locks'
         /\ pc' = [pc EXCEPT ![r] = "done"]
         /\ answer' = [answer EXCEPT ![r] = reply]
         /\ ask' \in [Request -> Ask \cup {NoAsk}] /\ ask'[r] \in {ask[r], NoAsk}
         /\ reply = "ok" => ask' = ask /\ written' = written
         /\ found' \in [Request -> SUBSET (Environment \cup Run)]
         /\ written' \in [Request -> SUBSET (Environment \cup Run)]
         /\ draft' \in [Request -> [{"name", "days"} -> Request \cup {None}]]
         /\ \A q \in Request \ {r} :
              /\ pc'[q] = pc[q] /\ ask'[q] = ask[q] /\ answer'[q] = answer[q]
              /\ found'[q] = found[q] /\ written'[q] = written[q] /\ draft'[q] = draft[q]
<1> USE DEF TypeOK, End, GoTo, Forget
<1>1. /\ locks' = {l \in locks : l[2] # r} /\ pc' = [pc EXCEPT ![r] = "done"]
      /\ answer' = [answer EXCEPT ![r] = reply]
  OBVIOUS
<1>2. /\ found' \in [Request -> SUBSET (Environment \cup Run)]
      /\ \A q \in Request \ {r} : found'[q] = found[q]
  OBVIOUS
<1>3. /\ written' \in [Request -> SUBSET (Environment \cup Run)]
      /\ \A q \in Request \ {r} : written'[q] = written[q]
      /\ reply = "ok" => written' = written
  OBVIOUS
<1>4. /\ ask' \in [Request -> Ask \cup {NoAsk}] /\ ask'[r] \in {ask[r], NoAsk}
      /\ \A q \in Request \ {r} : ask'[q] = ask[q]
      /\ reply = "ok" => ask' = ask
  <2> HIDE DEF Ask, NoAsk
  <2> QED
    OBVIOUS
<1>5. \A l \in locks' : pc'[l[2]] \notin {"idle", "done"}
  BY <1>1
<1>6. /\ draft' \in [Request -> [{"name", "days"} -> Request \cup {None}]]
      /\ \A q \in Request \ {r} : draft'[q] = draft[q]
  <2>1. Registered \in [{"name", "days"} -> Request \cup {None}]
    BY DEF Registered
  <2> QED
    BY <2>1
<1> QED
  BY <1>1, <1>2, <1>3, <1>4, <1>5, <1>6

-----------------------------------------------------------------------------
(* The invariant is inductive.                                              *)

(* A project starts with the default of its registration and no run.        *)
LEMMA InitIInv == Init => IInv
<1> SUFFICES ASSUME Init PROVE IInv
  OBVIOUS
<1> USE TenantConstants DEF Init
<1>1. TypeOK
  BY DEF TypeOK, Registered
<1>2. StepsTrue
  BY DEF StepsTrue
<1>3. SelectTrue
  BY DEF SelectTrue
<1>4. MarkTrue /\ DraftTrue
  BY DEF MarkTrue, DraftTrue
<1>5. RefusedBehindAnother /\ AcknowledgedIsKept
  BY DEF RefusedBehindAnother, AcknowledgedIsKept
<1> QED
  BY <1>1, <1>2, <1>3, <1>4, <1>5 DEF IInv

(* What the commit of each operation writes.                                *)
LEMMA CommitEffect ==
  ASSUME IInv, NEW r \in Request, Commit(r)
  PROVE  /\ pc[r] = "commit" /\ answer[r] = None
         /\ \E reply \in {"ok", "failed"} : End(r, reply)
         /\ answer'[r] \in {"ok", "failed"} /\ (answer'[r] = "ok" => End(r, "ok"))
         /\ faults' \in 0..MaxFaults
         /\ answer'[r] = "ok" \/ faults' # 0
         /\ UNCHANGED <<stored, unreadAtStart>>
         /\ \/ /\ ask[r].op = "select" /\ ask[r].row \in Environment
               /\ Select(r) /\ defaults' = {ask[r].row}
            \/ ask[r].op \in {"read", "readAll"} /\ MarkRead(r)
            \/ ask[r].op \in {"resolve", "reopen"} /\ ask[r].row \in stored /\ Resolve(r)
            \/ ask[r].op \in {"name", "days"} /\ UpdateProject(r)
<1> USE DEF Commit, IInv
<1>1. pc[r] = "commit" /\ answer[r] = None /\ Apply(r)
  BY DEF StepsTrue
<1>2. PICK reply \in {"ok", "failed"} : End(r, reply) /\ (reply = "ok" \/ Fault) /\ (reply = "failed" \/ faults' = faults)
  OBVIOUS
<1>3. answer'[r] = reply
  <2>1. TypeOK /\ reply \in {"ok", "refused", "failed"}
    OBVIOUS
  <2>2. answer' = [answer EXCEPT ![r] = reply]
    BY <1>2, <2>1, EndTypes
  <2> QED
    BY <2>1, <2>2 DEF TypeOK
<1>4. faults' \in 0..MaxFaults /\ (reply = "ok" \/ faults' # 0)
  BY <1>2, TenantConstants DEF TypeOK, Fault
<1>5. ask[r] \in Ask \cup {NoAsk} /\ ask[r].op # "none"
  BY <1>1 DEF TypeOK, StepsTrue
<1>6. /\ ask[r].op = "select" => Select(r)
      /\ ask[r].op \in {"read", "readAll"} => MarkRead(r)
      /\ ask[r].op \in {"resolve", "reopen"} => Resolve(r)
      /\ ask[r].op \in {"name", "days"} => UpdateProject(r)
  BY <1>1 DEF Apply
<1>7. /\ ask[r].op = "select" => ask[r].row \in Environment
      /\ ask[r].op \in {"resolve", "reopen"} => ask[r].row \in stored
  BY <1>1 DEF StepsTrue
<1>8. ask[r].op = "select" => defaults' = {ask[r].row}
  BY <1>1, <1>6 DEF Select, SelectTrue
<1>9. ask[r].op \in {"select", "read", "readAll", "resolve", "reopen", "name", "days"}
  BY <1>5, AskRows
<1>10. UNCHANGED <<stored, unreadAtStart>>
  BY <1>6, <1>9 DEF Select, MarkRead, Resolve, UpdateProject
<1> HIDE DEF Commit, IInv
<1> QED
  BY <1>1, <1>2, <1>3, <1>4, <1>6, <1>7, <1>8, <1>9, <1>10

(* The types, and that a row is locked by one running transaction.          *)
LEMMA TypeStep == IInv /\ [Next]_vars => TypeOK'
<1> SUFFICES ASSUME IInv, TypeOK, [Next]_vars PROVE TypeOK'
  BY DEF IInv
<1> USE TenantConstants DEF database, transactions, observed
<1>1. ASSUME NEW r \in Request, NEW a \in Ask, Begin(r, a) PROVE TypeOK'
  <2>1. pc' \in [Request -> {"idle", "lock", "clear", "clearRow", "set", "scan", "mark",
                           "update", "commit", "done"}]
        /\ pc[r] = "idle" /\ pc'[r] \notin {"idle", "done"} /\ \A q \in Request \ {r} : pc'[q] = pc[q]
    BY <1>1 DEF Begin, GoTo, Arrives, TypeOK
  <2>2. ask' \in [Request -> Ask \cup {NoAsk}]
    BY <1>1 DEF Begin, TypeOK
  <2>3. unreadAtStart' \in [Request -> SUBSET stored]
    BY <1>1 DEF Begin, TypeOK, Unread
  <2>4. \A l \in locks : l[2] \in Request
    BY DEF TypeOK
  <2> QED
    BY <1>1, <2>1, <2>2, <2>3, <2>4 DEF Begin, TypeOK
<1>2. ASSUME NEW r \in Request, NEW reply \in {"ok", "refused", "failed"}, End(r, reply),
             UNCHANGED <<database, observed>>, faults' \in 0..MaxFaults
      PROVE  TypeOK'
  BY <1>2, EndTypes DEF TypeOK
<1>3. ASSUME NEW r \in Request, Unauthorized(r) \/ NotFound(r) \/ SetRefused(r) \/ Abort(r) PROVE TypeOK'
  <2>1. faults' \in 0..MaxFaults
    BY <1>3 DEF Unauthorized, NotFound, SetRefused, Abort, Fault, TypeOK
  <2> QED
    BY <1>2, <1>3, <2>1 DEF Unauthorized, NotFound, SetRefused, Abort
<1>4. ASSUME NEW r \in Request, LockTarget(r) PROVE TypeOK'
  <2>1. ask[r].row \in Environment
    BY <1>4 DEF LockTarget, InProject, IInv, StepsTrue
  <2>2. <<"environment", ask[r].row>> \in Rows
    BY <2>1 DEF Rows, Row
  <2>3. /\ pc' \in [Request -> {"idle", "lock", "clear", "clearRow", "set", "scan", "mark",
                           "update", "commit", "done"}]
        /\ pc'[r] \notin {"idle", "done"} /\ \A q \in Request \ {r} : pc'[q] = pc[q]
    BY <1>4 DEF LockTarget, GoTo, TypeOK
  <2>4. /\ locks' \subseteq Rows \X Request
        /\ \A l, m \in locks' : l[1] = m[1] => l = m
        /\ \A l \in locks' : pc'[l[2]] \notin {"idle", "done"}
    BY <1>4, <2>2, <2>3, HoldLocks DEF LockTarget
  <2> QED
    BY <1>4, <2>3, <2>4 DEF LockTarget, TypeOK
<1>5. ASSUME NEW r \in Request, ClearSelect(r) \/ Scan(r) PROVE TypeOK'
  <2>1. /\ pc' \in [Request -> {"idle", "lock", "clear", "clearRow", "set", "scan", "mark",
                           "update", "commit", "done"}]
        /\ pc'[r] \notin {"idle", "done"} /\ \A q \in Request \ {r} : pc'[q] = pc[q]
    BY <1>5 DEF ClearSelect, Scan, Visit, GoTo, TypeOK
  <2>2. found' \in [Request -> SUBSET (Environment \cup Run)]
    <3>1. \E rows : rows \subseteq defaults \cup stored /\ found' = [found EXCEPT ![r] = rows]
      BY <1>5 DEF ClearSelect, Scan, Visit, Unread
    <3>2. /\ found \in [Request -> SUBSET (Environment \cup Run)]
          /\ defaults \cup stored \subseteq Environment \cup Run
      BY DEF TypeOK
    <3> QED
      BY <3>1, <3>2
  <2>3. \A l \in locks : l[2] \in Request
    BY DEF TypeOK
  <2> QED
    BY <1>5, <2>1, <2>2, <2>3 DEF ClearSelect, Scan, TypeOK
<1>6. ASSUME NEW r \in Request, NEW e \in Environment, ClearRow(r, e) PROVE TypeOK'
  <2>1. /\ pc' \in [Request -> {"idle", "lock", "clear", "clearRow", "set", "scan", "mark",
                           "update", "commit", "done"}]
        /\ pc'[r] \notin {"idle", "done"} /\ \A q \in Request \ {r} : pc'[q] = pc[q]
    BY <1>6 DEF ClearRow, Visit, GoTo, TypeOK
  <2>2. <<"environment", e>> \in Rows
    BY DEF Rows, Row
  <2>3. found' \in [Request -> SUBSET (Environment \cup Run)]
    BY <1>6 DEF ClearRow, Visit, TypeOK
  <2>4. written' \in [Request -> SUBSET (Environment \cup Run)]
    BY <1>6 DEF ClearRow, TypeOK
  <2>5. /\ locks' \subseteq Rows \X Request
        /\ \A l, m \in locks' : l[1] = m[1] => l = m
        /\ \A l \in locks' : pc'[l[2]] \notin {"idle", "done"}
    BY <1>6, <2>1, <2>2, HoldLocks DEF ClearRow
  <2> QED
    BY <1>6, <2>1, <2>3, <2>4, <2>5 DEF ClearRow, TypeOK
<1>7. ASSUME NEW r \in Request, SetTarget(r) PROVE TypeOK'
  <2>1. \A l \in locks : l[2] \in Request
    BY DEF TypeOK
  <2> QED
    BY <1>7, <2>1 DEF SetTarget, GoTo, TypeOK
<1>8. ASSUME NEW r \in Request, MarkRow(r) PROVE TypeOK'
  <2>1. PICK n \in found[r] :
          /\ Hold(r, <<"notification", n>>) /\ Visit(r, found[r] \ {n}, "mark", "commit")
          /\ written' = [written EXCEPT ![r] = @ \cup ({n} \cap Unread)]
    BY <1>8 DEF MarkRow
  <2>2. n \in Run
    BY <1>8 DEF MarkRow, IInv, MarkTrue, TypeOK
  <2>3. /\ pc' \in [Request -> {"idle", "lock", "clear", "clearRow", "set", "scan", "mark",
                           "update", "commit", "done"}]
        /\ pc'[r] \notin {"idle", "done"} /\ \A q \in Request \ {r} : pc'[q] = pc[q]
    BY <2>1 DEF Visit, GoTo, TypeOK
  <2>4. <<"notification", n>> \in Rows
    BY <2>2 DEF Rows, Row
  <2>5. found' \in [Request -> SUBSET (Environment \cup Run)]
    BY <2>1 DEF Visit, TypeOK
  <2>6. written' \in [Request -> SUBSET (Environment \cup Run)]
    BY <2>1, <2>2 DEF TypeOK
  <2>7. /\ locks' \subseteq Rows \X Request
        /\ \A l, m \in locks' : l[1] = m[1] => l = m
        /\ \A l \in locks' : pc'[l[2]] \notin {"idle", "done"}
    BY <2>1, <2>3, <2>4, HoldLocks
  <2> QED
    BY <1>8, <2>3, <2>5, <2>6, <2>7 DEF MarkRow, TypeOK
<1>9. ASSUME NEW r \in Request, Update(r) PROVE TypeOK'
  <2>1. /\ pc' \in [Request -> {"idle", "lock", "clear", "clearRow", "set", "scan", "mark",
                           "update", "commit", "done"}]
        /\ pc'[r] \notin {"idle", "done"} /\ \A q \in Request \ {r} : pc'[q] = pc[q]
    BY <1>9 DEF Update, GoTo, TypeOK
  <2>2. ask[r] \in Ask \cup {NoAsk}
    BY DEF TypeOK
  <2>3. Target(ask[r]) \in Rows
    BY <2>2, AskRows DEF Target, Rows, Row
  <2>4. written' \in [Request -> SUBSET (Environment \cup Run)]
    BY <1>9 DEF Update, TypeOK, Unread
  <2>5. /\ locks' \subseteq Rows \X Request
        /\ \A l, m \in locks' : l[1] = m[1] => l = m
        /\ \A l \in locks' : pc'[l[2]] \notin {"idle", "done"}
    BY <1>9, <2>1, <2>3, HoldLocks DEF Update
  <2>6. draft' \in [Request -> [{"name", "days"} -> Request \cup {None}]]
    <3>1. NewVersion(r) \in [{"name", "days"} -> Request \cup {None}]
      BY DEF NewVersion, Registered, TypeOK
    <3> QED
      BY <1>9, <3>1 DEF Update, TypeOK
  <2> QED
    BY <1>9, <2>1, <2>4, <2>5, <2>6 DEF Update, TypeOK
<1>10. ASSUME NEW r \in Request, Commit(r) PROVE TypeOK'
  <2>1. /\ faults' \in 0..MaxFaults /\ UNCHANGED <<stored, unreadAtStart>>
        /\ \E reply \in {"ok", "failed"} : End(r, reply)
        /\ \/ /\ ask[r].op = "select" /\ ask[r].row \in Environment
              /\ Select(r) /\ defaults' = {ask[r].row}
           \/ ask[r].op \in {"read", "readAll"} /\ MarkRead(r)
           \/ ask[r].op \in {"resolve", "reopen"} /\ ask[r].row \in stored /\ Resolve(r)
           \/ ask[r].op \in {"name", "days"} /\ UpdateProject(r)
    BY <1>10, CommitEffect
  <2>2. /\ defaults' \subseteq Environment /\ resolved' \subseteq stored
        /\ readBy' \in [Run -> Request \cup {None}]
        /\ settings' \in [{"name", "days"} -> Request \cup {None}]
        /\ overtaken' \subseteq Request
    <3>1. CASE ask[r].op = "select" /\ Select(r) /\ defaults' = {ask[r].row} /\ ask[r].row \in Environment
      BY <3>1 DEF Select, TypeOK
    <3>2. CASE MarkRead(r)
      BY <3>2 DEF MarkRead, TypeOK
    <3>3. CASE Resolve(r) /\ ask[r].row \in stored
      BY <3>3 DEF Resolve, TypeOK
    <3>4. CASE ask[r].op \in {"name", "days"} /\ UpdateProject(r)
      BY <3>4 DEF UpdateProject, TypeOK
    <3> QED
      BY <2>1, <3>1, <3>2, <3>3, <3>4
  <2> QED
    BY <2>1, <2>2, EndTypes DEF TypeOK
<1>11. ASSUME NEW n \in Run, CreateRun(n) PROVE TypeOK'
  BY <1>11 DEF CreateRun, TypeOK
<1>12. CASE UNCHANGED vars
  BY <1>12 DEF vars, TypeOK
<1> QED
  BY <1>1, <1>3, <1>4, <1>5, <1>6, <1>7, <1>8, <1>9, <1>10, <1>11, <1>12
  DEF Next, Handle, SelectEnvironment, MarkAllNotificationsRead

\* A step of the request's handler.
Acts(r) == (\E a \in Ask : Begin(r, a)) \/ Unauthorized(r) \/ Abort(r) \/ Handle(r)

(* A request works on its own transaction, and on the rows when it commits. *)
LEMMA Footprint ==
  ASSUME IInv, NEW r \in Request, Acts(r)
  PROVE  /\ stored' = stored
         /\ \A q \in Request \ {r} :
              /\ pc'[q] = pc[q] /\ ask'[q] = ask[q] /\ answer'[q] = answer[q]
              /\ found'[q] = found[q] /\ written'[q] = written[q] /\ draft'[q] = draft[q]
              /\ unreadAtStart'[q] = unreadAtStart[q]
              /\ \A l \in locks : l[2] = q => l \in locks'
         /\ UNCHANGED <<defaults, readBy, settings, overtaken>> \/ Commit(r)
         /\ faults' = 0 => faults = 0
         /\ overtaken \subseteq overtaken'
<1> USE DEF IInv, database, observed, transactions, GoTo, Visit, Hold
<1>1. ASSUME NEW reply \in {"ok", "refused", "failed"}, End(r, reply), UNCHANGED unreadAtStart
      PROVE  \A q \in Request \ {r} :
              /\ pc'[q] = pc[q] /\ ask'[q] = ask[q] /\ answer'[q] = answer[q]
              /\ found'[q] = found[q] /\ written'[q] = written[q] /\ draft'[q] = draft[q]
              /\ unreadAtStart'[q] = unreadAtStart[q]
              /\ \A l \in locks : l[2] = q => l \in locks'
  BY <1>1, EndTypes
<1>2. CASE \E a \in Ask : Begin(r, a)
  BY <1>2 DEF Begin, TypeOK
<1>3. CASE Unauthorized(r) \/ NotFound(r) \/ SetRefused(r) \/ Abort(r)
  BY <1>1, <1>3, TenantConstants DEF Unauthorized, NotFound, SetRefused, Abort, Fault, TypeOK
<1>4. CASE LockTarget(r) \/ ClearSelect(r) \/ SetTarget(r) \/ Scan(r)
  BY <1>4 DEF LockTarget, ClearSelect, SetTarget, Scan, TypeOK
<1>5. CASE (\E e \in Environment : ClearRow(r, e)) \/ MarkRow(r) \/ Update(r)
  BY <1>5 DEF ClearRow, MarkRow, Update, TypeOK
<1>6. CASE Commit(r)
  <2>1. PICK reply \in {"ok", "failed"} : End(r, reply)
    BY <1>6, CommitEffect
  <2>2. UNCHANGED <<stored, unreadAtStart>>
    BY <1>6, CommitEffect
  <2>3. faults' = 0 => faults = 0
    BY <1>6, TenantConstants DEF Commit, Fault, TypeOK
  <2>4. overtaken \subseteq overtaken'
    BY <1>6, CommitEffect DEF Select, MarkRead, Resolve, UpdateProject
  <2> QED
    BY <1>1, <1>6, <2>1, <2>2, <2>3, <2>4
<1> QED
  BY <1>2, <1>3, <1>4, <1>5, <1>6 DEF Acts, Handle, SelectEnvironment, MarkAllNotificationsRead

(* A commit is the last step of its request, and writes its rows only.      *)
LEMMA CommitRows ==
  ASSUME IInv, NEW r \in Request, Commit(r)
  PROVE  /\ pc'[r] = "done"
         /\ \A n \in Run : readBy'[n] \in {readBy[n], r}
         /\ \A n \in Run : readBy'[n] # readBy[n] =>
              n \in written[r] /\ ask[r].op \in {"read", "readAll"}
         /\ ask[r].op \in {"read", "readAll"} =>
              \A n \in Run : readBy'[n] = IF n \in written[r] THEN r ELSE readBy[n]
         /\ \A f \in {"name", "days"} :
              settings'[f] # None \/ settings'[f] = settings[f]
         /\ ask[r].op \in {"name", "days"} => settings'[ask[r].op] # None
         /\ ask[r].op = "select" =>
              /\ defaults' = {ask[r].row} /\ ask[r].row \in Environment
              /\ \A q \in Request \ {r} : ask[q].op = "select" /\ pc[q] # "done" => q \in overtaken'
         /\ ask[r].op # "select" => defaults' = defaults
<1>1. /\ \E reply \in {"ok", "failed"} : End(r, reply)
      /\ \/ ask[r].op = "select" /\ ask[r].row \in Environment /\ Select(r) /\ defaults' = {ask[r].row}
         \/ ask[r].op \in {"read", "readAll"} /\ MarkRead(r)
         \/ ask[r].op \in {"resolve", "reopen"} /\ ask[r].row \in stored /\ Resolve(r)
         \/ ask[r].op \in {"name", "days"} /\ UpdateProject(r)
  BY CommitEffect
<1>2. TypeOK
  BY DEF IInv
<1>3. pc'[r] = "done"
  BY <1>1, <1>2, EndTypes DEF TypeOK
<1>4. CASE ask[r].op = "select" /\ ask[r].row \in Environment /\ Select(r) /\ defaults' = {ask[r].row}
  BY <1>2, <1>3, <1>4 DEF Select, TypeOK
<1>5. CASE ask[r].op \in {"read", "readAll"} /\ MarkRead(r)
  BY <1>2, <1>3, <1>5 DEF MarkRead, TypeOK
<1>6. CASE ask[r].op \in {"resolve", "reopen"} /\ Resolve(r)
  BY <1>2, <1>3, <1>6 DEF Resolve, TypeOK
<1>7. CASE ask[r].op \in {"name", "days"} /\ UpdateProject(r)
  <2>1. pc[r] = "commit"
    BY DEF Commit
  <2>2. draft[r] = [settings EXCEPT ![ask[r].op] = r]
    BY <1>7, <2>1 DEF IInv, DraftTrue
  <2> QED
    BY <1>2, <1>3, <1>7, <2>2, TenantConstants DEF UpdateProject, TypeOK
<1> QED
  BY <1>1, <1>4, <1>5, <1>6, <1>7

(* A transaction goes through the statements of its own operation.          *)
LEMMA StepsStep == IInv /\ [Next]_vars => StepsTrue'
<1> SUFFICES ASSUME IInv, TypeOK, StepsTrue, [Next]_vars PROVE StepsTrue'
  BY DEF IInv
<1> DEFINE P(q) ==
        /\ pc[q] \in {"lock", "clear", "clearRow", "set"} => ask[q].op = "select"
        /\ pc[q] \in {"scan", "mark"} => ask[q].op = "readAll"
        /\ pc[q] = "update" => ask[q].op \in {"read", "resolve", "reopen", "name", "days"}
        /\ pc[q] = "commit" =>
             /\ ask[q].op # "none"
             /\ ask[q].op \in {"read", "resolve", "reopen"} => ask[q].row \in stored
        /\ pc[q] \in {"clear", "clearRow", "set"} \/ (pc[q] = "commit" /\ ask[q].op = "select") =>
             ask[q].row \in Environment
        /\ pc[q] \in {"idle", "lock", "clear", "scan", "update"} => written[q] = {}
        /\ pc[q] # "done" => answer[q] = None /\ \A n \in Run : readBy[n] # q
<1>1. \A q \in Request : P(q)
  BY DEF StepsTrue
<1>2. ASSUME NEW r \in Request, Acts(r) PROVE StepsTrue'
  <2>1. ASSUME NEW q \in Request \ {r} PROVE P(q)'
    <3>1. /\ stored' = stored /\ pc'[q] = pc[q] /\ ask'[q] = ask[q] /\ answer'[q] = answer[q]
          /\ written'[q] = written[q]
      BY <1>2, <2>1, Footprint
    <3>2. \A n \in Run : readBy'[n] \in {readBy[n], r}
      BY <1>2, Footprint, CommitRows
    <3> QED
      BY <1>1, <3>1, <3>2
  <2>2. P(r)'
    <3>1. CASE \E a \in Ask : Begin(r, a)
      <4>1. PICK a \in Ask : Begin(r, a)
        BY <3>1
      <4>2. /\ pc[r] = "idle" /\ ask'[r] = a /\ UNCHANGED <<stored, readBy, answer, written>>
            /\ pc'[r] = CASE a.op = "select" -> "lock" [] a.op = "readAll" -> "scan" [] OTHER -> "update"
        BY <4>1 DEF Begin, Arrives, GoTo, TypeOK, database
      <4> QED
        BY <1>1, <4>2, AskRows
    <3>2. CASE Unauthorized(r) \/ NotFound(r) \/ SetRefused(r) \/ Abort(r) \/ Commit(r)
      <4>1. pc'[r] = "done"
        BY <3>2, EndTypes, CommitRows DEF Unauthorized, NotFound, SetRefused, Abort, TypeOK
      <4> QED
        BY <4>1
    <3>3. CASE LockTarget(r)
      BY <1>1, <3>3 DEF LockTarget, InProject, GoTo, TypeOK, database
    <3>4. CASE ClearSelect(r) \/ Scan(r)
      BY <1>1, <3>4 DEF ClearSelect, Scan, Visit, GoTo, TypeOK, database
    <3>5. CASE \E e \in Environment : ClearRow(r, e)
      BY <1>1, <3>5 DEF ClearRow, Visit, GoTo, TypeOK, database
    <3>6. CASE SetTarget(r)
      BY <1>1, <3>6 DEF SetTarget, GoTo, TypeOK, database
    <3>7. CASE MarkRow(r)
      BY <1>1, <3>7 DEF MarkRow, Visit, GoTo, TypeOK, database
    <3>8. CASE Update(r)
      BY <1>1, <3>8 DEF Update, InProject, GoTo, TypeOK, database
    <3> QED
      BY <1>2, <3>1, <3>2, <3>3, <3>4, <3>5, <3>6, <3>7, <3>8
      DEF Acts, Handle, SelectEnvironment, MarkAllNotificationsRead
  <2> QED
    BY <2>1, <2>2 DEF StepsTrue
<1>3. ASSUME NEW n \in Run, CreateRun(n) PROVE StepsTrue'
  BY <1>3 DEF CreateRun, StepsTrue, transactions
<1>4. CASE UNCHANGED vars
  BY <1>4 DEF vars, database, transactions, StepsTrue
<1> QED
  BY <1>2, <1>3, <1>4 DEF Next, Acts

(* A selection that commits leaves its target as the one default and marks  *)
(* every other selection in progress as overtaken; the unique index lets    *)
(* one selection at a time past.                                            *)
LEMMA SelectStep == IInv /\ [Next]_vars => SelectTrue'
<1> SUFFICES ASSUME IInv, TypeOK, StepsTrue, SelectTrue, [Next]_vars PROVE SelectTrue'
  BY DEF IInv
<1> DEFINE P(q) ==
         /\ pc[q] = "clearRow" =>
              found[q] \subseteq Environment /\ (q \in overtaken \/ defaults \subseteq found[q] \cup written[q])
         /\ pc[q] = "set" => q \in overtaken \/ defaults \subseteq written[q]
         /\ pc[q] = "commit" /\ ask[q].op = "select" => defaults \subseteq written[q] \cup {ask[q].row}
<1>1. (\A q \in Request : P(q)) /\ (\E e \in Environment : defaults = {e})
  BY DEF SelectTrue
<1>2. ASSUME NEW r \in Request, Acts(r) PROVE SelectTrue'
  <2>1. \E e \in Environment : defaults' = {e}
    BY <1>1, <1>2, Footprint, CommitRows
  <2>2. ASSUME NEW q \in Request \ {r} PROVE P(q)'
    <3>1. /\ pc'[q] = pc[q] /\ ask'[q] = ask[q] /\ found'[q] = found[q] /\ written'[q] = written[q]
          /\ overtaken \subseteq overtaken'
      BY <1>2, <2>2, Footprint
    <3>2. CASE defaults' = defaults
      BY <1>1, <3>1, <3>2
    <3>3. CASE defaults' # defaults
      <4>1. Commit(r) /\ ask[r].op = "select" /\ pc[r] = "commit"
        BY <1>2, <3>3, Footprint, CommitRows DEF Commit
      <4>2. \A p \in Request \ {r} : ask[p].op = "select" /\ pc[p] # "done" => p \in overtaken'
        BY <4>1, CommitRows
      <4>3. ~(pc[q] = "commit" /\ ask[q].op = "select")
        BY <4>1, <2>2 DEF SelectTrue
      <4>4. pc[q] \in {"clearRow", "set"} => q \in overtaken'
        BY <4>2 DEF StepsTrue
      <4> QED
        BY <1>1, <3>1, <4>3, <4>4
    <3> QED
      BY <3>2, <3>3
  <2>3. P(r)' /\ (pc'[r] = "commit" /\ ask'[r].op = "select" =>
                    \A q \in Request \ {r} : ~(pc[q] = "commit" /\ ask[q].op = "select"))
    <3>1. CASE \E a \in Ask : Begin(r, a)
      <4>1. pc'[r] \in {"lock", "scan", "update"}
        BY <3>1 DEF Begin, GoTo, TypeOK
      <4> QED
        BY <4>1
    <3>2. CASE Unauthorized(r) \/ NotFound(r) \/ SetRefused(r) \/ Abort(r) \/ Commit(r)
      <4>1. pc'[r] = "done"
        BY <3>2, EndTypes, CommitRows DEF Unauthorized, NotFound, SetRefused, Abort, TypeOK
      <4> QED
        BY <4>1
    <3>3. CASE LockTarget(r)
      <4>1. pc'[r] = "clear"
        BY <3>3 DEF LockTarget, GoTo, TypeOK
      <4> QED
        BY <4>1
    <3>4. CASE ClearSelect(r)
      BY <1>1, <3>4 DEF ClearSelect, Visit, GoTo, TypeOK, database, observed
    <3>5. ASSUME NEW e \in Environment, ClearRow(r, e) PROVE P(r)' /\ pc'[r] # "commit"
      <4>1. /\ pc[r] = "clearRow" /\ found'[r] = found[r] \ {e}
            /\ pc'[r] = IF found[r] \ {e} = {} THEN "set" ELSE "clearRow"
            /\ written'[r] = written[r] \cup ({e} \cap defaults)
            /\ defaults' = defaults /\ overtaken' = overtaken
        BY <3>5 DEF ClearRow, Visit, GoTo, TypeOK, database, observed
      <4> QED
        BY <1>1, <4>1
    <3>6. CASE SetTarget(r)
      <4>1. /\ pc'[r] = "commit" /\ UNCHANGED <<defaults, written, ask>>
            /\ defaults \subseteq written[r] \cup {ask[r].row}
            /\ ~IndexMustWait(r)
        BY <3>6 DEF SetTarget, GoTo, TypeOK, database, Others
      <4>2. \A q \in Request \ {r} : ~(pc[q] = "commit" /\ ask[q].op = "select")
        BY <4>1 DEF IndexMustWait
      <4> QED
        BY <4>1, <4>2
    <3>7. CASE Scan(r) \/ MarkRow(r) \/ Update(r)
      <4>1. pc'[r] \in {"mark", "commit"} /\ ask'[r].op # "select"
        <5>1. pc[r] \in {"scan", "mark", "update"} /\ ask' = ask
          BY <3>7 DEF Scan, MarkRow, Update
        <5>2. ask[r].op \in {"readAll", "read", "resolve", "reopen", "name", "days"}
          BY <5>1 DEF StepsTrue
        <5>3. pc'[r] \in {"mark", "commit"}
          BY <3>7 DEF Scan, MarkRow, Update, Visit, GoTo, TypeOK
        <5> QED
          BY <5>1, <5>2, <5>3
      <4> QED
        BY <4>1
    <3> QED
      BY <1>2, <3>1, <3>2, <3>3, <3>4, <3>5, <3>6, <3>7
      DEF Acts, Handle, SelectEnvironment, MarkAllNotificationsRead
  <2>4. \A q \in Request : pc'[q] = "commit" /\ ask'[q].op = "select" =>
          \A p \in Request : pc'[p] = "commit" /\ ask'[p].op = "select" => p = q
    <3>1. \A q \in Request \ {r} : pc'[q] = pc[q] /\ ask'[q] = ask[q]
      BY <1>2, Footprint
    <3> QED
      BY <2>3, <3>1 DEF SelectTrue
  <2> HIDE DEF P
  <2>5. \A q \in Request : P(q)'
    BY <2>2, <2>3
  <2> USE DEF P
  <2> QED
    BY <2>1, <2>4, <2>5 DEF SelectTrue
<1>3. ASSUME NEW n \in Run, CreateRun(n) PROVE SelectTrue'
  BY <1>3 DEF CreateRun, SelectTrue, transactions, observed
<1>4. CASE UNCHANGED vars
  BY <1>4 DEF vars, database, transactions, observed, SelectTrue
<1> QED
  BY <1>2, <1>3, <1>4 DEF Next, Acts

(* A notification that two requests mark is marked by the one that has its  *)
(* row lock; the other finds it read, because it evaluates its condition    *)
(* again on the committed row.                                              *)
LEMMA MarkStep == IInv /\ [Next]_vars => MarkTrue'
<1> SUFFICES ASSUME IInv, TypeOK, StepsTrue, MarkTrue, [Next]_vars PROVE MarkTrue'
  BY DEF IInv
<1> DEFINE P(q) ==
         /\ pc[q] \in {"mark", "commit"} /\ ask[q].op \in {"read", "readAll"} =>
              \A n \in written[q] : n \in Unread /\ <<<<"notification", n>>, q>> \in locks
         /\ pc[q] = "mark" =>
              /\ found[q] \subseteq stored
              /\ unreadAtStart[q] \cap Unread \subseteq found[q] \cup written[q]
         /\ pc[q] = "commit" /\ ask[q].op = "readAll" => unreadAtStart[q] \cap Unread \subseteq written[q]
         /\ pc[q] = "commit" /\ ask[q].op = "read" => {ask[q].row} \cap Unread \subseteq written[q]
         /\ answer[q] = "ok" /\ ask[q].op = "read" => ask[q].row \in stored
<1>1. (\A q \in Request : P(q)) /\ (\A n \in Run : readBy[n] # None => n \in stored)
  BY DEF MarkTrue
<1>2. ASSUME NEW r \in Request, Acts(r) PROVE MarkTrue'
  <2>1. stored' = stored /\ stored \subseteq Run
    BY <1>2, Footprint DEF TypeOK
  <2>2. Unread' \subseteq Unread /\ Unread \subseteq stored
    <3>1. \A n \in Run : readBy'[n] = None => readBy[n] = None
      BY <1>2, Footprint, CommitRows, TenantConstants
    <3> QED
      BY <2>1, <3>1 DEF Unread
  <2>3. \A n \in Run : readBy'[n] # None => n \in stored'
    <3> TAKE n \in Run
    <3>1. CASE readBy'[n] = readBy[n]
      BY <1>1, <2>1, <3>1
    <3>2. CASE readBy'[n] # readBy[n]
      <4>1. Commit(r) /\ n \in written[r] /\ ask[r].op \in {"read", "readAll"} /\ pc[r] = "commit"
        BY <1>2, <3>2, Footprint, CommitRows DEF Commit
      <4> QED
        BY <1>1, <2>1, <2>2, <4>1
    <3> QED
      BY <3>1, <3>2
  <2>4. ASSUME NEW q \in Request \ {r} PROVE P(q)'
    <3>1. /\ pc'[q] = pc[q] /\ ask'[q] = ask[q] /\ found'[q] = found[q] /\ written'[q] = written[q]
          /\ answer'[q] = answer[q] /\ unreadAtStart'[q] = unreadAtStart[q]
          /\ \A l \in locks : l[2] = q => l \in locks'
      BY <1>2, <2>4, Footprint
    <3>2. ASSUME pc[q] \in {"mark", "commit"}, ask[q].op \in {"read", "readAll"}, NEW n \in written[q]
          PROVE  n \in Unread' /\ <<<<"notification", n>>, q>> \in locks'
      <4>1. n \in Unread /\ <<<<"notification", n>>, q>> \in locks /\ n \in Run
        BY <1>1, <2>1, <2>2, <3>2
      <4>2. <<<<"notification", n>>, q>> \in locks'
        <5>1. <<<<"notification", n>>, q>>[2] = q
          OBVIOUS
        <5> QED
          BY <3>1, <4>1, <5>1
      <4>3. readBy'[n] = readBy[n]
        <5> SUFFICES ASSUME readBy'[n] # readBy[n] PROVE FALSE
          OBVIOUS
        <5>1. Commit(r) /\ n \in written[r] /\ ask[r].op \in {"read", "readAll"} /\ pc[r] = "commit"
          BY <1>2, <4>1, Footprint, CommitRows DEF Commit
        <5>2. <<<<"notification", n>>, r>> \in locks
          BY <1>1, <5>1
        <5>3. <<<<"notification", n>>, r>> = <<<<"notification", n>>, q>>
          BY <4>1, <5>2 DEF TypeOK
        <5> QED
          BY <5>3
      <4> QED
        BY <2>1, <4>1, <4>2, <4>3 DEF Unread
    <3> QED
      BY <1>1, <2>1, <2>2, <3>1, <3>2
  <2>5. P(r)'
    <3>1. CASE \E a \in Ask : Begin(r, a)
      <4>1. pc'[r] \in {"lock", "scan", "update"} /\ answer'[r] = None
        BY <3>1 DEF Begin, Arrives, GoTo, TypeOK, StepsTrue
      <4> QED
        BY <4>1, TenantConstants
    <3>2. CASE Unauthorized(r) \/ NotFound(r) \/ SetRefused(r) \/ Abort(r)
      <4>1. pc'[r] = "done" /\ answer'[r] # "ok"
        BY <3>2, EndTypes DEF Unauthorized, NotFound, SetRefused, Abort, TypeOK
      <4> QED
        BY <4>1
    <3>3. CASE Commit(r)
      <4>1. pc'[r] = "done" /\ pc[r] = "commit"
        BY <3>3, CommitRows, CommitEffect
      <4>2. answer'[r] = "ok" => ask' = ask
        BY <3>3, CommitEffect, EndTypes
      <4> QED
        BY <2>1, <4>1, <4>2 DEF StepsTrue
    <3>4. CASE LockTarget(r) \/ ClearSelect(r) \/ (\E e \in Environment : ClearRow(r, e)) \/ SetTarget(r)
      <4>1. /\ pc[r] \in {"lock", "clear", "clearRow", "set"} /\ ask' = ask /\ answer' = answer
            /\ pc'[r] # "mark"
        BY <3>4 DEF LockTarget, ClearSelect, ClearRow, SetTarget, Visit, GoTo, TypeOK
      <4>2. ask[r].op = "select" /\ answer[r] = None
        BY <4>1 DEF StepsTrue
      <4> QED
        BY <4>1, <4>2
    <3>5. CASE Scan(r)
      <4>1. /\ pc[r] = "scan" /\ ask' = ask /\ answer' = answer /\ written' = written
            /\ found'[r] = Unread /\ pc'[r] = (IF Unread = {} THEN "commit" ELSE "mark")
            /\ UNCHANGED <<stored, readBy, unreadAtStart>>
        BY <3>5 DEF Scan, Visit, GoTo, TypeOK, database, observed
      <4>2. ask[r].op = "readAll" /\ answer[r] = None /\ written[r] = {} /\ Unread' = Unread
        BY <4>1 DEF StepsTrue, Unread
      <4> QED
        BY <2>2, <4>1, <4>2
    <3>6. CASE MarkRow(r)
      <4>1. PICK n \in found[r] :
          /\ Hold(r, <<"notification", n>>) /\ Visit(r, found[r] \ {n}, "mark", "commit")
          /\ written' = [written EXCEPT ![r] = @ \cup ({n} \cap Unread)]
        BY <3>6 DEF MarkRow
      <4>2. /\ pc[r] = "mark" /\ ask' = ask /\ answer' = answer
            /\ written'[r] = written[r] \cup ({n} \cap Unread)
            /\ found'[r] = found[r] \ {n}
            /\ pc'[r] = (IF found[r] \ {n} = {} THEN "commit" ELSE "mark")
            /\ locks' = locks \cup {<<<<"notification", n>>, r>>}
            /\ UNCHANGED <<stored, readBy, unreadAtStart>>
        BY <3>6, <4>1 DEF MarkRow, Visit, Hold, GoTo, TypeOK, database, observed
      <4>3. ask[r].op = "readAll" /\ answer[r] = None /\ Unread' = Unread
        BY <4>2 DEF StepsTrue, Unread
      <4> QED
        BY <1>1, <4>2, <4>3
    <3>7. CASE Update(r)
      <4>1. /\ pc[r] = "update" /\ ask' = ask /\ answer' = answer /\ pc'[r] = "commit"
            /\ written'[r] = IF ask[r].op = "read" THEN {ask[r].row} \cap Unread ELSE {}
            /\ locks' = locks \cup {<<Target(ask[r]), r>>}
            /\ UNCHANGED <<stored, readBy, unreadAtStart>>
        BY <3>7 DEF Update, Hold, GoTo, TypeOK, database, observed
      <4>2. /\ ask[r].op \in {"read", "resolve", "reopen", "name", "days"} /\ answer[r] = None
            /\ Unread' = Unread
            /\ ask[r].op = "read" => Target(ask[r]) = <<"notification", ask[r].row>>
        BY <4>1 DEF StepsTrue, Unread, Target
      <4> QED
        BY <4>1, <4>2, TenantConstants
    <3> QED
      BY <1>2, <3>1, <3>2, <3>3, <3>4, <3>5, <3>6, <3>7
      DEF Acts, Handle, SelectEnvironment, MarkAllNotificationsRead
  <2> HIDE DEF P
  <2>6. \A q \in Request : P(q)'
    BY <2>4, <2>5
  <2> USE DEF P
  <2> QED
    BY <2>3, <2>6 DEF MarkTrue
<1>3. ASSUME NEW n \in Run, CreateRun(n) PROVE MarkTrue'
  <2>1. Unread \subseteq Unread' /\ Unread' \subseteq Unread \cup {n} /\ n \notin stored
        /\ stored' = stored \cup {n}
    BY <1>3 DEF CreateRun, Unread
  <2>2. \A q \in Request : n \notin unreadAtStart[q]
    BY <2>1 DEF TypeOK
  <2>3. \A q \in Request : pc[q] = "commit" /\ ask[q].op = "read" => ask[q].row # n
    BY <2>1 DEF StepsTrue
  <2>4. UNCHANGED <<readBy, locks, pc, ask, found, written, answer, unreadAtStart>>
    BY <1>3 DEF CreateRun, transactions, observed
  <2> QED
    BY <1>1, <2>1, <2>2, <2>3, <2>4 DEF MarkTrue
<1>4. CASE UNCHANGED vars
  BY <1>4 DEF vars, database, transactions, observed, MarkTrue, Unread
<1> QED
  BY <1>2, <1>3, <1>4 DEF Next, Acts

(* Where the index refuses a selection it finds a default the selection has *)
(* not cleared, which another selection has put there.                      *)
LEMMA RefuseStep == IInv /\ [Next]_vars => RefusedBehindAnother'
<1> SUFFICES ASSUME IInv, TypeOK, StepsTrue, SelectTrue, RefusedBehindAnother, [Next]_vars,
                    NEW q \in Request, answer'[q] = "failed", ask'[q].op = "select", faults' = 0
             PROVE  q \in overtaken'
  BY DEF IInv, RefusedBehindAnother
<1>1. ASSUME NEW r \in Request, Acts(r) PROVE q \in overtaken'
  <2>1. faults = 0 /\ overtaken \subseteq overtaken'
    BY <1>1, Footprint
  <2>2. CASE q # r
    BY <1>1, <2>1, <2>2, Footprint DEF RefusedBehindAnother
  <2>3. CASE q = r /\ answer'[r] = answer[r]
    <3>1. pc[r] = "done"
      BY <2>3, TenantConstants DEF StepsTrue
    <3> QED
      BY <1>1, <3>1
      DEF Acts, Begin, Arrives, Unauthorized, Abort, Handle, SelectEnvironment,
          MarkAllNotificationsRead, LockTarget, ClearSelect, ClearRow, SetTarget, SetRefused,
          Scan, MarkRow, Update, Commit, NotFound
  <2>4. CASE q = r /\ answer'[r] # answer[r]
    <3>1. Unauthorized(r) \/ NotFound(r) \/ SetRefused(r) \/ Abort(r) \/ Commit(r)
      BY <1>1, <2>4
      DEF Acts, Begin, Handle, SelectEnvironment, MarkAllNotificationsRead, LockTarget,
          ClearSelect, ClearRow, SetTarget, Scan, MarkRow, Update
    <3>2. ~Unauthorized(r) /\ ~NotFound(r)
      BY <2>4, EndTypes DEF Unauthorized, NotFound, TypeOK
    <3>3. ~Abort(r) /\ ~Commit(r)
      BY <2>1, <2>4, CommitEffect DEF Abort, Fault
    <3>4. SetRefused(r)
      BY <3>1, <3>2, <3>3
    <3>5. pc[r] = "set" /\ ~(defaults \subseteq written[r]) /\ overtaken' = overtaken
      BY <3>4 DEF SetRefused, Others, observed
    <3> QED
      BY <2>4, <3>5 DEF SelectTrue
  <2> QED
    BY <2>2, <2>3, <2>4
<1>2. ASSUME NEW n \in Run, CreateRun(n) PROVE q \in overtaken'
  BY <1>2 DEF CreateRun, transactions, observed, RefusedBehindAnother
<1>3. CASE UNCHANGED vars
  BY <1>3 DEF vars, transactions, observed, RefusedBehindAnother
<1> QED
  BY <1>1, <1>2, <1>3 DEF Next, Acts

(* The lock of the projects row is one request's at a time: nobody else     *)
(* commits a version of the row between an update and its commit.           *)
LEMMA DraftStep == IInv /\ [Next]_vars => DraftTrue'
<1> SUFFICES ASSUME IInv, TypeOK, DraftTrue, [Next]_vars, NEW q \in Request,
                    pc'[q] = "commit", ask'[q].op \in {"name", "days"}
             PROVE  /\ <<<<"project", "own">>, q>> \in locks'
                    /\ draft'[q] = [settings' EXCEPT ![ask'[q].op] = q]
  BY DEF IInv, DraftTrue
<1> DEFINE D(r) == /\ <<<<"project", "own">>, r>> \in locks
                   /\ draft[r] = [settings EXCEPT ![ask[r].op] = r]
<1>1. ASSUME NEW r \in Request, Acts(r), q # r PROVE D(q)'
  <2>1. /\ pc[q] = "commit" /\ ask'[q] = ask[q] /\ draft'[q] = draft[q]
        /\ \A l \in locks : l[2] = q => l \in locks'
    BY <1>1, Footprint
  <2>2. D(q)
    BY <2>1 DEF DraftTrue
  <2>3. settings' = settings
    <3>1. CASE Commit(r) /\ ask[r].op \in {"name", "days"}
      <4>1. pc[r] = "commit"
        BY <3>1 DEF Commit
      <4>2. <<<<"project", "own">>, r>> \in locks
        BY <3>1, <4>1 DEF DraftTrue
      <4>3. <<<<"project", "own">>, r>> = <<<<"project", "own">>, q>>
        BY <2>2, <4>2 DEF TypeOK
      <4> QED
        BY <1>1, <4>3
    <3>2. CASE Commit(r) /\ ask[r].op \notin {"name", "days"}
      BY <3>2, CommitEffect DEF Select, MarkRead, Resolve
    <3>3. CASE ~Commit(r)
      BY <1>1, <3>3, Footprint
    <3> QED
      BY <3>1, <3>2, <3>3
  <2> QED
    BY <2>1, <2>2, <2>3
<1>2. ASSUME Acts(q) PROVE D(q)'
  <2>1. CASE Update(q)
    <3>1. ask' = ask /\ settings' = settings /\ draft' = [draft EXCEPT ![q] = NewVersion(q)]
      BY <2>1 DEF Update, database
    <3>2. Target(ask[q]) = <<"project", "own">> /\ NewVersion(q) = [settings EXCEPT ![ask[q].op] = q]
      BY <3>1 DEF Target, NewVersion
    <3>3. <<<<"project", "own">>, q>> \in locks'
      BY <2>1, <3>2 DEF Update, Hold
    <3>4. draft'[q] = NewVersion(q)
      BY <3>1 DEF TypeOK
    <3> QED
      BY <3>1, <3>2, <3>3, <3>4
  <2>2. CASE ~Update(q)
    <3>1. CASE Unauthorized(q) \/ NotFound(q) \/ SetRefused(q) \/ Abort(q) \/ Commit(q)
      <4>1. pc'[q] = "done"
        BY <3>1, EndTypes, CommitRows DEF Unauthorized, NotFound, SetRefused, Abort, TypeOK
      <4> QED
        BY <4>1
    <3>2. CASE \E a \in Ask : Begin(q, a)
      BY <3>2 DEF Begin, GoTo, TypeOK
    <3>3. CASE LockTarget(q) \/ ClearSelect(q) \/ SetTarget(q) \/ Scan(q) \/ MarkRow(q)
               \/ \E e \in Environment : ClearRow(q, e)
      <4>1. ask' = ask /\ ask[q].op \in {"select", "readAll"}
        BY <3>3
        DEF LockTarget, ClearSelect, SetTarget, Scan, MarkRow, ClearRow, IInv, StepsTrue
      <4> QED
        BY <4>1
    <3> QED
      BY <1>2, <2>2, <3>1, <3>2, <3>3
      DEF Acts, Handle, SelectEnvironment, MarkAllNotificationsRead
  <2> QED
    BY <2>1, <2>2
<1>3. ASSUME NEW n \in Run, CreateRun(n) PROVE D(q)'
  BY <1>3 DEF CreateRun, transactions, DraftTrue
<1>4. CASE UNCHANGED vars
  BY <1>4 DEF vars, database, transactions, DraftTrue
<1> QED
  BY <1>1, <1>2, <1>3, <1>4 DEF Next, Acts

(* What was acknowledged is true when it is, and no later commit undoes it. *)
LEMMA AcknowledgedStep == IInv /\ [Next]_vars => AcknowledgedIsKept'
<1> DEFINE K(q) ==
        /\ ask[q].op = "readAll" =>
             written[q] = {n \in stored : readBy[n] = q} /\ unreadAtStart[q] \cap Unread = {}
        /\ ask[q].op = "read" => ask[q].row \notin Unread
        /\ ask[q].op \in {"name", "days"} => settings[ask[q].op] # None
<1>1. AcknowledgedIsKept <=> \A q \in Request : answer[q] = "ok" => K(q)
  BY DEF AcknowledgedIsKept
<1>2. AcknowledgedIsKept' <=> \A q \in Request : answer'[q] = "ok" => K(q)'
  BY DEF AcknowledgedIsKept
<1> SUFFICES ASSUME IInv, TypeOK, StepsTrue, MarkTrue, [Next]_vars, NEW q \in Request,
                    answer[q] = "ok" => K(q), answer'[q] = "ok"
             PROVE  K(q)'
  BY <1>1, <1>2 DEF IInv
<1>3. ASSUME NEW r \in Request, Acts(r) PROVE K(q)'
  <2>1. stored' = stored /\ stored \subseteq Run
    BY <1>3, Footprint DEF TypeOK
  <2>2. /\ \A n \in Run : readBy'[n] = None => readBy[n] = None
        /\ \A f \in {"name", "days"} : settings'[f] # None \/ settings'[f] = settings[f]
        /\ Unread' \subseteq Unread
    <3>1. \A n \in Run : readBy'[n] = None => readBy[n] = None
      BY <1>3, Footprint, CommitRows, TenantConstants
    <3>2. \A f \in {"name", "days"} : settings'[f] # None \/ settings'[f] = settings[f]
      BY <1>3, Footprint, CommitRows
    <3> QED
      BY <2>1, <3>1, <3>2 DEF Unread
  <2>3. CASE q # r
    <3>1. /\ answer[q] = "ok" /\ ask'[q] = ask[q] /\ written'[q] = written[q]
          /\ unreadAtStart'[q] = unreadAtStart[q]
      BY <1>3, <2>3, Footprint
    <3>2. \A n \in stored : readBy'[n] = q <=> readBy[n] = q
      <4> TAKE n \in stored
      <4>1. CASE readBy'[n] = readBy[n]
        BY <4>1
      <4>2. CASE readBy'[n] # readBy[n]
        <5>1. Commit(r) /\ n \in written[r] /\ ask[r].op \in {"read", "readAll"} /\ pc[r] = "commit"
          BY <1>3, <2>1, <4>2, Footprint, CommitRows DEF Commit
        <5>2. n \in Unread /\ readBy'[n] = r
          BY <2>1, <4>2, <5>1, CommitRows DEF MarkTrue
        <5> QED
          BY <2>3, <5>2, TenantConstants DEF Unread
      <4> QED
        BY <4>1, <4>2
    <3>3. {n \in stored' : readBy'[n] = q} = {n \in stored : readBy[n] = q}
      BY <2>1, <3>2
    <3> QED
      BY <2>2, <3>1, <3>3
  <2>4. CASE q = r /\ Commit(r)
    <3>1. End(r, "ok") /\ pc[r] = "commit" /\ unreadAtStart' = unreadAtStart
      BY <2>4, CommitEffect
    <3>2. ask' = ask /\ written' = written
      BY <3>1, EndTypes
    <3>3. ASSUME ask[r].op = "readAll"
          PROVE  written[r] = {n \in stored : readBy'[n] = r} /\ unreadAtStart[r] \cap Unread' = {}
      <4>1. \A n \in Run : readBy'[n] = IF n \in written[r] THEN r ELSE readBy[n]
        BY <2>4, <3>3, CommitRows
      <4>2. written[r] \subseteq Unread /\ Unread \subseteq stored
        BY <3>1, <3>3 DEF MarkTrue, Unread
      <4>3. \A n \in Run : readBy[n] # r
        BY <3>1 DEF StepsTrue
      <4>4. written[r] \cap Unread' = {}
        BY <2>1, <4>1, <4>2, TenantConstants DEF Unread
      <4>5. unreadAtStart[r] \cap Unread \subseteq written[r]
        BY <3>1, <3>3 DEF MarkTrue
      <4> QED
        BY <2>1, <2>2, <4>1, <4>2, <4>3, <4>4, <4>5
    <3>4. ASSUME ask[r].op = "read" PROVE ask[r].row \notin Unread'
      <4>1. \A n \in Run : readBy'[n] = IF n \in written[r] THEN r ELSE readBy[n]
        BY <2>4, <3>4, CommitRows
      <4>2. {ask[r].row} \cap Unread \subseteq written[r]
        BY <3>1, <3>4 DEF MarkTrue
      <4> QED
        BY <2>1, <2>2, <4>1, <4>2, TenantConstants DEF Unread
    <3>5. ask[r].op \in {"name", "days"} => settings'[ask[r].op] # None
      BY <2>4, CommitRows
    <3> QED
      BY <2>1, <2>4, <3>1, <3>2, <3>3, <3>4, <3>5
  <2>5. CASE q = r /\ ~Commit(r)
    <3>1. CASE Unauthorized(r) \/ NotFound(r) \/ SetRefused(r) \/ Abort(r)
      BY <2>5, <3>1, EndTypes DEF Unauthorized, NotFound, SetRefused, Abort, TypeOK
    <3>2. CASE ~(Unauthorized(r) \/ NotFound(r) \/ SetRefused(r) \/ Abort(r))
      <4>1. pc[r] # "done" /\ answer'[r] = answer[r]
        BY <1>3, <2>5, <3>2
        DEF Acts, Begin, Arrives, Handle, SelectEnvironment, MarkAllNotificationsRead,
            LockTarget, ClearSelect, ClearRow, SetTarget, Scan, MarkRow, Update
      <4> QED
        BY <2>5, <4>1, TenantConstants DEF StepsTrue
    <3> QED
      BY <3>1, <3>2
  <2> QED
    BY <2>3, <2>4, <2>5
<1>4. ASSUME NEW n \in Run, CreateRun(n) PROVE K(q)'
  <2>1. Unread' \subseteq Unread \cup {n} /\ n \notin stored /\ stored' = stored \cup {n}
    BY <1>4 DEF CreateRun, Unread
  <2>2. UNCHANGED <<readBy, settings, ask, written, answer, unreadAtStart>>
    BY <1>4 DEF CreateRun, transactions, observed
  <2>3. n \notin unreadAtStart[q] /\ readBy[n] # q /\ (ask[q].op = "read" => ask[q].row # n)
    <3>1. n \notin unreadAtStart[q]
      BY <2>1 DEF TypeOK
    <3>2. readBy[n] = None
      BY <2>1 DEF MarkTrue
    <3>3. ask[q].op = "read" => ask[q].row \in stored
      BY <2>2 DEF MarkTrue
    <3> QED
      BY <2>1, <3>1, <3>2, <3>3, TenantConstants
  <2>4. {m \in stored' : readBy'[m] = q} = {m \in stored : readBy[m] = q}
    BY <2>1, <2>2, <2>3
  <2> QED
    BY <2>1, <2>2, <2>3, <2>4
<1>5. CASE UNCHANGED vars
  BY <1>5 DEF vars, database, transactions, observed, Unread
<1> QED
  BY <1>3, <1>4, <1>5 DEF Next, Acts

-----------------------------------------------------------------------------
(* The theorems.                                                            *)

(* The invariant holds in every state of every behaviour.                   *)
THEOREM Inductive == Spec => []IInv
<1>1. IInv /\ [Next]_vars => IInv'
  BY TypeStep, StepsStep, SelectStep, MarkStep, DraftStep, RefuseStep, AcknowledgedStep DEF IInv
<1> QED
  BY InitIInv, <1>1, PTL DEF Spec

(* Rows are locked by one running transaction each, in every state.         *)
THEOREM TypeCorrect == Spec => []TypeOK
  BY Inductive, PTL DEF IInv

(* Whatever selections run together, abort or lose their answer, a project  *)
(* has exactly one default environment.                                     *)
THEOREM DefaultKept == Spec => []OneDefault
<1>1. IInv => OneDefault
  BY FS_Singleton DEF IInv, SelectTrue, OneDefault
<1> QED
  BY Inductive, <1>1, PTL

(* Without a failed statement a selection fails only behind another one     *)
(* that committed while it ran.                                             *)
THEOREM Refusals == Spec => []RefusedBehindAnother
  BY Inductive, PTL DEF IInv

(* What an answered request was told stays true, whatever the requests and  *)
(* runs after it change.                                                    *)
THEOREM Acknowledgements == Spec => []AcknowledgedIsKept
  BY Inductive, PTL DEF IInv
=============================================================================
