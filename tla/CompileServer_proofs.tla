----------------------- MODULE CompileServer_proofs -----------------------
(***************************************************************************)
(* Theorems about the two parts of the compile server: its registry of     *)
(* links (Registry), for every set of requests, ids and options, and its   *)
(* parser of the compiler's log (LogParser), for logs of any number of     *)
(* messages.  The two share no variable.                                   *)
(***************************************************************************)
EXTENDS Registry, LogParser, SequenceTheorems, TLAPS

(***************************************************************************)
(* The registry of links.                                                  *)
(***************************************************************************)
LEMMA TypeInit == Init => TypeOK
BY ValuesAssumption DEF Init, TypeOK, Requests, Writers

(* Add and UpdateListeners keep the types of what they write. *)
LEMMA AddType ==
  ASSUME TypeOK, NEW l \in Links, Add(l)
  PROVE  /\ links' \subseteq Links /\ listeners' \subseteq Polls
         /\ tasks' \subseteq Polls \X Links /\ due' \in [Polls -> Links \cup {None}]
BY DEF TypeOK, Add, Changed, UpdateListeners

(* Find keeps the types: what it finds is a link of the registry. *)
LEMMA FindType ==
  ASSUME TypeOK, NEW r \in Writers, Find(r)
  PROVE  TypeOK'
BY DEF TypeOK, Find, Requests, Writers

(* Every step keeps the types. *)
LEMMA TypeStep ==
  ASSUME TypeOK, WriterInv, [Next]_vars
  PROVE  TypeOK'
<1>1. CASE \E r \in Puts : Put(r)
  <2>1. PICK r \in Puts : Put(r)
    BY <1>1
  <2>2. PICK id \in Ids, o \in SUBSET Options :
          LET l == [id |-> id, options |-> o, by |-> r] IN Add(l) /\ Answered(r, l)
    BY <2>1 DEF Put
  <2> DEFINE l == [id |-> id, options |-> o, by |-> r]
  <2>3. l \in Links /\ Add(l) /\ Answered(r, l)
    BY <2>2 DEF Links
  <2> HIDE DEF l
  <2>4. /\ links' \subseteq Links /\ listeners' \subseteq Polls
        /\ tasks' \subseteq Polls \X Links /\ due' \in [Polls -> Links \cup {None}]
    BY <2>3, AddType
  <2> QED BY <2>1, <2>3, <2>4 DEF Put, Answered, TypeOK, Requests, Writers
<1>2. CASE \E r \in Posts : FindForPost(r)
  BY <1>2, FindType DEF FindForPost, Writers
<1>3. CASE \E r \in Posts : Post(r)
  <2>1. PICK r \in Posts : Post(r)
    BY <1>3
  <2>2. CASE /\ status' = [status EXCEPT ![r] = "failed"]
             /\ UNCHANGED <<links, listeners, tasks, answer, due>>
    BY <2>1, <2>2 DEF Post, TypeOK, Requests, Writers
  <2>3. CASE \E id \in Ids, o \in SUBSET Options :
          LET l == [id |-> id, options |-> found[r].options \cup o, by |-> r]
          IN Add(l) /\ Answered(r, l)
    <3>1. PICK id \in Ids, o \in SUBSET Options :
          LET l == [id |-> id, options |-> found[r].options \cup o, by |-> r]
          IN Add(l) /\ Answered(r, l)
      BY <2>3
    <3> DEFINE l == [id |-> id, options |-> found[r].options \cup o, by |-> r]
    <3>2. found[r].options \in SUBSET Options
      BY <2>1 DEF Post, WriterInv, Writers, Links
    <3>3. l \in Links /\ Add(l) /\ Answered(r, l)
      BY <3>1, <3>2 DEF Links
    <3> HIDE DEF l
    <3>4. /\ links' \subseteq Links /\ listeners' \subseteq Polls
          /\ tasks' \subseteq Polls \X Links /\ due' \in [Polls -> Links \cup {None}]
      BY <3>3, AddType
    <3> QED BY <2>1, <3>3, <3>4 DEF Post, Answered, TypeOK, Requests, Writers
  <2> QED BY <2>1, <2>2, <2>3 DEF Post
<1>4. CASE \E r \in Deletes : FindForDelete(r)
  BY <1>4, FindType DEF FindForDelete, Writers
<1>5. CASE \E r \in Deletes : Delete(r)
  BY <1>5 DEF Delete, Answered, Changed, UpdateListeners, TypeOK, Requests, Writers
<1>6. CASE \E p \in Polls : ScheduleNull(p) \/ OnChange(p)
  BY <1>6 DEF ScheduleNull, OnChange, TypeOK, Requests
<1>7. CASE \E p \in Polls : TimeOut(p)
  BY <1>7 DEF TimeOut, SatisfyRequest, TypeOK, Requests
<1>8. CASE \E t \in tasks : RunTask(t)
  BY <1>8 DEF RunTask, SatisfyRequest, TypeOK, Requests
<1>9. CASE UNCHANGED vars
  BY <1>9 DEF vars, TypeOK
<1> QED BY <1>1, <1>2, <1>3, <1>4, <1>5, <1>6, <1>7, <1>8, <1>9 DEF Next

-----------------------------------------------------------------------------
LEMMA WriterInit == Init => WriterInv
BY ValuesAssumption DEF Init, WriterInv, UniqueIds, DeletedOnce, Requests, Writers

(* Writing a link under its own request's name keeps the ids unique and     *)
(* brings no removed link back.                                             *)
LEMMA WriterAdd ==
  ASSUME TypeOK, WriterInv, NEW r \in Puts \cup Posts, NEW l \in Links, l.by = r,
         status[r] # "done", Add(l), Answered(r, l), UNCHANGED found
  PROVE  WriterInv'
<1> USE KindsAssumption DEF TypeOK, Add, Answered, Requests, Writers
<1>1. UniqueIds'
  BY DEF WriterInv, UniqueIds
<1>2. \A k \in links' : status'[k.by] = "done"
  BY DEF WriterInv, Links
<1>3. \A d \in Deletes : answer'[d] = answer[d] /\ status'[d] = status[d]
  OBVIOUS
<1>4. \A d \in Deletes : answer[d] # None =>
        /\ answer[d] \in Links /\ status'[d] = "done"
        /\ status'[answer[d].by] = "done" /\ answer[d] # l
  BY <1>3 DEF WriterInv, Links
<1>5. DeletedOnce'
  BY <1>3, <1>4 DEF WriterInv, DeletedOnce
<1>6. \A w \in Writers : status'[w] = "found" => found'[w] \in Links
  BY DEF WriterInv
<1> QED BY <1>1, <1>2, <1>3, <1>4, <1>5, <1>6 DEF WriterInv

(* A thread that does not write, and is not done, keeps it. *)
LEMMA WriterFind ==
  ASSUME TypeOK, WriterInv, NEW r \in Writers, status[r] = "idle", Find(r)
  PROVE  WriterInv'
BY DEF TypeOK, WriterInv, UniqueIds, DeletedOnce, Find, Requests, Writers, Links

LEMMA WriterStep ==
  ASSUME TypeOK, WriterInv, [Next]_vars
  PROVE  WriterInv'
<1>1. CASE \E r \in Puts : Put(r)
  <2>1. PICK r \in Puts : Put(r)
    BY <1>1
  <2>2. PICK id \in Ids, o \in SUBSET Options :
          LET l == [id |-> id, options |-> o, by |-> r] IN Add(l) /\ Answered(r, l)
    BY <2>1 DEF Put
  <2> QED BY <2>1, <2>2, WriterAdd DEF Put, Links
<1>2. CASE \E r \in Posts : FindForPost(r)
  BY <1>2, WriterFind DEF FindForPost, Writers
<1>3. CASE \E r \in Posts : Post(r)
  <2>1. PICK r \in Posts : Post(r)
    BY <1>3
  <2>2. CASE /\ status' = [status EXCEPT ![r] = "failed"]
             /\ UNCHANGED <<links, listeners, tasks, answer, due>>
    BY <2>1, <2>2, KindsAssumption
       DEF Post, TypeOK, WriterInv, UniqueIds, DeletedOnce, Requests, Writers, Links
  <2>3. CASE \E id \in Ids, o \in SUBSET Options :
          LET l == [id |-> id, options |-> found[r].options \cup o, by |-> r]
          IN Add(l) /\ Answered(r, l)
    <3>1. found[r].options \in SUBSET Options
      BY <2>1 DEF Post, WriterInv, Writers, Links
    <3> QED BY <2>1, <2>3, <3>1, WriterAdd DEF Post, Links
  <2> QED BY <2>1, <2>2, <2>3 DEF Post
<1>4. CASE \E r \in Deletes : FindForDelete(r)
  BY <1>4, WriterFind DEF FindForDelete, Writers
<1>5. CASE \E r \in Deletes : Delete(r)
  <2>1. PICK r \in Deletes : Delete(r)
    BY <1>5
  <2> USE KindsAssumption DEF TypeOK, Requests, Writers
  <2>2. links' \subseteq links /\ UNCHANGED found
    BY <2>1 DEF Delete
  <2>3. \A q \in Requests : status'[q] = IF q = r THEN status'[r] ELSE status[q]
    BY <2>1 DEF Delete, Answered
  <2>4. status[r] = "found" /\ status'[r] \in {"done", "missing", "failed"}
    BY <2>1 DEF Delete, Answered
  <2>5. \A d \in Deletes \ {r} : answer'[d] = answer[d]
    BY <2>1 DEF Delete, Answered
  <2>6. answer'[r] = None \/ (answer'[r] \in links /\ answer'[r] \notin links' /\ status'[r] = "done")
    BY <2>1 DEF Delete, Answered, WriterInv
  <2>7. \A l \in links : l.by \in Puts \cup Posts
    BY DEF Links
  <2>8. UniqueIds'
    BY <2>2 DEF WriterInv, UniqueIds
  <2>9. \A l \in links : status'[l.by] = "done"
    BY <2>3, <2>7 DEF WriterInv
  <2>10. \A d \in Deletes : answer'[d] # None =>
           /\ answer'[d] \in Links /\ status'[d] = "done" /\ status'[answer'[d].by] = "done"
    <3> SUFFICES ASSUME NEW d \in Deletes, answer'[d] # None
                 PROVE  /\ answer'[d] \in Links /\ status'[d] = "done"
                        /\ status'[answer'[d].by] = "done"
      OBVIOUS
    <3>1. CASE d = r
      BY <3>1, <2>6, <2>9
    <3>2. CASE d # r
      BY <3>2, <2>3, <2>5 DEF WriterInv, Links
    <3> QED BY <3>1, <3>2
  <2>11. DeletedOnce'
    BY <2>2, <2>5, <2>6 DEF WriterInv, DeletedOnce
  <2>12. \A w \in Writers : status'[w] = "found" => found'[w] \in Links
    BY <2>2, <2>3, <2>4 DEF WriterInv
  <2> QED BY <2>2, <2>8, <2>9, <2>10, <2>11, <2>12 DEF WriterInv
<1>6. CASE \E p \in Polls : ScheduleNull(p) \/ OnChange(p)
  BY <1>6, KindsAssumption
     DEF ScheduleNull, OnChange, TypeOK, WriterInv, UniqueIds, DeletedOnce, Requests, Writers, Links
<1>7. CASE \E p \in Polls : TimeOut(p)
  BY <1>7, KindsAssumption
     DEF TimeOut, SatisfyRequest, TypeOK, WriterInv, UniqueIds, DeletedOnce, Requests, Writers
<1>8. CASE \E t \in tasks : RunTask(t)
  BY <1>8, KindsAssumption
     DEF RunTask, SatisfyRequest, TypeOK, WriterInv, UniqueIds, DeletedOnce, Requests, Writers
<1>9. CASE UNCHANGED vars
  BY <1>9 DEF vars, WriterInv, UniqueIds, DeletedOnce
<1> QED BY <1>1, <1>2, <1>3, <1>4, <1>5, <1>6, <1>7, <1>8, <1>9 DEF Next

(* IInv is inductive. *)
LEMMA Inductive == Spec => []IInv
<1>1. Init => IInv
  BY TypeInit, WriterInit DEF IInv
<1>2. IInv /\ [Next]_vars => IInv'
  BY TypeStep, WriterStep DEF IInv
<1> QED BY <1>1, <1>2, PTL DEF Spec

(* The variables keep their types: what a POST merges is always a link. *)
THEOREM TypeCorrect == Spec => []TypeOK
BY Inductive, PTL DEF IInv

(* LinksInv: however POSTs rename and write late, no two links share an id,  *)
(* no two DELETEs report the removal of the same link, and it stays removed. *)
THEOREM LinksAreRight == Spec => []LinksInv
<1>1. IInv => LinksInv
  BY DEF IInv, WriterInv, LinksInv
<1> QED BY <1>1, Inductive, PTL

-----------------------------------------------------------------------------
(* With every id a number, every step keeps PollInv. *)

(* A locked step that writes or removes link l and tells the listeners. *)
LEMMA PollChange ==
  ASSUME TypeOK, PollInv, NEW l \in Links, Changed(l), UpdateListeners(l),
         \A p \in Polls : answer'[p] = answer[p] /\ status'[p] = status[p]
  PROVE  PollInv'
<1> USE ValuesAssumption DEF TypeOK, Changed, UpdateListeners
<1>1. \A p \in Polls : status'[p] # "done" => due'[p] = None
  BY DEF PollInv
<1>2. ASSUME NEW t \in tasks' PROVE t[2] = due'[t[1]]
  <2>1. CASE t \in tasks
    BY <2>1 DEF PollInv
  <2>2. CASE t \in listeners \X {l}
    BY <2>2 DEF PollInv
  <2> QED BY <1>2, <2>1, <2>2
<1>3. FirstChangeAnswers'
  BY DEF PollInv, FirstChangeAnswers
<1> QED BY <1>1, <1>2, <1>3 DEF PollInv

LEMMA PollStep ==
  ASSUME Numeric = Ids, IInv, PollInv, [Next]_vars
  PROVE  PollInv'
<1> USE KindsAssumption, ValuesAssumption DEF IInv, TypeOK, Requests, Writers
<1>1. CASE \E r \in Puts : Put(r)
  <2>1. PICK r \in Puts : Put(r)
    BY <1>1
  <2>2. PICK id \in Ids, o \in SUBSET Options :
          LET l == [id |-> id, options |-> o, by |-> r] IN Add(l) /\ Answered(r, l)
    BY <2>1 DEF Put
  <2> QED BY <2>1, <2>2, PollChange DEF Put, Add, Answered, Links
<1>2. CASE \E r \in Writers : Find(r)
  BY <1>2 DEF Find, PollInv, FirstChangeAnswers
<1>3. CASE \E r \in Posts : Post(r)
  <2>1. PICK r \in Posts : Post(r)
    BY <1>3
  <2>2. CASE /\ status' = [status EXCEPT ![r] = "failed"]
             /\ UNCHANGED <<links, listeners, tasks, answer, due>>
    BY <2>1, <2>2 DEF Post, PollInv, FirstChangeAnswers
  <2>3. CASE \E id \in Ids, o \in SUBSET Options :
          LET l == [id |-> id, options |-> found[r].options \cup o, by |-> r]
          IN Add(l) /\ Answered(r, l)
    <3>1. found[r].options \in SUBSET Options
      BY <2>1 DEF Post, WriterInv, Links
    <3> QED BY <2>1, <2>3, <3>1, PollChange DEF Post, Add, Answered, Links
  <2> QED BY <2>1, <2>2, <2>3 DEF Post
<1>4. CASE \E r \in Deletes : Delete(r)
  <2>1. PICK r \in Deletes : Delete(r)
    BY <1>4
  <2>2. found[r].id \in Numeric
    BY <2>1 DEF Delete, WriterInv, Links
  <2>3. CASE {l \in links : l.id = found[r].id} = {}
    BY <2>1, <2>3 DEF Delete, PollInv, FirstChangeAnswers
  <2>4. CASE {l \in links : l.id = found[r].id} # {}
    <3>1. PICK l \in links : Changed(l) /\ Answered(r, l) /\ UpdateListeners(l)
      BY <2>1, <2>2, <2>4 DEF Delete
    <3> QED BY <2>1, <3>1, PollChange DEF Delete, Answered
  <2> QED BY <2>3, <2>4
<1>5. CASE \E p \in Polls : ScheduleNull(p)
  BY <1>5 DEF ScheduleNull, PollInv, FirstChangeAnswers
<1>6. CASE \E p \in Polls : OnChange(p)
  BY <1>6 DEF OnChange, PollInv, FirstChangeAnswers
<1>7. CASE \E p \in Polls : TimeOut(p)
  BY <1>7 DEF TimeOut, SatisfyRequest, PollInv, FirstChangeAnswers
<1>8. CASE \E t \in tasks : RunTask(t)
  BY <1>8 DEF RunTask, SatisfyRequest, PollInv, FirstChangeAnswers
<1>9. CASE UNCHANGED vars
  BY <1>9 DEF vars, PollInv, FirstChangeAnswers
<1> QED BY <1>1, <1>2, <1>3, <1>4, <1>5, <1>6, <1>7, <1>8, <1>9
        DEF Next, FindForPost, FindForDelete

(* Where every id is a number, a poll is answered with the first change it  *)
(* waited through or with Null, whatever order the scheduler's threads take. *)
THEOREM PollsGetTheFirstChange ==
  ASSUME Numeric = Ids
  PROVE  Spec => []FirstChangeAnswers
<1>1. Init => PollInv
  BY DEF Init, PollInv, FirstChangeAnswers, Requests
<1>2. IInv /\ PollInv /\ [Next]_vars => PollInv'
  BY PollStep
<1>3. PollInv => FirstChangeAnswers
  BY DEF PollInv
<1> QED BY <1>1, <1>2, <1>3, Inductive, PTL DEF Spec

-----------------------------------------------------------------------------
(* The refinement of LinkTable: what each step of Registry is there. *)

TableVars == <<TableOf, listeners, due, answer>>

(* T has at n the link of that id in S, or None. *)
Holds(T, S, n) ==
  \/ T[n] = None /\ \A l \in S : l.id # n
  \/ T[n] \in S /\ T[n].id = n

LEMMA TableHolds ==
  /\ TableOf = [n \in Ids |-> TableOf[n]]
  /\ \A n \in Ids : Holds(TableOf, links, n)
<1>1. TableOf = [n \in Ids |-> TableOf[n]]
  BY DEF TableOf
<1>2. ASSUME NEW id \in Ids PROVE Holds(TableOf, links, id)
  <2>1. CASE LinksOf(id) = {}
    BY <2>1 DEF TableOf, LinksOf, Holds
  <2>2. CASE LinksOf(id) # {}
    <3>1. TableOf[id] \in LinksOf(id)
      BY <2>2 DEF TableOf
    <3> QED BY <3>1 DEF LinksOf, Holds
  <2> QED BY <2>1, <2>2
<1> QED BY <1>1, <1>2

LEMMA TableHoldsNext ==
  /\ TableOf' = [n \in Ids |-> TableOf'[n]]
  /\ \A n \in Ids : Holds(TableOf', links', n)
<1>1. TableOf' = [n \in Ids |-> TableOf'[n]]
  BY DEF TableOf
<1>2. ASSUME NEW id \in Ids PROVE Holds(TableOf', links', id)
  <2>1. CASE LinksOf(id)' = {}
    BY <2>1 DEF TableOf, LinksOf, Holds
  <2>2. CASE LinksOf(id)' # {}
    <3>1. TableOf'[id] \in LinksOf(id)'
      BY <2>2 DEF TableOf
    <3> QED BY <3>1 DEF LinksOf, Holds
  <2> QED BY <2>1, <2>2
<1> QED BY <1>1, <1>2

(* Where ids are unique, the table is known by what it has at each id. *)
LEMMA TableIs ==
  ASSUME NEW S \in SUBSET Links, \A k, l \in S : k.id = l.id => k = l,
         NEW T, T = [n \in Ids |-> T[n]], NEW U, U = [n \in Ids |-> U[n]],
         \A n \in Ids : Holds(T, S, n) /\ Holds(U, S, n)
  PROVE  T = U
<1>1. ASSUME NEW id \in Ids PROVE T[id] = U[id]
  BY <1>1 DEF Holds
<1> QED BY <1>1

LEMMA SameTable ==
  ASSUME links' = links
  PROVE  TableOf' = TableOf
BY DEF TableOf, LinksOf

LEMMA TableAdd ==
  ASSUME IInv, IInv', NEW l \in Links, links' = {k \in links : k.id # l.id} \cup {l}
  PROVE  TableOf' = [TableOf EXCEPT ![l.id] = l]
<1>1. /\ links' \in SUBSET Links /\ \A k, m \in links' : k.id = m.id => k = m
      /\ l.id \in Ids
  BY DEF IInv, TypeOK, WriterInv, UniqueIds, Links
<1>2. PICK U : U = [TableOf EXCEPT ![l.id] = l]
  OBVIOUS
<1>3. U = [n \in Ids |-> IF n = l.id THEN l ELSE TableOf[n]]
  BY <1>2, TableHolds
<1>4. U = [n \in Ids |-> U[n]]
  BY <1>3
<1>5. ASSUME NEW id \in Ids PROVE Holds(U, links', id)
  <2>1. CASE id = l.id
    BY <1>1, <1>3, <2>1 DEF Holds
  <2>2. CASE id # l.id
    <3>1. U[id] = TableOf[id] /\ Holds(TableOf, links, id)
      BY <1>3, <2>2, TableHolds
    <3> QED BY <2>2, <3>1 DEF Holds
  <2> QED BY <2>1, <2>2
<1>6. TableOf' = U
  BY <1>1, <1>4, <1>5, TableHoldsNext, TableIs
<1> QED BY <1>2, <1>6

LEMMA TableRemove ==
  ASSUME IInv, IInv', NEW l \in links, links' = links \ {k \in links : k.id = l.id}
  PROVE  /\ l.id \in Ids /\ TableOf[l.id] = l
         /\ TableOf' = [TableOf EXCEPT ![l.id] = None]
<1>1. /\ links' \in SUBSET Links /\ l.id \in Ids
      /\ \A k, m \in links : k.id = m.id => k = m
      /\ \A k, m \in links' : k.id = m.id => k = m
  BY DEF IInv, TypeOK, WriterInv, UniqueIds, Links
<1>2. TableOf[l.id] = l
  BY <1>1, TableHolds DEF Holds
<1>3. PICK U : U = [TableOf EXCEPT ![l.id] = None]
  OBVIOUS
<1>4. U = [n \in Ids |-> IF n = l.id THEN None ELSE TableOf[n]]
  BY <1>3, TableHolds
<1>5. U = [n \in Ids |-> U[n]]
  BY <1>4
<1>6. ASSUME NEW id \in Ids PROVE Holds(U, links', id)
  <2>1. CASE id = l.id
    BY <1>1, <1>4, <2>1 DEF Holds
  <2>2. CASE id # l.id
    <3>1. U[id] = TableOf[id] /\ Holds(TableOf, links, id)
      BY <1>4, <2>2, TableHolds
    <3> QED BY <2>2, <3>1 DEF Holds
  <2> QED BY <2>1, <2>2
<1>7. TableOf' = U
  BY <1>1, <1>5, <1>6, TableHoldsNext, TableIs
<1> QED BY <1>1, <1>2, <1>3, <1>7

(* To register a change and to hand the calls to the scheduler is to tell.    *)
LEMMA ChangeTells ==
  ASSUME TypeOK, PollInv, NEW l, Changed(l), UpdateListeners(l)
  PROVE  Table!Tell(l)
<1>1. \A p \in listeners : due[p] = None
  BY DEF PollInv
<1> QED BY <1>1 DEF Changed, UpdateListeners, Table!Tell

(* A write is one step for everybody. *)
LEMMA AddWrites ==
  ASSUME IInv, IInv', PollInv, NEW r \in Puts \cup Posts, NEW l \in Links, l.by = r,
         answer[r] = None, Add(l), Answered(r, l)
  PROVE  Table!Write(l)
<1>1. TableOf' = [TableOf EXCEPT ![l.id] = l]
  BY TableAdd DEF Add
<1>2. Table!Tell(l)
  BY ChangeTells DEF Add, IInv
<1>3. answer' = [answer EXCEPT ![l.by] = l] /\ l.by \in Writers
  BY DEF Answered, Writers
<1> QED BY <1>1, <1>2, <1>3 DEF Table!Write

(* A request that writes is answered when it is done. *)
AnswerInv == \A r \in Writers : answer[r] # None => status[r] = "done"

LEMMA AnswerStep ==
  ASSUME TypeOK, AnswerInv, [Next]_vars
  PROVE  AnswerInv'
<1> USE KindsAssumption DEF TypeOK, Requests, Writers, AnswerInv
<1>1. ASSUME NEW r \in Puts \cup Posts, NEW l, Add(l), Answered(r, l) PROVE AnswerInv'
  BY <1>1 DEF Answered
<1>2. CASE \E r \in Puts : Put(r)
  BY <1>1, <1>2 DEF Put
<1>3. CASE \E r \in Writers : Find(r) /\ status[r] = "idle"
  BY <1>3 DEF Find
<1>4. CASE \E r \in Posts : Post(r)
  <2>1. PICK r \in Posts : Post(r)
    BY <1>4
  <2>2. CASE /\ status' = [status EXCEPT ![r] = "failed"]
             /\ UNCHANGED <<links, listeners, tasks, answer, due>>
    BY <2>1, <2>2 DEF Post
  <2>3. CASE \E l : Add(l) /\ Answered(r, l)
    BY <1>1, <2>3
  <2> QED BY <2>1, <2>2, <2>3 DEF Post
<1>5. CASE \E r \in Deletes : Delete(r)
  <2>1. PICK r \in Deletes : Delete(r)
    BY <1>5
  <2>2. \A q \in Writers : q # r => status'[q] = status[q] /\ answer'[q] = answer[q]
    BY <2>1 DEF Delete, Answered
  <2>3. answer[r] = None
    BY <2>1 DEF Delete
  <2>4. answer'[r] = None \/ status'[r] = "done"
    BY <2>1, <2>3 DEF Delete, Answered
  <2> QED BY <2>2, <2>4
<1>6. CASE \E p \in Polls : ScheduleNull(p) \/ OnChange(p)
  BY <1>6 DEF ScheduleNull, OnChange
<1>7. CASE \E p \in Polls : TimeOut(p)
  BY <1>7 DEF TimeOut, SatisfyRequest
<1>8. CASE \E t \in tasks : RunTask(t)
  BY <1>8 DEF RunTask, SatisfyRequest
<1>9. CASE UNCHANGED vars
  BY <1>9 DEF vars
<1> QED BY <1>2, <1>3, <1>4, <1>5, <1>6, <1>7, <1>8, <1>9
        DEF Next, FindForPost, FindForDelete

LEMMA DeleteRemoves ==
  ASSUME Numeric = Ids, IInv, IInv', PollInv, AnswerInv, NEW r \in Deletes, Delete(r)
  PROVE  (\E id \in Ids : Table!Remove(r, id)) \/ UNCHANGED TableVars
<1>1. found[r].id \in Numeric /\ r \in Writers
  BY DEF Delete, IInv, WriterInv, Writers, Links
<1>2. PICK gone : gone = {l \in links : l.id = found[r].id}
  OBVIOUS
<1>3. links' = links \ gone
  BY <1>2 DEF Delete
<1>4. CASE gone = {}
  <2>1. UNCHANGED <<links, listeners, due, answer>>
    BY <1>2, <1>3, <1>4 DEF Delete
  <2> QED BY <2>1, SameTable DEF TableVars
<1>5. CASE gone # {}
  <2>1. PICK l \in links : l.id = found[r].id /\ Changed(l) /\ Answered(r, l) /\ UpdateListeners(l)
    BY <1>1, <1>2, <1>5 DEF Delete
  <2>2. l.id \in Ids /\ TableOf[l.id] = l /\ TableOf' = [TableOf EXCEPT ![l.id] = None]
    BY <1>2, <1>3, <2>1, TableRemove
  <2>3. Table!Tell(l)
    BY <2>1, ChangeTells DEF IInv
  <2>4. l # None
    BY ValuesAssumption DEF IInv, TypeOK
  <2>5. answer[r] = None
    BY <1>1 DEF AnswerInv, Delete
  <2> QED BY <2>1, <2>2, <2>3, <2>4, <2>5 DEF Answered, Table!Remove
<1> QED BY <1>4, <1>5

(* A call that the scheduler runs, or the timeout, answers the poll or finds  *)
(* it answered.                                                               *)
LEMMA PollAnswered ==
  ASSUME IInv, PollInv, NEW p \in Polls, NEW a, a = Null \/ a = due[p], a # None,
         SatisfyRequest(p, a), UNCHANGED <<links, listeners, due>>
  PROVE  Table!AnswerPoll(p) \/ UNCHANGED TableVars
<1>1. TableOf' = TableOf
  BY SameTable
<1>2. CASE answer[p] = None
  BY <1>1, <1>2 DEF SatisfyRequest, Table!AnswerPoll
<1>3. CASE answer[p] # None
  BY <1>1, <1>3 DEF SatisfyRequest, TableVars
<1> QED BY <1>2, <1>3

LEMMA TableStep ==
  ASSUME Numeric = Ids, IInv, PollInv, AnswerInv, [Next]_vars
  PROVE  Table!Next \/ UNCHANGED TableVars
<1>0. IInv'
  BY TypeStep, WriterStep DEF IInv
<1>1. CASE \E r \in Puts : Put(r)
  <2>1. PICK r \in Puts : Put(r)
    BY <1>1
  <2>2. PICK id \in Ids, o \in SUBSET Options :
          LET l == [id |-> id, options |-> o, by |-> r] IN Add(l) /\ Answered(r, l)
    BY <2>1 DEF Put
  <2>3. PICK l \in Links : l.by = r /\ Add(l) /\ Answered(r, l)
    BY <2>2 DEF Links
  <2>4. answer[r] = None
    BY <2>1 DEF Put, AnswerInv, Writers
  <2>5. Table!Write(l)
    BY <1>0, <2>3, <2>4, AddWrites
  <2> QED BY <2>5 DEF Table!Next
<1>2. CASE \E r \in Writers : Find(r)
  BY <1>2, SameTable DEF Find, TableVars
<1>3. CASE \E r \in Posts : Post(r)
  <2>1. PICK r \in Posts : Post(r)
    BY <1>3
  <2>2. CASE /\ status' = [status EXCEPT ![r] = "failed"]
             /\ UNCHANGED <<links, listeners, tasks, answer, due>>
    BY <2>2, SameTable DEF TableVars
  <2>3. CASE \E id \in Ids, o \in SUBSET Options :
          LET l == [id |-> id, options |-> found[r].options \cup o, by |-> r]
          IN Add(l) /\ Answered(r, l)
    <3>1. found[r].options \in SUBSET Options
      BY <2>1 DEF Post, IInv, WriterInv, Writers, Links
    <3>2. PICK l \in Links : l.by = r /\ Add(l) /\ Answered(r, l)
      BY <2>3, <3>1 DEF Links
    <3>3. answer[r] = None
      BY <2>1 DEF Post, AnswerInv, Writers
    <3>4. Table!Write(l)
      BY <1>0, <3>2, <3>3, AddWrites
    <3> QED BY <3>4 DEF Table!Next
  <2> QED BY <2>1, <2>2, <2>3 DEF Post
<1>4. CASE \E r \in Deletes : Delete(r)
  <2>1. PICK r \in Deletes : Delete(r)
    BY <1>4
  <2>2. (\E id \in Ids : Table!Remove(r, id)) \/ UNCHANGED TableVars
    BY <1>0, <2>1, DeleteRemoves
  <2> QED BY <2>2 DEF Table!Next, Writers
<1>5. CASE \E p \in Polls : ScheduleNull(p)
  BY <1>5, SameTable DEF ScheduleNull, TableVars
<1>6. CASE \E p \in Polls : OnChange(p)
  <2>1. PICK p \in Polls : OnChange(p)
    BY <1>6
  <2>2. p \notin listeners /\ due[p] = None
    BY <2>1 DEF OnChange, PollInv
  <2>3. Table!Wait(p)
    BY <2>1, <2>2, SameTable DEF OnChange, Table!Wait
  <2> QED BY <2>3 DEF Table!Next
<1>7. CASE \E p \in Polls : TimeOut(p)
  <2>1. PICK p \in Polls : TimeOut(p)
    BY <1>7
  <2>2. Table!AnswerPoll(p) \/ UNCHANGED TableVars
    BY <2>1, PollAnswered, ValuesAssumption DEF TimeOut
  <2> QED BY <2>2 DEF Table!Next
<1>8. CASE \E t \in tasks : RunTask(t)
  <2>1. PICK t \in tasks : RunTask(t)
    BY <1>8
  <2>2. t[1] \in Polls /\ t[2] \in Links /\ t[2] = due[t[1]]
    BY DEF IInv, TypeOK, PollInv
  <2>3. Table!AnswerPoll(t[1]) \/ UNCHANGED TableVars
    BY <2>1, <2>2, PollAnswered, ValuesAssumption DEF RunTask
  <2> QED BY <2>2, <2>3 DEF Table!Next
<1>9. CASE UNCHANGED vars
  BY <1>9, SameTable DEF vars, TableVars
<1> QED BY <1>1, <1>2, <1>3, <1>4, <1>5, <1>6, <1>7, <1>8, <1>9
        DEF Next, FindForPost, FindForDelete, Writers

(* ImplementsLinkTable: where every id is a number, the registry's requests   *)
(* look like single steps on a table with one link for an id: none is seen    *)
(* half done, whatever runs between its locked steps, and the scheduler's     *)
(* late calls say what was the first change when it happened.                 *)
THEOREM RegistryIsATable ==
  ASSUME Numeric = Ids
  PROVE  Spec => ImplementsLinkTable
<1>1. Init => PollInv /\ AnswerInv
  BY DEF Init, PollInv, FirstChangeAnswers, AnswerInv, Requests, Writers
<1>2. Init => Table!Init
  <2> SUFFICES ASSUME Init PROVE Table!Init
    OBVIOUS
  <2>1. TableOf = [n \in Ids |-> None]
    BY DEF Init, TableOf, LinksOf
  <2> QED BY <2>1 DEF Init, Table!Init, Requests
<1>3. IInv /\ PollInv /\ [Next]_vars => PollInv'
  BY PollStep
<1>4. IInv /\ AnswerInv /\ [Next]_vars => AnswerInv'
  BY AnswerStep DEF IInv
<1>5. IInv /\ PollInv /\ AnswerInv /\ [Next]_vars
      => [Table!Next]_<<TableOf, listeners, due, answer>>
  BY TableStep DEF TableVars
<1> QED BY <1>1, <1>2, <1>3, <1>4, <1>5, Inductive, PTL
        DEF Spec, ImplementsLinkTable, Table!Spec

(***************************************************************************)
(* The parser of the log.                                                  *)
(***************************************************************************)

(* What passes the filter, and what the end of a run appends. *)
LEMMA FilterType ==
  ASSUME NEW line \in Kinds \cup {"brief", "trace"}
  PROVE  Filter(line) \in Seq(Kinds)
<1>1. CASE line \in {"brief", "trace"}
  <2>1. Filter(line) = <<>>
    BY <1>1 DEF Filter
  <2> QED BY <2>1
<1>2. CASE line \notin {"brief", "trace"}
  <2>1. Filter(line) = <<line>> /\ line \in Kinds
    BY <1>2 DEF Filter
  <2> QED BY <2>1
<1> QED BY <1>1, <1>2

LEMMA SummaryLines ==
  ASSUME NEW n \in 0..2, errors \in BOOLEAN, warnings \in BOOLEAN
  PROVE  /\ [x \in 1..n |-> "note"] \in Seq(Kinds)
         /\ (IF warnings \/ n > 0 THEN <<"warnings">> ELSE <<>>) \in Seq(Kinds)
         /\ (IF errors THEN <<"errors">> ELSE <<>>) \in Seq(Kinds)
<1>1. [x \in 1..n |-> "note"] \in Seq(Kinds)
  BY DEF Kinds
<1>2. <<"warnings">> \in Seq(Kinds) /\ <<"errors">> \in Seq(Kinds) /\ <<>> \in Seq(Kinds)
  BY DEF Kinds
<1> QED BY <1>1, <1>2

LEMMA LogTypeInit == LogInit => LogTypeOK
<1> SUFFICES ASSUME LogInit PROVE LogTypeOK
  OBVIOUS
<1>1. kept \in Seq(Kinds)
  BY DEF LogInit
<1>2. shown \subseteq Nat /\ i \in Nat /\ notes \in 0..2
  BY DEF LogInit
<1>3. messages \in 0..MaxMessages /\ traces \in 0..MaxTraces
  BY BoundsAssumption DEF LogInit
<1> QED BY <1>1, <1>2, <1>3 DEF LogInit, LogTypeOK

LEMMA LogTypeStep == LogTypeOK /\ [LogNext]_logVars => LogTypeOK'
<1> SUFFICES ASSUME LogTypeOK, [LogNext]_logVars PROVE LogTypeOK'
  OBVIOUS
<1> USE BoundsAssumption DEF LogTypeOK
<1>1. CASE PrintTrace
  <2>1. Filter("trace") \in Seq(Kinds)
    BY FilterType
  <2> QED BY <1>1, <2>1, ConcatProperties DEF PrintTrace, parser
<1>2. CASE PrintMessage
  <2>1. PICK d \in 0..MaxDetails, s \in {"source", "brief"}, p \in {"pointer", "brief"} :
       /\ kept' = kept \o <<"header">> \o [x \in 1..d |-> "detail"] \o Filter(s) \o Filter(p)
       /\ regular' = (regular /\ d = 0 /\ s = "source" /\ p = "pointer")
    BY <1>2 DEF PrintMessage
  <2>2. kept' \in Seq(Kinds)
    <3>1. [x \in 1..d |-> "detail"] \in Seq(Kinds)
      BY DEF Kinds
    <3>2. Filter(s) \in Seq(Kinds) /\ Filter(p) \in Seq(Kinds)
      BY FilterType DEF Kinds
    <3>3. <<"header">> \in Seq(Kinds)
      BY DEF Kinds
    <3> QED BY <2>1, <3>1, <3>2, <3>3, ConcatProperties
  <2>3. errors' \in BOOLEAN /\ warnings' \in BOOLEAN
    BY <1>2 DEF PrintMessage
  <2> QED BY <1>2, <2>1, <2>2, <2>3 DEF PrintMessage, parser
<1>3. CASE Summarise
  <2>1. PICK n \in 0..2 :
       /\ notes' = n
       /\ kept' = kept \o [x \in 1..n |-> "note"]
                       \o (IF warnings \/ n > 0 THEN <<"warnings">> ELSE <<>>)
                       \o (IF errors THEN <<"errors">> ELSE <<>>)
    BY <1>3 DEF Summarise
  <2>2. kept' \in Seq(Kinds)
    BY <2>1, SummaryLines, ConcatProperties
  <2> QED BY <1>3, <2>1, <2>2 DEF Summarise, parser
<1>4. CASE Abort
  <2>1. \A d \in 1..2 : [x \in 1..d |-> "detail"] \in Seq(Kinds)
    BY DEF Kinds
  <2>2. PICK d \in 1..2 : kept' = kept \o [x \in 1..d |-> "detail"]
    BY <1>4 DEF Abort
  <2>3. kept' \in Seq(Kinds)
    BY <2>1, <2>2, ConcatProperties
  <2> QED BY <1>4, <2>3 DEF Abort, parser
<1>5. CASE Judge
  BY <1>5 DEF Judge, printed
<1>6. CASE ShowLine
  BY <1>6 DEF ShowLine, printed
<1>7. CASE Throw
  BY <1>7 DEF Throw, printed, parser
<1>8. CASE UNCHANGED logVars
  BY <1>8 DEF logVars, printed, parser
<1> QED BY <1>1, <1>2, <1>3, <1>4, <1>5, <1>6, <1>7, <1>8 DEF LogNext

THEOREM LogTypeCorrect == LogSpec => []LogTypeOK
BY LogTypeInit, LogTypeStep, PTL DEF LogSpec

-----------------------------------------------------------------------------
(* A regular log is made of triples and an ending. *)
LEMMA RegularStep ==
  ASSUME LogTypeOK, RegularInv, [LogNext]_logVars
  PROVE  RegularInv'
<1> USE BoundsAssumption DEF LogTypeOK
<1>1. CASE PrintTrace
  <2>1. kept' = kept
    BY <1>1, ConcatEmptySeq DEF PrintTrace, Filter
  <2> QED BY <1>1, <2>1 DEF PrintTrace, RegularInv, Triples, Ending, After, parser
<1>2. CASE PrintMessage
  <2> SUFFICES ASSUME regular' PROVE RegularInv'
    BY DEF RegularInv
  <2>1. PICK d \in 0..MaxDetails, s \in {"source", "brief"}, p \in {"pointer", "brief"} :
       /\ kept' = kept \o <<"header">> \o [x \in 1..d |-> "detail"] \o Filter(s) \o Filter(p)
       /\ regular' = (regular /\ d = 0 /\ s = "source" /\ p = "pointer")
    BY <1>2 DEF PrintMessage
  <2>2. regular /\ d = 0 /\ s = "source" /\ p = "pointer"
    BY <2>1
  <2>3. [x \in 1..d |-> "detail"] = <<>>
    BY <2>2
  <2>4. kept' = kept \o <<"header", "source", "pointer">>
    <3>1. kept' = kept \o <<"header">> \o <<>> \o <<"source">> \o <<"pointer">>
      BY <2>1, <2>2, <2>3 DEF Filter
    <3> QED BY <3>1
  <2>5. /\ Len(kept) = 3 * messages /\ notes = 0 /\ Triples /\ phase = "printing"
        /\ messages' = messages + 1 /\ phase' = phase /\ notes' = notes
    BY <1>2, <2>2 DEF PrintMessage, RegularInv
  <2>6. Len(kept') = 3 * messages'
    BY <2>4, <2>5
  <2>7. ASSUME NEW m \in 0..(messages' - 1)
        PROVE  /\ kept'[3 * m + 1] = "header" /\ kept'[3 * m + 2] = "source"
               /\ kept'[3 * m + 3] = "pointer"
    <3>1. CASE m = messages
      BY <2>4, <2>5, <3>1
    <3>2. CASE m # messages
      <4>1. m \in 0..(messages - 1) /\ 3 * m + 3 <= Len(kept)
        BY <2>5, <3>2
      <4>2. \A k \in 1..Len(kept) : kept'[k] = kept[k]
        BY <2>4
      <4> QED BY <2>5, <4>1, <4>2 DEF Triples
    <3> QED BY <3>1, <3>2
  <2>8. Triples'
    BY <2>6, <2>7 DEF Triples
  <2> QED BY <2>5, <2>6, <2>8 DEF RegularInv
<1>3. CASE Summarise
  <2> SUFFICES ASSUME regular' PROVE RegularInv'
    BY DEF RegularInv
  <2>1. PICK n \in 0..2 :
       /\ notes' = n
       /\ kept' = kept \o [x \in 1..n |-> "note"]
                       \o (IF warnings \/ n > 0 THEN <<"warnings">> ELSE <<>>)
                       \o (IF errors THEN <<"errors">> ELSE <<>>)
    BY <1>3 DEF Summarise
  <2>2. /\ regular /\ Len(kept) = 3 * messages /\ Triples /\ phase = "printing"
        /\ phase' = "printed" /\ messages' = messages
        /\ errors' = errors /\ warnings' = warnings
    BY <1>3 DEF Summarise, RegularInv
  <2> DEFINE N == [x \in 1..n |-> "note"]
             W == IF warnings \/ n > 0 THEN <<"warnings">> ELSE <<>>
             E == IF errors THEN <<"errors">> ELSE <<>>
             w == IF warnings \/ n > 0 THEN 1 ELSE 0
             e == IF errors THEN 1 ELSE 0
  <2>3. /\ N \in Seq(Kinds) /\ Len(N) = n /\ \A x \in 1..n : N[x] = "note"
        /\ W \in Seq(Kinds) /\ Len(W) = w /\ (w = 1 => W[1] = "warnings")
        /\ E \in Seq(Kinds) /\ Len(E) = e /\ (e = 1 => E[1] = "errors")
    BY SummaryLines
  <2>4. kept' = ((kept \o N) \o W) \o E
    BY <2>1
  <2>w. w \in {0, 1} /\ e \in {0, 1} /\ (warnings \/ n > 0 <=> w = 1) /\ (errors <=> e = 1)
    OBVIOUS
  <2> HIDE DEF N, W, E, w, e
  <2>5. /\ kept \o N \in Seq(Kinds) /\ Len(kept \o N) = Len(kept) + n
        /\ \A k \in 1..Len(kept) : (kept \o N)[k] = kept[k]
        /\ \A x \in 1..n : (kept \o N)[Len(kept) + x] = "note"
    BY <2>3, ConcatProperties
  <2> DEFINE K == kept \o N
             L == K \o W
  <2> HIDE DEF K
  <2>6. /\ L \in Seq(Kinds) /\ Len(L) = Len(K) + w
        /\ \A k \in 1..Len(K) : L[k] = K[k]
        /\ w = 1 => L[Len(K) + 1] = "warnings"
    BY <2>3, <2>5, <2>w, ConcatProperties DEF K
  <2> HIDE DEF L
  <2>k. kept' = L \o E
    BY <2>4 DEF K, L
  <2>7. /\ Len(kept') = Len(L) + e
        /\ \A k \in 1..Len(L) : kept'[k] = L[k]
        /\ e = 1 => kept'[Len(L) + 1] = "errors"
    BY <2>k, <2>3, <2>6, <2>w, ConcatProperties
  <2>l. Len(K) = 3 * messages + n /\ Len(L) = 3 * messages + n + w
    BY <2>2, <2>5, <2>6, <2>w DEF K
  <2>m. \A k \in 1..Len(K) : kept'[k] = K[k]
    BY <2>l, <2>6, <2>7, <2>w
  <2>8. /\ Len(kept') = 3 * messages + n + w + e
        /\ \A k \in 1..Len(kept) : kept'[k] = kept[k]
        /\ \A x \in 1..n : kept'[3 * messages + x] = "note"
        /\ w = 1 => kept'[3 * messages + n + 1] = "warnings"
        /\ e = 1 => kept'[Len(kept')] = "errors"
    <3>1. Len(kept') = 3 * messages + n + w + e
      BY <2>7, <2>l
    <3>2. \A k \in 1..Len(kept) : kept'[k] = kept[k]
      BY <2>2, <2>5, <2>l, <2>m DEF K
    <3>3. \A x \in 1..n : kept'[3 * messages + x] = "note"
      <4> TAKE x \in 1..n
      <4>1. K[Len(kept) + x] = "note"
        BY <2>5 DEF K
      <4>2. Len(kept) + x \in 1..Len(K) /\ Len(kept) + x = 3 * messages + x
        BY <2>2, <2>l
      <4> QED BY <4>1, <4>2, <2>m
    <3>4. w = 1 => kept'[3 * messages + n + 1] = "warnings"
      BY <2>6, <2>7, <2>l
    <3>5. e = 1 => kept'[Len(kept')] = "errors"
      BY <2>7, <2>l
    <3> QED BY <3>1, <3>2, <3>3, <3>4, <3>5
  <2>9. Triples'
    BY <2>2, <2>8, <2>w DEF Triples
  <2>10. Ending'
    <3>1. \A k \in (3 * messages + 1)..(3 * messages + n) : kept'[k] = "note"
      <4> TAKE k \in (3 * messages + 1)..(3 * messages + n)
      <4>1. k - 3 * messages \in 1..n /\ 3 * messages + (k - 3 * messages) = k
        OBVIOUS
      <4> QED BY <2>8, <4>1
    <3>2. /\ w = IF warnings' \/ notes' > 0 THEN 1 ELSE 0
          /\ e = IF errors' THEN 1 ELSE 0
          /\ notes' = n
      BY <2>1, <2>2, <2>w DEF w, e
    <3>3. Len(kept') = 3 * messages' + notes' + (IF warnings' \/ notes' > 0 THEN 1 ELSE 0)
                         + (IF errors' THEN 1 ELSE 0)
      BY <2>2, <2>8, <3>2
    <3>4. warnings' \/ notes' > 0 => kept'[3 * messages' + 1 + notes'] = "warnings"
      BY <2>2, <2>8, <3>2
    <3>5. errors' => kept'[Len(kept')] = "errors"
      BY <2>8, <3>2
    <3> QED BY <2>2, <3>1, <3>2, <3>3, <3>4, <3>5 DEF Ending, After
  <2> QED BY <2>2, <2>9, <2>10 DEF RegularInv
<1>4. CASE Abort
  BY <1>4 DEF Abort, RegularInv
<1>5. CASE Judge
  BY <1>5 DEF Judge, RegularInv, Triples, Ending, After, printed
<1>6. CASE ShowLine
  BY <1>6 DEF ShowLine, RegularInv, Triples, Ending, After, printed
<1>7. CASE Throw
  BY <1>7 DEF Throw, RegularInv, Triples, Ending, After, printed, parser
<1>8. CASE UNCHANGED logVars
  BY <1>8 DEF logVars, RegularInv, Triples, Ending, After, printed, parser
<1> QED BY <1>1, <1>2, <1>3, <1>4, <1>5, <1>6, <1>7, <1>8 DEF LogNext

-----------------------------------------------------------------------------
(* The last line tells the verdict. *)
LEMMA SummaryStep ==
  ASSUME LogTypeOK, SummaryInv, [LogNext]_logVars
  PROVE  SummaryInv'
<1> USE BoundsAssumption DEF LogTypeOK
<1> DEFINE Plain == Kinds \ {"errors"}
<1>1. CASE PrintTrace
  <2>1. kept' = kept
    BY <1>1, ConcatEmptySeq DEF PrintTrace, Filter
  <2> QED BY <1>1, <2>1 DEF PrintTrace, SummaryInv, parser
<1>2. CASE PrintMessage
  <2>1. PICK d \in 0..MaxDetails, s \in {"source", "brief"}, p \in {"pointer", "brief"} :
          kept' = kept \o <<"header">> \o [x \in 1..d |-> "detail"] \o Filter(s) \o Filter(p)
    BY <1>2 DEF PrintMessage
  <2>2. kept \in Seq(Plain) /\ [x \in 1..d |-> "detail"] \in Seq(Plain)
    BY <1>2 DEF PrintMessage, SummaryInv, Kinds
  <2>3. <<"header">> \in Seq(Plain) /\ <<"source">> \in Seq(Plain)
        /\ <<"pointer">> \in Seq(Plain) /\ <<>> \in Seq(Plain)
    BY DEF Kinds
  <2>4. Filter(s) \in Seq(Plain) /\ Filter(p) \in Seq(Plain)
    BY <2>3 DEF Filter
  <2> HIDE DEF Plain
  <2>5. kept' \in Seq(Plain)
    BY <2>1, <2>2, <2>3, <2>4, ConcatProperties
  <2>6. messages' # 0 /\ (errors' \/ warnings') /\ phase' = "printing"
    BY <1>2 DEF PrintMessage
  <2> QED BY <2>5, <2>6 DEF SummaryInv, Plain
<1>3. CASE Summarise
  <2>1. PICK n \in 0..2 :
          kept' = kept \o [x \in 1..n |-> "note"]
                       \o (IF warnings \/ n > 0 THEN <<"warnings">> ELSE <<>>)
                       \o (IF errors THEN <<"errors">> ELSE <<>>)
    BY <1>3 DEF Summarise
  <2> DEFINE L == kept \o [x \in 1..n |-> "note"]
                       \o (IF warnings \/ n > 0 THEN <<"warnings">> ELSE <<>>)
  <2>2. <<"warnings">> \in Seq(Plain) /\ <<>> \in Seq(Plain)
        /\ [x \in 1..n |-> "note"] \in Seq(Plain) /\ kept \in Seq(Plain)
    BY <1>3 DEF Summarise, SummaryInv, Kinds
  <2> HIDE DEF Plain
  <2>3. (IF warnings \/ n > 0 THEN <<"warnings">> ELSE <<>>) \in Seq(Plain)
    BY <2>2
  <2>4. L \in Seq(Plain)
    BY <2>2, <2>3, ConcatProperties
  <2>5. kept' = L \o (IF errors THEN <<"errors">> ELSE <<>>)
    BY <2>1
  <2> HIDE DEF L
  <2>6. errors => kept' # <<>> /\ kept'[Len(kept')] = "errors"
    BY <2>4, <2>5
  <2>7. ~errors /\ kept' # <<>> => kept'[Len(kept')] # "errors"
    <3> SUFFICES ASSUME ~errors, kept' # <<>> PROVE kept'[Len(kept')] # "errors"
      OBVIOUS
    <3>1. kept' = L
      BY <2>4, <2>5, ConcatEmptySeq
    <3>2. L[Len(L)] \in Plain
      BY <2>4, <3>1, EmptySeq, ElementOfSeq, LenProperties
    <3> QED BY <3>1, <3>2 DEF Plain
  <2> QED BY <1>3, <2>6, <2>7 DEF Summarise, SummaryInv, parser
<1>4. CASE Abort
  <2>1. PICK d \in 1..2 : kept' = kept \o [x \in 1..d |-> "detail"]
    BY <1>4 DEF Abort
  <2>2. [x \in 1..d |-> "detail"] \in Seq(Kinds) /\ Len([x \in 1..d |-> "detail"]) = d
    BY DEF Kinds
  <2>3. kept'[Len(kept')] = "detail"
    BY <2>1, <2>2, ConcatProperties
  <2> QED BY <1>4, <2>3 DEF Abort, SummaryInv, parser
<1>5. CASE Judge
  BY <1>5 DEF Judge, SummaryInv, printed
<1>6. CASE ShowLine
  BY <1>6 DEF ShowLine, SummaryInv, printed
<1>7. CASE Throw
  BY <1>7 DEF Throw, SummaryInv, printed
<1>8. CASE UNCHANGED logVars
  BY <1>8 DEF logVars, SummaryInv, printed, parser
<1> QED BY <1>1, <1>2, <1>3, <1>4, <1>5, <1>6, <1>7, <1>8 DEF LogNext

(* The loop passes the lines one by one and stays inside the log. *)
LEMMA LoopStep ==
  ASSUME LogTypeOK, LoopInv, [LogNext]_logVars
  PROVE  LoopInv'
<1> USE BoundsAssumption DEF LogTypeOK, LoopInv
<1>1. CASE PrintTrace \/ PrintMessage
  BY <1>1 DEF PrintTrace, PrintMessage, parser
<1>2. CASE Summarise \/ Abort
  BY <1>2 DEF Summarise, Abort, parser
<1>3. CASE Judge
  BY <1>3 DEF Judge, printed
<1>4. CASE ShowLine
  <2>1. phase = "looping" /\ i < Len(kept) /\ kept' = kept /\ i' = i + 1
        /\ phase' = IF i = Len(kept) - 1 THEN "done" ELSE "looping"
    BY <1>4 DEF ShowLine, Last, printed
  <2>2. shown' = IF i % 3 # 2 THEN shown \cup {i} ELSE shown
    BY <1>4 DEF ShowLine
  <2>3. 0..(i' - 1) = (0..(i - 1)) \cup {i}
    BY <2>1
  <2>4. shown' = {k \in 0..(i' - 1) : k % 3 # 2}
    BY <2>2, <2>3
  <2> QED BY <2>1, <2>4
<1>5. CASE Throw
  BY <1>5 DEF Throw, printed, parser
<1>6. CASE UNCHANGED logVars
  BY <1>6 DEF logVars, printed, parser
<1> QED BY <1>1, <1>2, <1>3, <1>4, <1>5, <1>6 DEF LogNext

LEMMA LogInductive == LogSpec => [](LogTypeOK /\ RegularInv /\ SummaryInv /\ LoopInv)
<1>1. LogInit => RegularInv /\ LoopInv
  BY DEF LogInit, RegularInv, LoopInv, Triples
<1>2. LogInit => SummaryInv
  <2> SUFFICES ASSUME LogInit PROVE SummaryInv
    OBVIOUS
  <2>1. kept \in Seq(Kinds \ {"errors"})
    BY DEF LogInit
  <2> QED BY <2>1 DEF LogInit, SummaryInv
<1> QED BY <1>1, <1>2, LogTypeInit, LogTypeStep, RegularStep, SummaryStep, LoopStep, PTL DEF LogSpec

-----------------------------------------------------------------------------
(* In a tame log, no place of the loop throws. *)
LEMMA TameShows ==
  ASSUME LogTypeOK, RegularInv, LoopInv, Tame, phase = "looping"
  PROVE  "throws" \notin Outcome(i)
<1> USE BoundsAssumption DEF LogTypeOK
<1>1. /\ i \in Nat /\ i < Len(kept) /\ messages \in Nat /\ notes \in 0..2
      /\ Triples /\ Ending
  BY DEF LoopInv, Tame, RegularInv
<1>2. CASE i < 3 * messages
  <2>1. PICK m \in 0..(messages - 1) : i \in {3 * m, 3 * m + 1, 3 * m + 2}
    <3>1. i \div 3 \in 0..(messages - 1)
          /\ i \in {3 * (i \div 3), 3 * (i \div 3) + 1, 3 * (i \div 3) + 2}
      BY <1>1, <1>2
    <3> QED BY <3>1
  <2>2. kept[3 * m + 1] = "header" /\ kept[3 * m + 2] = "source" /\ kept[3 * m + 3] = "pointer"
    BY <1>1 DEF Triples
  <2>3. CASE i = 3 * m
    <3>1. i % 3 = 0 /\ Line(i) = "header"
      BY <2>2, <2>3 DEF Line
    <3> QED BY <3>1 DEF Outcome, Capitalise
  <2>4. CASE i = 3 * m + 1
    <3>1. i % 3 = 1 /\ Line(i) = "source" /\ Line(i + 1) = "pointer"
      BY <2>2, <2>4 DEF Line
    <3> QED BY <3>1 DEF Outcome, Underline
  <2>5. CASE i = 3 * m + 2
    <3>1. i % 3 = 2
      BY <2>5
    <3> QED BY <3>1 DEF Outcome
  <2> QED BY <2>1, <2>3, <2>4, <2>5
<1>3. CASE i >= 3 * messages
  <2>1. CASE i < 3 * messages + notes
    <3>1. Line(i) = "note"
      BY <1>1, <1>3, <2>1 DEF Ending, After, Line
    <3> QED BY <3>1 DEF Outcome, Free
  <2>2. CASE i >= 3 * messages + notes /\ ~Last(i)
    <3>1. i = 3 * messages + notes /\ errors /\ (warnings \/ notes > 0)
      BY <1>1, <1>3, <2>2 DEF Ending, Last
    <3>2. Line(i) = "warnings"
      BY <1>1, <3>1 DEF Ending, After, Line
    <3>3. notes = 0 \/ notes = 2
      BY <1>1, <3>1 DEF Tame
    <3>4. i % 3 = 0 \/ i % 3 = 2
      BY <1>1, <3>1, <3>3
    <3> QED BY <3>2, <3>4 DEF Outcome, Capitalise
  <2>3. CASE Last(i)
    BY <2>3 DEF Outcome, Free
  <2> QED BY <2>1, <2>2, <2>3, <1>1
<1> QED BY <1>1, <1>2, <1>3

(* Logs whose messages are three lines each are parsed to the end, however  *)
(* many messages there are.  The induction is over the parser's steps: at   *)
(* each, Triples and Ending say what stands at its place.                   *)
THEOREM TameLogsNeverThrow == LogSpec => []TameLogsAreParsed
<1>1. LogInit => TameLogsAreParsed
  BY DEF LogInit, TameLogsAreParsed
<1>2. LogTypeOK /\ RegularInv /\ LoopInv /\ TameLogsAreParsed /\ [LogNext]_logVars
      => TameLogsAreParsed'
  <2> SUFFICES ASSUME LogTypeOK, RegularInv, LoopInv, TameLogsAreParsed, [LogNext]_logVars
               PROVE  TameLogsAreParsed'
    OBVIOUS
  <2>1. CASE PrintTrace \/ PrintMessage \/ Summarise \/ Abort
    BY <2>1 DEF PrintTrace, PrintMessage, Summarise, Abort, TameLogsAreParsed
  <2>2. CASE Judge \/ ShowLine
    BY <2>2 DEF Judge, ShowLine, TameLogsAreParsed
  <2>3. CASE Throw
    <3>1. ~Tame
      BY <2>3, TameShows DEF Throw
    <3> QED BY <2>3, <3>1 DEF Throw, Tame, TameLogsAreParsed, printed
  <2>4. CASE UNCHANGED logVars
    BY <2>4 DEF logVars, Tame, TameLogsAreParsed, printed
  <2> QED BY <2>1, <2>2, <2>3, <2>4 DEF LogNext
<1> QED BY <1>1, <1>2, LogInductive, PTL DEF LogSpec

(* The verdict is failure exactly if scalac reported an error. *)
THEOREM VerdictFollowsScalac == LogSpec => []VerdictIsScalacs
<1>1. SummaryInv => VerdictIsScalacs
  BY DEF SummaryInv, VerdictIsScalacs
<1> QED BY <1>1, LogInductive, PTL

(* A tame log shows every head and source line, no caret, and its summary.  *)
THEOREM TameLogsShowMessages == LogSpec => []TameLogsAreShown
<1>1. LogTypeOK /\ RegularInv /\ SummaryInv /\ LoopInv => TameLogsAreShown
  <2> SUFFICES ASSUME LogTypeOK, RegularInv, SummaryInv, LoopInv, Tame, phase = "done", messages > 0
               PROVE  /\ \A k \in 0..(3 * messages - 1) : k \in shown <=> Line(k) # "pointer"
                      /\ notes < 2 => Len(kept) - 1 \in shown
    BY DEF TameLogsAreShown
  <2> USE BoundsAssumption DEF LogTypeOK
  <2>1. /\ messages \in Nat /\ notes \in 0..2 /\ Triples /\ Ending
        /\ errors \/ warnings
    BY DEF Tame, RegularInv, SummaryInv
  <2>2. Len(kept) > 3 * messages /\ Len(kept) \in Nat
    BY <2>1 DEF Ending
  <2>3. shown = {k \in 0..(Len(kept) - 1) : k % 3 # 2}
    BY <2>1, <2>2 DEF LoopInv
  <2>4. ASSUME NEW k \in 0..(3 * messages - 1)
        PROVE  k \in shown <=> Line(k) # "pointer"
    <3>1. PICK m \in 0..(messages - 1) : k \in {3 * m, 3 * m + 1, 3 * m + 2}
      <4>1. k \div 3 \in 0..(messages - 1)
            /\ k \in {3 * (k \div 3), 3 * (k \div 3) + 1, 3 * (k \div 3) + 2}
        BY <2>1
      <4> QED BY <4>1
    <3>2. Line(k) = "pointer" <=> k = 3 * m + 2
      <4>1. kept[3 * m + 1] = "header" /\ kept[3 * m + 2] = "source" /\ kept[3 * m + 3] = "pointer"
        BY <2>1 DEF Triples
      <4>2. k = 3 * m => Line(k) = "header"
        BY <4>1 DEF Line
      <4>3. k = 3 * m + 1 => Line(k) = "source"
        BY <4>1, 3 * m + 1 + 1 = 3 * m + 2 DEF Line
      <4>4. k = 3 * m + 2 => Line(k) = "pointer"
        BY <4>1, 3 * m + 2 + 1 = 3 * m + 3 DEF Line
      <4> QED BY <3>1, <4>2, <4>3, <4>4
    <3>3. k % 3 = 2 <=> k = 3 * m + 2
      BY <3>1
    <3> QED BY <2>1, <2>2, <2>3, <3>2, <3>3
  <2>5. ASSUME notes < 2 PROVE Len(kept) - 1 \in shown
    <3>1. Len(kept) - 1 \in {3 * messages, 3 * messages + 1}
      BY <2>1, <2>5 DEF Ending, Tame
    <3>2. (Len(kept) - 1) % 3 # 2
      BY <2>1, <3>1
    <3> QED BY <2>1, <2>2, <2>3, <3>2
  <2> QED BY <2>4, <2>5
<1> QED BY <1>1, LogInductive, PTL
=============================================================================
