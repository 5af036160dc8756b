------------------------ MODULE ScopeInteraction_proofs ------------------------
(***************************************************************************)
(* What holds of interactions and live polling for any set of browsers and *)
(* any number of requests, connections and waveform sources.               *)
(***************************************************************************)
EXTENDS ScopeInteraction, TLAPS, FiniteSetTheorems, SequenceTheorems

-----------------------------------------------------------------------------
(* The inductive invariant.                                                *)

Scheduled == {"writing", "readback"}
Accepted  == {"queued", "pausing", "preparing"} \cup Scheduled
Unwritten == {"queued", "pausing", "preparing", "writing"}
Entry     == Operation \cup {LiveRead}

\* A request is counted once it is sent; one that was accepted and is not
\* answered belongs to this connection; only controls wait in the queue of
\* controls, and only a request that needs it prepares the scope.
Ledger ==
  \A r \in Requests :
    /\ r > issued => status[r] = "unsent"
    /\ status[r] \in Accepted => request[r].conn = conn
    /\ status[r] = "queued" => request[r].kind = "control"
    /\ status[r] = "preparing" => request[r].prepares

\* Without a session nothing is scheduled.
Gone ==
  ~up => /\ queue = <<>> /\ op = NoOp /\ ~wanted
         /\ \A r \in Requests : status[r] \notin Scheduled

\* The polling loop of a session is alive, or knows why not: what it is asked
\* for while it waits for the poll delay is not forgotten.
Polls ==
  up => /\ wanted
        /\ paused => owner # None \/ ControlExecuting
        /\ ~paused /\ acquirable => loop # "idle"
        /\ ~paused /\ loop = "delay" => fresh

\* A scheduled operation is that of the requests that await it, which changed
\* the same control; only movements are overtaken by another value.
Fits(o, st, rq) ==
  /\ o.reqs \subseteq Requests
  /\ o.kind \notin {"write", "readback"} => o.reqs = {}
  /\ o.kind \in {"write", "readback"} =>
       /\ o.val \in o.reqs
       /\ rq[o.val].kind = o.prio
       /\ \A r \in o.reqs :
            /\ st[r] = IF o.kind = "write" THEN "writing" ELSE "readback"
            /\ rq[r].key = o.key
            /\ rq[r].kind = "update" \/ r = o.val

IsMovement(o) == o.kind = "write" /\ o.prio = "update"

\* Two operations that are scheduled at once answer different requests, and at
\* most one is the movement of a control.
Separate(o, p) ==
  /\ o.reqs \cap p.reqs = {}
  /\ IsMovement(o) /\ IsMovement(p) => o.key # p.key

\* The work of the scheduler, with its queue q and its operation o, for the
\* requests rq with status st.
Work(q, o, st, rq) ==
  /\ Fits(o, st, rq)
  /\ \A i \in DOMAIN q : Fits(q[i], st, rq) /\ q[i].reqs \cap o.reqs = {}
  /\ \A i, j \in DOMAIN q : i # j => Separate(q[i], q[j])

IsControl(r) == request[r].kind = "control"

\* While a control executes, the others wait and are younger.
OneControl ==
  \A r, s \in 1 .. issued :
    /\ IsControl(r) /\ Executing(r)
    /\ IsControl(s) /\ (Executing(s) \/ status[s] = "queued")
    /\ r # s
    => status[s] = "queued" /\ r < s

\* The control whose value the scope has is older than those not yet written.
ScopeIsBehind ==
  \A k \in Keys :
    /\ scope[k] <= issued
    /\ scope[k] # 0 /\ IsControl(scope[k]) =>
         \A s \in 1 .. issued :
           IsControl(s) /\ status[s] \in Unwritten => scope[k] < s

IInv ==
  /\ TypeOK /\ Ledger /\ Gone /\ Polls
  /\ Work(queue, op, status, request)
  /\ OneControl /\ ScopeIsBehind

-----------------------------------------------------------------------------
(* Sequences and operations.                                               *)

LEMMA AppendIs ==
  ASSUME NEW S, NEW q \in Seq(S), NEW e \in S
  PROVE  /\ Append(q, e) \in Seq(S)
         /\ DOMAIN q = 1 .. Len(q) /\ Len(q) \in Nat
         /\ DOMAIN Append(q, e) = 1 .. Len(q) + 1
         /\ \A i \in 1 .. Len(q) + 1 : Append(q, e)[i] = IF i <= Len(q) THEN q[i] ELSE e
  OBVIOUS

LEMMA RemoveAtIs ==
  ASSUME NEW S, NEW q \in Seq(S), NEW k \in DOMAIN q
  PROVE  /\ RemoveAt(q, k) \in Seq(S)
         /\ DOMAIN q = 1 .. Len(q) /\ Len(q) \in Nat
         /\ DOMAIN RemoveAt(q, k) = 1 .. Len(q) - 1
         /\ \A i \in 1 .. Len(q) - 1 : RemoveAt(q, k)[i] = IF i < k THEN q[i] ELSE q[i + 1]
<1> DEFINE a == SubSeq(q, 1, k - 1)
           b == SubSeq(q, k + 1, Len(q))
<1>1. Len(q) \in Nat /\ DOMAIN q = 1 .. Len(q) /\ k \in 1 .. Len(q)
      /\ q \in [1 .. Len(q) -> S]
  BY LenProperties
<1>2. /\ a \in Seq(S) /\ Len(a) = k - 1
      /\ \A i \in 1 .. k - 1 : a[i] = q[i]
  <2>1. \A i \in 1 .. k - 1 : q[i] \in S
    BY <1>1
  <2>2. /\ SubSeq(q, 1, k - 1) \in Seq(S)
        /\ Len(SubSeq(q, 1, k - 1)) = IF 1 <= k - 1 THEN k - 1 - 1 + 1 ELSE 0
        /\ \A i \in 1 .. k - 1 - 1 + 1 : SubSeq(q, 1, k - 1)[i] = q[1 + i - 1]
    BY <1>1, <2>1, SubSeqProperties
  <2> QED
    BY <1>1, <2>2
<1>3. /\ b \in Seq(S) /\ Len(b) = Len(q) - k
      /\ \A i \in 1 .. Len(q) - k : b[i] = q[k + i]
  <2>1. \A i \in k + 1 .. Len(q) : q[i] \in S
    BY <1>1
  <2>2. /\ SubSeq(q, k + 1, Len(q)) \in Seq(S)
        /\ Len(SubSeq(q, k + 1, Len(q))) = IF k + 1 <= Len(q) THEN Len(q) - (k + 1) + 1 ELSE 0
        /\ \A i \in 1 .. Len(q) - (k + 1) + 1 :
             SubSeq(q, k + 1, Len(q))[i] = q[k + 1 + i - 1]
    BY <1>1, <2>1, SubSeqProperties
  <2> QED
    BY <1>1, <2>2
<1>4. RemoveAt(q, k) = a \o b
  BY DEF RemoveAt
<1> HIDE DEF a, b
<1>5. /\ a \o b \in Seq(S) /\ Len(a \o b) = Len(a) + Len(b)
      /\ \A i \in 1 .. Len(a) + Len(b) :
           (a \o b)[i] = IF i <= Len(a) THEN a[i] ELSE b[i - Len(a)]
  BY <1>2, <1>3, ConcatProperties
<1>6. Len(a) = k - 1 /\ Len(b) = Len(q) - k /\ Len(a) + Len(b) = Len(q) - 1
  BY <1>1, <1>2, <1>3
<1>7. DOMAIN (a \o b) = 1 .. Len(q) - 1
  <2>1. \A c \in Seq(S) : DOMAIN c = 1 .. Len(c)
    BY LenProperties
  <2> QED
    BY <1>5, <1>6, <2>1
<1>8. ASSUME NEW i \in 1 .. Len(q) - 1
      PROVE  (a \o b)[i] = IF i < k THEN q[i] ELSE q[i + 1]
  <2>0. (a \o b)[i] = IF i <= k - 1 THEN a[i] ELSE b[i - (k - 1)]
    BY <1>5, <1>6
  <2>1. CASE i < k
    <3>1. i <= k - 1 /\ i \in 1 .. k - 1
      BY <1>1, <2>1
    <3>2. a[i] = q[i]
      BY <1>2, <3>1
    <3> QED
      BY <2>0, <2>1, <3>1, <3>2
  <2>2. CASE ~(i < k)
    <3>1. ~(i <= k - 1) /\ i - (k - 1) \in 1 .. Len(q) - k /\ k + (i - (k - 1)) = i + 1
      BY <1>1, <2>2
    <3>2. b[i - (k - 1)] = q[k + (i - (k - 1))]
      BY <1>3, <3>1
    <3> QED
      BY <2>0, <2>2, <3>1, <3>2
  <2> QED
    BY <2>1, <2>2
<1> QED
  BY <1>1, <1>4, <1>5, <1>7, <1>8

LEMMA OperationFields ==
  /\ LiveRead.kind = "live" /\ LiveRead.reqs = {} /\ LiveRead.prio = "live"
  /\ NoOp.kind = None /\ NoOp.reqs = {}
  /\ \A o \in Operation :
       o.kind \in {"write", "readback"} /\ o.prio \in AllKinds /\ o.key \in AllKeys
       /\ o.val \in Requests /\ o.reqs \subseteq Requests
BY DEF LiveRead, NoOp, Operation, None
-----------------------------------------------------------------------------
(* The work of the scheduler.                                              *)

\* Only the status of scheduled requests matters.
LEMMA FitsFrame ==
  ASSUME NEW o, NEW st, NEW rq, NEW st2, NEW rq2, Fits(o, st, rq),
         \A r \in o.reqs : st2[r] = st[r] /\ rq2[r] = rq[r]
  PROVE  Fits(o, st2, rq2)
BY DEF Fits

LEMMA FitsScheduled ==
  ASSUME NEW o, NEW st, NEW rq, Fits(o, st, rq), NEW r \in o.reqs
  PROVE  r \in Requests /\ st[r] \in Scheduled
BY DEF Fits, Scheduled

LEMMA WorkFrame ==
  ASSUME NEW q, NEW o, NEW st, NEW rq, NEW st2, NEW rq2, Work(q, o, st, rq),
         \A r \in Requests : st[r] \in Scheduled => st2[r] = st[r] /\ rq2[r] = rq[r]
  PROVE  Work(q, o, st2, rq2)
<1>1. Fits(o, st2, rq2)
  <2>1. Fits(o, st, rq)
    BY DEF Work
  <2>2. \A r \in o.reqs : st2[r] = st[r] /\ rq2[r] = rq[r]
    BY <2>1, FitsScheduled
  <2> QED
    BY <2>1, <2>2, FitsFrame
<1>2. ASSUME NEW i \in DOMAIN q PROVE Fits(q[i], st2, rq2)
  <2>1. Fits(q[i], st, rq)
    BY DEF Work
  <2>2. \A r \in q[i].reqs : st2[r] = st[r] /\ rq2[r] = rq[r]
    BY <2>1, FitsScheduled
  <2> QED
    BY <2>1, <2>2, FitsFrame
<1> QED
  BY <1>1, <1>2 DEF Work

\* An operation is added.
LEMMA WorkAppend ==
  ASSUME NEW q \in Seq(Entry), NEW o, NEW st, NEW rq, NEW e \in Entry,
         Work(q, o, st, rq), Fits(e, st, rq), e.reqs \cap o.reqs = {},
         \A i \in DOMAIN q : Separate(q[i], e)
  PROVE  Append(q, e) \in Seq(Entry) /\ Work(Append(q, e), o, st, rq)
<1> DEFINE p == Append(q, e)
<1>1. /\ p \in Seq(Entry) /\ DOMAIN q = 1 .. Len(q) /\ Len(q) \in Nat
      /\ DOMAIN p = 1 .. Len(q) + 1
      /\ \A i \in 1 .. Len(q) + 1 : p[i] = IF i <= Len(q) THEN q[i] ELSE e
  BY AppendIs
<1> HIDE DEF p
<1>2. \A i \in DOMAIN p : (i \in DOMAIN q /\ p[i] = q[i]) \/ (i = Len(q) + 1 /\ p[i] = e)
  BY <1>1
<1>3. \A i \in DOMAIN p : Fits(p[i], st, rq) /\ p[i].reqs \cap o.reqs = {}
  BY <1>2 DEF Work
<1>4. \A f : Separate(f, e) => Separate(e, f)
  BY DEF Separate
<1>5. \A i, j \in DOMAIN p : i # j => Separate(p[i], p[j])
  BY <1>2, <1>4 DEF Work
<1>6. Work(p, o, st, rq)
  BY <1>3, <1>5 DEF Work
<1> QED
  BY <1>1, <1>6 DEF p

LEMMA WorkAppendLive ==
  ASSUME NEW q \in Seq(Entry), NEW o, NEW st, NEW rq, Work(q, o, st, rq)
  PROVE  /\ Append(q, LiveRead) \in Seq(Entry)
         /\ Work(Append(q, LiveRead), o, st, rq)
<1>1. Fits(LiveRead, st, rq)
  BY OperationFields DEF Fits
<1>2. LiveRead \in Entry /\ ~IsMovement(LiveRead) /\ LiveRead.reqs = {}
  BY OperationFields DEF Entry, IsMovement
<1>3. \A i \in DOMAIN q : Separate(q[i], LiveRead)
  BY <1>2 DEF Separate
<1> QED
  BY <1>1, <1>2, <1>3, WorkAppend

\* An operation is removed.
LEMMA WorkRemove ==
  ASSUME NEW q \in Seq(Entry), NEW o, NEW st, NEW rq, NEW k \in DOMAIN q,
         Work(q, o, st, rq)
  PROVE  /\ RemoveAt(q, k) \in Seq(Entry)
         /\ Work(RemoveAt(q, k), o, st, rq)
         /\ \A i \in DOMAIN RemoveAt(q, k) :
              /\ Separate(RemoveAt(q, k)[i], q[k])
              /\ \E j \in DOMAIN q : RemoveAt(q, k)[i] = q[j]
<1> DEFINE p == RemoveAt(q, k)
           g(i) == IF i < k THEN i ELSE i + 1
<1>1. /\ p \in Seq(Entry) /\ DOMAIN q = 1 .. Len(q) /\ Len(q) \in Nat
      /\ DOMAIN p = 1 .. Len(q) - 1
      /\ \A i \in 1 .. Len(q) - 1 : p[i] = IF i < k THEN q[i] ELSE q[i + 1]
  BY RemoveAtIs
<1> HIDE DEF p
<1>2. \A i \in DOMAIN p : g(i) \in DOMAIN q \ {k} /\ p[i] = q[g(i)]
  BY <1>1
<1>3. \A i, j \in DOMAIN p : i # j => g(i) # g(j)
  BY <1>1
<1> HIDE DEF g
<1>4. \A i \in DOMAIN p : Fits(p[i], st, rq) /\ p[i].reqs \cap o.reqs = {}
  BY <1>2 DEF Work
<1>5. \A i, j \in DOMAIN p : i # j => Separate(p[i], p[j])
  BY <1>2, <1>3 DEF Work
<1>6. Work(p, o, st, rq)
  BY <1>4, <1>5 DEF Work
<1>7. \A i \in DOMAIN p : Separate(p[i], q[k]) /\ \E j \in DOMAIN q : p[i] = q[j]
  BY <1>2 DEF Work
<1> QED
  BY <1>1, <1>6, <1>7 DEF p

\* The pump takes an operation.
LEMMA WorkTake ==
  ASSUME NEW q \in Seq(Entry), NEW st, NEW rq, NEW k \in DOMAIN q, Work(q, NoOp, st, rq)
  PROVE  RemoveAt(q, k) \in Seq(Entry) /\ Work(RemoveAt(q, k), q[k], st, rq)
<1> DEFINE p == RemoveAt(q, k)
<1>1. /\ p \in Seq(Entry) /\ Work(p, NoOp, st, rq)
      /\ \A i \in DOMAIN p : Separate(p[i], q[k])
  BY WorkRemove
<1> HIDE DEF p
<1>2. Fits(q[k], st, rq)
  BY DEF Work
<1>3. Work(p, q[k], st, rq)
  BY <1>1, <1>2 DEF Work, Separate
<1> QED
  BY <1>1, <1>3 DEF p

\* The requests of the operation that ran take another status.
LEMMA WorkEnd ==
  ASSUME NEW q, NEW o, NEW st, NEW rq, NEW st2, Work(q, o, st, rq),
         \A r \in Requests \ o.reqs : st2[r] = st[r]
  PROVE  Work(q, NoOp, st2, rq)
<1>1. Fits(NoOp, st2, rq) /\ NoOp.reqs = {}
  BY OperationFields DEF Fits, None
<1>2. ASSUME NEW i \in DOMAIN q PROVE Fits(q[i], st2, rq)
  <2>1. Fits(q[i], st, rq) /\ q[i].reqs \cap o.reqs = {}
    BY DEF Work
  <2>2. \A r \in q[i].reqs : st2[r] = st[r]
    BY <2>1 DEF Fits
  <2> QED
    BY <2>1, <2>2, FitsFrame
<1> QED
  BY <1>1, <1>2 DEF Work

\* The operation at the place k takes over the value of a younger one.
LEMMA WorkReplace ==
  ASSUME NEW q \in Seq(Entry), NEW o, NEW st, NEW rq, NEW e \in Entry, NEW k \in DOMAIN q,
         Work(q, o, st, rq), Fits(e, st, rq), e.reqs \cap o.reqs = {},
         \A i \in DOMAIN q \ {k} : Separate(q[i], e)
  PROVE  [q EXCEPT ![k] = e] \in Seq(Entry) /\ Work([q EXCEPT ![k] = e], o, st, rq)
<1> DEFINE p == [q EXCEPT ![k] = e]
<1>1. /\ p \in Seq(Entry) /\ DOMAIN p = DOMAIN q
      /\ \A i \in DOMAIN q : p[i] = IF i = k THEN e ELSE q[i]
  BY ExceptSeq, LenProperties
<1> HIDE DEF p
<1>2. \A i \in DOMAIN p : Fits(p[i], st, rq) /\ p[i].reqs \cap o.reqs = {}
  BY <1>1 DEF Work
<1>3. \A f : Separate(f, e) => Separate(e, f)
  BY DEF Separate
<1>4. \A i, j \in DOMAIN p : i # j => Separate(p[i], p[j])
  BY <1>1, <1>3 DEF Work
<1>5. Work(p, o, st, rq)
  BY <1>2, <1>4 DEF Work
<1> QED
  BY <1>1, <1>5 DEF p

\* Work that takes over the requests of other work.
LEMMA MergeRequests ==
  ASSUME NEW o \in Operation, NEW R \in SUBSET Requests
  PROVE  LET a == [o EXCEPT !.reqs = @ \cup R]
         IN  /\ a \in Operation /\ a.kind = o.kind /\ a.prio = o.prio /\ a.key = o.key
             /\ a.val = o.val /\ a.reqs = o.reqs \cup R
BY DEF Operation

\* The scheduler takes the write of a request that begins to be written.
LEMMA WorkSchedule ==
  ASSUME NEW q \in Seq(Entry), NEW o, NEW st, NEW st2, NEW rq, NEW r \in Requests,
         Work(q, o, st, rq), rq[r] \in Request, st[r] \notin Scheduled,
         st2[r] = "writing", \A s \in Requests : s # r => st2[s] = st[s]
  PROVE  /\ Schedule(q, OpOf(r, rq[r], "write")) \in Seq(Entry)
         /\ Work(Schedule(q, OpOf(r, rq[r], "write")), o, st2, rq)
<1> DEFINE e == OpOf(r, rq[r], "write")
           same == Movement(q, e.key)
           i == CHOOSE j \in same : TRUE
           all == [e EXCEPT !.reqs = @ \cup q[i].reqs]
<1>1. /\ e \in Operation /\ e.kind = "write" /\ e.prio = rq[r].kind /\ e.key = rq[r].key
      /\ e.val = r /\ e.reqs = {r}
  BY DEF OpOf, Operation, Request
<1>3. Schedule(q, e) =
        IF e.kind # "write" \/ e.prio = "control" \/ same = {} THEN Append(q, e)
        ELSE IF e.prio = "update" THEN [q EXCEPT ![i] = all]
        ELSE Append(RemoveAt(q, i), all)
  BY DEF Schedule
<1>4. Work(q, o, st2, rq)
  BY WorkFrame DEF Scheduled
<1>5. r \notin o.reqs /\ \A j \in DOMAIN q : r \notin q[j].reqs
  BY FitsScheduled DEF Work
<1>6. same = {j \in DOMAIN q : IsMovement(q[j]) /\ q[j].key = e.key}
  BY DEF Movement, IsMovement
<1>7. same # {} => i \in same
  OBVIOUS
<1> HIDE DEF e, same, i, all
<1>8. e \in Entry /\ Fits(e, st2, rq) /\ e.reqs \cap o.reqs = {}
  BY <1>1, <1>5 DEF Entry, Fits
<1>9. \A j \in DOMAIN q : j \notin same => Separate(q[j], e)
  BY <1>1, <1>5, <1>6 DEF Separate
<1>10. CASE e.prio = "control" \/ same = {}
  <2>1. \A j \in DOMAIN q : Separate(q[j], e)
    BY <1>1, <1>5, <1>9, <1>10 DEF Separate, IsMovement
  <2>2. Append(q, e) \in Seq(Entry) /\ Work(Append(q, e), o, st2, rq)
    BY <1>4, <1>8, <2>1, WorkAppend
  <2> QED
    BY <1>3, <1>10, <2>2 DEF e
<1>11. CASE e.prio # "control" /\ same # {}
  <2>1. i \in DOMAIN q /\ IsMovement(q[i]) /\ q[i].key = e.key /\ q[i] \in Entry
    BY <1>6, <1>7, <1>11, LenProperties
  <2>2. q[i] \in Operation
    BY <2>1, OperationFields DEF Entry, IsMovement
  <2>3. /\ all \in Operation /\ all.kind = "write" /\ all.prio = e.prio /\ all.key = e.key
        /\ all.val = r /\ all.reqs = {r} \cup q[i].reqs
    <3>1. q[i].reqs \in SUBSET Requests
      BY <2>2, OperationFields
    <3>2. /\ all \in Operation /\ all.kind = e.kind /\ all.prio = e.prio /\ all.key = e.key
          /\ all.val = e.val /\ all.reqs = e.reqs \cup q[i].reqs
      BY <1>1, <3>1, MergeRequests, Zenon DEF all
    <3> QED
      BY <1>1, <3>2
  <2>4. Fits(q[i], st2, rq) /\ q[i].reqs \cap o.reqs = {}
    BY <1>4, <2>1 DEF Work
  <2>5. Fits(all, st2, rq)
    <3>1. \A s \in q[i].reqs : st2[s] = "writing" /\ rq[s].key = e.key /\ rq[s].kind = "update"
      BY <2>1, <2>4 DEF Fits, IsMovement
    <3>2. \A s \in all.reqs : /\ st2[s] = "writing" /\ rq[s].key = all.key
                              /\ rq[s].kind = "update" \/ s = all.val
      BY <1>1, <2>3, <3>1
    <3>3. all.reqs \subseteq Requests
      BY <2>3, OperationFields
    <3> QED
      BY <1>1, <2>3, <3>2, <3>3 DEF Fits
  <2>6. all \in Entry /\ all.reqs \cap o.reqs = {}
    BY <1>5, <2>3, <2>4 DEF Entry
  <2>7. \A j \in DOMAIN q \ {i} : Separate(q[j], all)
    <3>1. ASSUME NEW j \in DOMAIN q \ {i} PROVE Separate(q[j], all)
      <4>1. Separate(q[j], q[i])
        BY <2>1 DEF Work
      <4>2. q[j].reqs \cap all.reqs = {}
        BY <1>5, <2>3, <4>1 DEF Separate
      <4>3. IsMovement(q[j]) => q[j].key # all.key
        BY <2>1, <2>3, <4>1 DEF Separate
      <4> QED
        BY <4>2, <4>3 DEF Separate
    <3> QED
      BY <3>1
  <2>8. CASE e.prio = "update"
    <3>1. [q EXCEPT ![i] = all] \in Seq(Entry) /\ Work([q EXCEPT ![i] = all], o, st2, rq)
      BY <1>4, <2>1, <2>5, <2>6, <2>7, WorkReplace
    <3> QED
      BY <1>1, <1>3, <1>11, <2>8, <3>1 DEF e
  <2>9. CASE e.prio # "update"
    <3> DEFINE p == RemoveAt(q, i)
    <3>1. /\ p \in Seq(Entry) /\ Work(p, o, st2, rq)
          /\ \A j \in DOMAIN p : Separate(p[j], q[i]) /\ \E k \in DOMAIN q : p[j] = q[k]
      BY <1>4, <2>1, WorkRemove
    <3> HIDE DEF p
    <3>2. ASSUME NEW j \in DOMAIN p PROVE Separate(p[j], all)
      <4>1. p[j].reqs \cap q[i].reqs = {} /\ r \notin p[j].reqs
        BY <1>5, <3>1 DEF Separate
      <4>2. ~IsMovement(all)
        BY <2>3, <2>9 DEF IsMovement
      <4> QED
        BY <2>3, <4>1, <4>2 DEF Separate
    <3>3. Append(p, all) \in Seq(Entry) /\ Work(Append(p, all), o, st2, rq)
      BY <2>5, <2>6, <3>1, <3>2, WorkAppend
    <3> QED
      BY <1>1, <1>3, <1>11, <2>9, <3>3 DEF e, p
  <2> QED
    BY <2>8, <2>9
<1> QED
  BY <1>10, <1>11

\* The list p holds entries of the list q, and reads of a position besides.
AddsReadBacks(p, q) ==
  \A i \in DOMAIN p : (\E j \in DOMAIN q : p[i] = q[j]) \/ p[i].kind = "readback"

\* Everyone who waited for the write of a horizontal value reads it back.
WaitsForReadBack(o, st, st2) ==
  /\ \A r \in o.reqs : request[r] \in Request /\ st2[r] = "readback"
  /\ \A r \in Requests \ o.reqs : st2[r] = st[r]

LEMMA WorkReadBacks ==
  ASSUME NEW q \in Seq(Entry), NEW o \in Operation, NEW st, NEW st2,
         Work(q, o, st, request), NEW s \in InOrder(o.reqs), WaitsForReadBack(o, st, st2)
  PROVE  /\ q \o ReadBacks(s) \in Seq(Entry)
         /\ Work(q \o ReadBacks(s), NoOp, st2, request)
         /\ AddsReadBacks(q \o ReadBacks(s), q)
<1> DEFINE n == Cardinality(o.reqs)
           b == ReadBacks(s)
           p == q \o b
<1> USE DEF WaitsForReadBack
<1>1. o.reqs \subseteq Requests /\ n \in Nat
  <2>1. o.reqs \subseteq Requests
    BY OperationFields
  <2>2. IsFiniteSet(Requests)
    BY FS_Interval, InteractionAssumption DEF Requests
  <2> QED
    BY <2>1, <2>2, FS_Subset, FS_CardinalityType
<1>2. /\ s \in [1 .. n -> o.reqs]
      /\ \A i, j \in 1 .. n : i # j => s[i] # s[j]
  <2>1. s \in [1 .. n -> o.reqs] /\ \A i, j \in DOMAIN s : i < j => s[i] < s[j]
    BY DEF InOrder
  <2> HIDE DEF n
  <2>2. \A i \in 1 .. n : s[i] \in Nat
    BY <1>1, <2>1, InteractionAssumption DEF Requests
  <2>3. DOMAIN s = 1 .. n
    BY <2>1
  <2> QED
    BY <1>1, <2>1, <2>2, <2>3
<1>3. \A r \in o.reqs : \A e : e = OpOf(r, request[r], "readback") =>
        /\ e \in Operation /\ e.kind = "readback" /\ e.val = r /\ e.reqs = {r}
        /\ e.prio = request[r].kind /\ e.key = request[r].key
  BY <1>1 DEF OpOf, Operation, Request
<1> HIDE DEF n
<1>4. b = [i \in 1 .. n |-> OpOf(s[i], request[s[i]], "readback")]
  BY <1>2 DEF ReadBacks
<1>5. b \in Seq(Entry) /\ Len(b) = n /\ DOMAIN b = 1 .. n
  <2>1. \A i \in 1 .. n : OpOf(s[i], request[s[i]], "readback") \in Entry
    BY <1>2, <1>3 DEF Entry
  <2>2. b \in [1 .. n -> Entry]
    BY <1>4, <2>1
  <2> HIDE DEF b
  <2> QED
    BY <1>1, <2>2
<1>6. \A i \in 1 .. n : /\ b[i] \in Operation /\ b[i].kind = "readback"
                        /\ Fits(b[i], st2, request)
                        /\ b[i].reqs = {s[i]} /\ s[i] \in o.reqs
  <2>1. ASSUME NEW i \in 1 .. n
        PROVE  /\ b[i] \in Operation /\ b[i].kind = "readback"
               /\ Fits(b[i], st2, request)
               /\ b[i].reqs = {s[i]} /\ s[i] \in o.reqs
    <3>1. b[i] = OpOf(s[i], request[s[i]], "readback") /\ s[i] \in o.reqs
      BY <1>2, <1>4
    <3> HIDE DEF b
    <3>2. /\ b[i] \in Operation /\ b[i].kind = "readback" /\ b[i].val = s[i]
          /\ b[i].reqs = {s[i]} /\ b[i].prio = request[s[i]].kind
          /\ b[i].key = request[s[i]].key
      <4>1. PICK r, e : r \in o.reqs /\ r = s[i] /\ e = b[i] /\ e = OpOf(r, request[r], "readback")
        BY <3>1
      <4>2. /\ e \in Operation /\ e.kind = "readback" /\ e.val = r /\ e.reqs = {r}
            /\ e.prio = request[r].kind /\ e.key = request[r].key
        BY <1>3, <4>1
      <4> QED
        BY <4>1, <4>2
    <3>3. s[i] \in Requests
      BY <1>1, <3>1
    <3> QED
      BY <3>1, <3>2, <3>3 DEF Fits
  <2> QED
    BY <2>1
<1> HIDE DEF b
<1>7. /\ p \in Seq(Entry) /\ DOMAIN p = 1 .. Len(q) + n
      /\ DOMAIN q = 1 .. Len(q) /\ Len(q) \in Nat
      /\ \A i \in 1 .. Len(q) + n : p[i] = IF i <= Len(q) THEN q[i] ELSE b[i - Len(q)]
  <2>1. /\ p \in Seq(Entry) /\ Len(p) = Len(q) + Len(b)
        /\ \A i \in 1 .. Len(q) + Len(b) : p[i] = IF i <= Len(q) THEN q[i] ELSE b[i - Len(q)]
    BY <1>5, ConcatProperties
  <2> HIDE DEF p
  <2> QED
    BY <1>5, <2>1, LenProperties
<1> HIDE DEF p
<1>8. \A i \in DOMAIN p : \/ i \in DOMAIN q /\ p[i] = q[i]
                          \/ /\ i \notin DOMAIN q /\ i - Len(q) \in 1 .. n
                             /\ p[i] = b[i - Len(q)]
  BY <1>1, <1>7
<1>9. Work(q, NoOp, st2, request)
  BY WorkEnd
<1>10. Fits(NoOp, st2, request) /\ NoOp.reqs = {}
  BY <1>9, OperationFields DEF Work
<1>11. \A i \in DOMAIN p : Fits(p[i], st2, request)
  BY <1>6, <1>8, <1>9 DEF Work
<1>12. ASSUME NEW i \in DOMAIN q, NEW k \in 1 .. n
       PROVE  Separate(q[i], b[k]) /\ Separate(b[k], q[i])
  <2>1. q[i].reqs \cap o.reqs = {}
    BY DEF Work
  <2>2. ~IsMovement(b[k]) /\ b[k].reqs \subseteq o.reqs
    BY <1>6 DEF IsMovement
  <2> QED
    BY <2>1, <2>2 DEF Separate
<1>13. ASSUME NEW i \in 1 .. n, NEW k \in 1 .. n, i # k PROVE Separate(b[i], b[k])
  BY <1>2, <1>6, <1>13 DEF Separate, IsMovement
<1>14. ASSUME NEW i \in DOMAIN p, NEW k \in DOMAIN p, i # k PROVE Separate(p[i], p[k])
  <2>1. CASE i \in DOMAIN q /\ k \in DOMAIN q
    BY <1>8, <1>9, <1>14, <2>1 DEF Work
  <2>2. CASE i \in DOMAIN q /\ k \notin DOMAIN q
    BY <1>8, <1>12, <2>2
  <2>3. CASE i \notin DOMAIN q /\ k \in DOMAIN q
    BY <1>8, <1>12, <2>3
  <2>4. CASE i \notin DOMAIN q /\ k \notin DOMAIN q
    <3>1. i - Len(q) # k - Len(q)
      BY <1>1, <1>7, <1>14
    <3> QED
      BY <1>8, <1>13, <2>4, <3>1
  <2> QED
    BY <2>1, <2>2, <2>3, <2>4
<1>15. Work(p, NoOp, st2, request)
  BY <1>10, <1>11, <1>14 DEF Work
<1>16. AddsReadBacks(p, q)
  BY <1>6, <1>8 DEF AddsReadBacks
<1> QED
  BY <1>7, <1>15, <1>16 DEF p, b

-----------------------------------------------------------------------------
(* The polling loop.                                                       *)

Loops == {"idle", "reading", "gap", "delay"}

\* What a step may do to the loop and to the queue, which becomes q at first.
LiveStep(q) ==
  /\ loop' \in Loops /\ left' \in 0 .. Sources /\ fresh' \in BOOLEAN
  /\ queue' \in {q, Append(q, LiveRead)}

LEMMA LoopTopStep ==
  ASSUME TypeOK, NEW f \in BOOLEAN, NEW q, Becomes(LoopTop(wanted, paused, f, q))
  PROVE  /\ LiveStep(q) /\ loop' \in {"idle", "reading"}
         /\ wanted /\ f /\ ~paused /\ acquirable => loop' = "reading"
         /\ ~wanted => queue' = q
<1>1. Sources - 1 \in 0 .. Sources /\ 0 \in 0 .. Sources
  BY InteractionAssumption
<1>2. CASE wanted /\ f /\ ~paused /\ acquirable
  <2>1. /\ loop' = "reading" /\ left' = Sources - 1 /\ fresh' = FALSE
        /\ queue' = Append(q, LiveRead)
    BY <1>2 DEF Becomes, LoopTop
  <2> QED
    BY <1>1, <1>2, <2>1 DEF LiveStep, Loops
<1>3. CASE ~(wanted /\ f /\ ~paused /\ acquirable)
  <2>1. loop' = "idle" /\ left' = 0 /\ fresh' = FALSE /\ queue' = q
    BY <1>3 DEF Becomes, LoopTop
  <2> QED
    BY <1>1, <1>3, <2>1 DEF LiveStep, Loops
<1> QED
  BY <1>2, <1>3

LEMMA RequestFreshStep ==
  ASSUME TypeOK, NEW p \in BOOLEAN, NEW q, RequestFresh(p, q)
  PROVE  /\ LiveStep(q)
         /\ p => queue' = q /\ loop' = loop /\ fresh' = fresh
         /\ wanted /\ ~p /\ acquirable => loop' # "idle"
         /\ wanted /\ ~p /\ loop' = "delay" => fresh'
         /\ ~wanted => queue' = q
<1>1. Sources - 1 \in 0 .. Sources /\ 0 \in 0 .. Sources /\ TRUE \in BOOLEAN
  BY InteractionAssumption
<1>2. /\ loop \in Loops /\ left \in 0 .. Sources /\ fresh \in BOOLEAN
      /\ wanted \in BOOLEAN /\ acquirable \in BOOLEAN
  BY DEF TypeOK, Loops
<1>3. CASE ~wanted \/ p
  <2>1. loop' = loop /\ left' = left /\ fresh' = fresh /\ queue' = q
    BY <1>3 DEF RequestFresh, Becomes
  <2> QED
    BY <1>2, <1>3, <2>1 DEF LiveStep
<1>4. CASE ~(~wanted \/ p) /\ loop = "idle"
  <2>1. CASE acquirable
    <3>1. /\ loop' = "reading" /\ left' = Sources - 1 /\ fresh' = FALSE
          /\ queue' = Append(q, LiveRead)
      BY <1>4, <2>1 DEF RequestFresh, Becomes, LoopTop
    <3> QED
      BY <1>1, <1>4, <3>1 DEF LiveStep, Loops
  <2>2. CASE ~acquirable
    <3>1. loop' = "idle" /\ left' = 0 /\ fresh' = FALSE /\ queue' = q
      BY <1>4, <2>2 DEF RequestFresh, Becomes, LoopTop
    <3> QED
      BY <1>1, <1>4, <2>2, <3>1 DEF LiveStep, Loops
  <2> QED
    BY <2>1, <2>2
<1>5. CASE ~(~wanted \/ p) /\ loop # "idle"
  <2>1. loop' = loop /\ left' = left /\ fresh' = TRUE /\ queue' = q
    BY <1>5 DEF RequestFresh, Becomes
  <2> QED
    BY <1>2, <1>5, <2>1 DEF LiveStep
<1> QED
  BY <1>3, <1>4, <1>5

\* What a live step keeps of the scheduler's work.
LEMMA LiveStepWork ==
  ASSUME NEW q \in Seq(Entry), LiveStep(q), NEW o, NEW st, NEW rq, Work(q, o, st, rq)
  PROVE  queue' \in Seq(Entry) /\ Work(queue', o, st, rq)
BY WorkAppendLive DEF LiveStep

\* Nothing is asked, answered or written.
LEMMA RequestsKept ==
  ASSUME Ledger, OneControl, ScopeIsBehind, UNCHANGED <<issued, request, status, conn, scope>>
  PROVE  /\ Ledger' /\ OneControl' /\ ScopeIsBehind'
         /\ ControlExecuting' = ControlExecuting
BY DEF Ledger, OneControl, ScopeIsBehind, ControlExecuting, Executing, IsControl

LEMMA TypedEntry == TypeOK => queue \in Seq(Entry) /\ \A i \in DOMAIN queue : queue[i] \in Entry
<1> SUFFICES ASSUME TypeOK PROVE queue \in Seq(Entry) /\ \A i \in DOMAIN queue : queue[i] \in Entry
  OBVIOUS
<1>1. queue \in Seq(Entry)
  BY DEF TypeOK, Entry
<1> QED
  BY <1>1, LenProperties

\* The timers of the loop, and the state of the scope.
LEMMA TimersIInv ==
  ASSUME IInv, GapOver \/ DelayOver \/ StateChanged
  PROVE  IInv'
<1>1. TypeOK /\ Ledger /\ Gone /\ Polls /\ Work(queue, op, status, request)
      /\ OneControl /\ ScopeIsBehind
  BY DEF IInv
<1>2. UNCHANGED <<owner, subscribed, issued, request, status, op, scope, conn, up, wanted, paused>>
  BY DEF GapOver, DelayOver, StateChanged
<1>3. Sources - 1 \in 0 .. Sources /\ 0 \in 0 .. Sources /\ Acquirable \subseteq BOOLEAN
      /\ TRUE \in BOOLEAN
  BY InteractionAssumption
<1>4. /\ LiveStep(queue) /\ acquirable' \in BOOLEAN
      /\ ~up => queue' = queue
      /\ up /\ ~paused /\ acquirable' => loop' # "idle"
      /\ up /\ ~paused /\ loop' = "delay" => fresh'
  <2>1. CASE GapOver /\ wanted /\ ~paused
    <3>1. CASE left > 0
      <4>1. /\ loop' = "reading" /\ left' = left - 1 /\ fresh' = fresh
            /\ queue' = Append(queue, LiveRead)
        BY <2>1, <3>1 DEF GapOver, Becomes
      <4>2. left - 1 \in 0 .. Sources
        <5>1. left \in 0 .. Sources /\ Sources \in Nat
          BY <1>1, InteractionAssumption DEF TypeOK
        <5> QED
          BY <3>1, <5>1
      <4>3. fresh \in BOOLEAN /\ acquirable' = acquirable /\ acquirable \in BOOLEAN
        BY <1>1, <2>1 DEF GapOver, TypeOK
      <4>4. up
        BY <1>1, <2>1 DEF Gone
      <4> QED
        BY <4>1, <4>2, <4>3, <4>4 DEF LiveStep, Loops
    <3>2. CASE ~(left > 0)
      <4>1. loop' = "delay" /\ left' = 0 /\ fresh' = TRUE /\ queue' = queue
        BY <2>1, <3>2 DEF GapOver, Becomes
      <4>2. acquirable' = acquirable /\ acquirable \in BOOLEAN
        BY <1>1, <2>1 DEF GapOver, TypeOK
      <4> QED
        BY <1>3, <4>1, <4>2 DEF LiveStep, Loops
    <3> QED
      BY <3>1, <3>2
  <2>2. CASE DelayOver \/ (GapOver /\ ~(wanted /\ ~paused))
    <3>1. Becomes(LoopTop(wanted, paused, fresh, queue)) /\ acquirable' = acquirable
      BY <2>2 DEF DelayOver, GapOver
    <3>2. fresh \in BOOLEAN /\ acquirable \in BOOLEAN
      BY <1>1 DEF TypeOK
    <3>3. /\ LiveStep(queue) /\ loop' \in {"idle", "reading"}
          /\ wanted /\ fresh /\ ~paused /\ acquirable => loop' = "reading"
          /\ ~wanted => queue' = queue
      BY <1>1, <3>1, <3>2, LoopTopStep
    <3>4. up /\ ~paused => wanted /\ fresh
      BY <1>1, <2>2 DEF Polls, DelayOver, GapOver
    <3>5. ~up => ~wanted
      BY <1>1 DEF Gone
    <3> QED
      BY <3>1, <3>2, <3>3, <3>4, <3>5
  <2>3. CASE StateChanged
    <3>1. acquirable' \in BOOLEAN
      BY <1>3, <2>3 DEF StateChanged
    <3>2. /\ loop \in Loops /\ left \in 0 .. Sources /\ fresh \in BOOLEAN
          /\ paused \in BOOLEAN /\ up \in BOOLEAN
      BY <1>1 DEF TypeOK, Loops
    <3>3. up => wanted
      BY <1>1 DEF Polls
    <3>4. CASE ~wanted \/ paused \/ ~up
      <4>1. UNCHANGED <<fresh, loop, left, queue>>
        BY <2>3, <3>4 DEF StateChanged
      <4> QED
        BY <3>1, <3>2, <3>3, <3>4, <4>1 DEF LiveStep
    <3>5. CASE ~(~wanted \/ paused \/ ~up) /\ loop # "idle"
      <4>1. fresh' = TRUE /\ UNCHANGED <<loop, left, queue>>
        BY <2>3, <3>5 DEF StateChanged
      <4> QED
        BY <3>1, <3>2, <3>5, <4>1 DEF LiveStep
    <3>6. CASE ~(~wanted \/ paused \/ ~up) /\ loop = "idle" /\ acquirable'
      <4>1. /\ loop' = "reading" /\ left' = Sources - 1 /\ fresh' = FALSE
            /\ queue' = Append(queue, LiveRead)
        BY <2>3, <3>6 DEF StateChanged, Becomes
      <4> QED
        BY <1>3, <3>1, <3>6, <4>1 DEF LiveStep, Loops
    <3>7. CASE ~(~wanted \/ paused \/ ~up) /\ loop = "idle" /\ ~acquirable'
      <4>1. UNCHANGED <<fresh, loop, left, queue>>
        BY <2>3, <3>7 DEF StateChanged
      <4> QED
        BY <3>1, <3>2, <3>7, <4>1 DEF LiveStep
    <3> QED
      BY <3>4, <3>5, <3>6, <3>7
  <2> QED
    BY <1>1, <2>1, <2>2, <2>3 DEF IInv
<1>5. queue' \in Seq(Entry) /\ Work(queue', op', status', request')
  BY <1>1, <1>2, <1>4, LiveStepWork, TypedEntry
<1>6. TypeOK'
  BY <1>1, <1>2, <1>4, <1>5 DEF TypeOK, LiveStep, Loops, Entry
<1>7. Ledger' /\ OneControl' /\ ScopeIsBehind' /\ ControlExecuting' = ControlExecuting
  BY <1>1, <1>2, RequestsKept
<1>8. Gone'
  BY <1>1, <1>2, <1>4 DEF Gone
<1>9. Polls'
  BY <1>1, <1>2, <1>4, <1>7 DEF Polls
<1> QED
  BY <1>5, <1>6, <1>7, <1>8, <1>9 DEF IInv

LEMMA ResumeStep ==
  ASSUME TypeOK, Gone, Polls, NEW q, Resume(q)
  PROVE  /\ LiveStep(q) /\ paused' \in BOOLEAN
         /\ up => /\ ~paused' /\ (acquirable => loop' # "idle")
                  /\ (loop' = "delay" => fresh')
         /\ ~up => queue' = q
<1>1. paused' = (IF up THEN FALSE ELSE paused) /\ RequestFresh(paused', q)
  BY DEF Resume
<1>2. paused' \in BOOLEAN
  BY <1>1 DEF TypeOK
<1>3. PICK p \in BOOLEAN : p = paused' /\ RequestFresh(p, q)
  BY <1>1, <1>2
<1>4. /\ LiveStep(q)
      /\ wanted /\ ~p /\ acquirable => loop' # "idle"
      /\ wanted /\ ~p /\ loop' = "delay" => fresh'
      /\ ~wanted => queue' = q
  BY <1>3, RequestFreshStep
<1>5. (up => wanted) /\ (~up => ~wanted)
  BY DEF Gone, Polls
<1> QED
  BY <1>1, <1>2, <1>3, <1>4, <1>5

LEMMA UnsubscribeIInv ==
  ASSUME IInv, NEW b \in Browsers, Unsubscribe(b)
  PROVE  IInv'
<1>1. TypeOK /\ Ledger /\ Gone /\ Polls /\ Work(queue, op, status, request)
      /\ OneControl /\ ScopeIsBehind
  BY DEF IInv
<1>2. UNCHANGED <<issued, request, status, op, scope, conn, up, wanted, acquirable>>
  BY DEF Unsubscribe
<1>3. Ledger' /\ OneControl' /\ ScopeIsBehind' /\ ControlExecuting' = ControlExecuting
  BY <1>1, <1>2, RequestsKept
<1>4. subscribed' \subseteq Browsers
  BY <1>1 DEF Unsubscribe, TypeOK
<1>5. CASE owner = b
  <2>1. owner' = None /\ Resume(queue)
    BY <1>5 DEF Unsubscribe
  <2>2. /\ LiveStep(queue) /\ paused' \in BOOLEAN
        /\ up => /\ ~paused' /\ (acquirable => loop' # "idle")
                 /\ (loop' = "delay" => fresh')
        /\ ~up => queue' = queue
    BY <1>1, <2>1, ResumeStep
  <2>3. queue' \in Seq(Entry) /\ Work(queue', op', status', request')
    BY <1>1, <1>2, <2>2, LiveStepWork, TypedEntry
  <2>4. TypeOK'
    BY <1>1, <1>2, <1>4, <2>1, <2>2, <2>3 DEF TypeOK, LiveStep, Loops, Entry
  <2>5. Gone' /\ Polls'
    BY <1>1, <1>2, <2>2 DEF Gone, Polls
  <2> QED
    BY <1>3, <2>3, <2>4, <2>5 DEF IInv
<1>6. CASE owner # b
  <2>1. UNCHANGED <<owner, queue, paused, fresh, loop, left>>
    BY <1>6 DEF Unsubscribe
  <2>2. TypeOK' /\ Gone' /\ Polls' /\ Work(queue', op', status', request')
    BY <1>1, <1>2, <1>3, <1>4, <2>1 DEF TypeOK, Gone, Polls
  <2> QED
    BY <1>3, <2>2 DEF IInv
<1> QED
  BY <1>5, <1>6

LEMMA StartOpIInv ==
  ASSUME IInv, StartOp
  PROVE  IInv'
<1>1. TypeOK /\ Ledger /\ Gone /\ Polls /\ Work(queue, op, status, request)
      /\ OneControl /\ ScopeIsBehind
  BY DEF IInv
<1>2. UNCHANGED <<owner, subscribed, issued, request, status, scope, conn, up, live, acquirable>>
  BY DEF StartOp
<1>3. PICK k \in DOMAIN queue : op' = queue[k] /\ queue' = RemoveAt(queue, k)
  BY DEF StartOp, Selectable
<1>4. op = NoOp /\ queue # <<>> /\ up
  BY <1>1 DEF StartOp, CanStartOp, Gone
<1>5. queue' \in Seq(Entry) /\ Work(queue', op', status', request')
  BY <1>1, <1>2, <1>3, <1>4, WorkTake, TypedEntry
<1>6. op' \in Entry
  BY <1>1, <1>3, TypedEntry
<1>7. TypeOK'
  BY <1>1, <1>2, <1>5, <1>6 DEF TypeOK, Entry, live
<1>8. Ledger' /\ OneControl' /\ ScopeIsBehind' /\ ControlExecuting' = ControlExecuting
  BY <1>1, <1>2, RequestsKept
<1>9. Gone' /\ Polls'
  BY <1>1, <1>2, <1>4, <1>8 DEF Gone, Polls, live
<1> QED
  BY <1>5, <1>7, <1>8, <1>9 DEF IInv

-----------------------------------------------------------------------------
(* Requests go on.                                                         *)

\* A request that waits for a pause goes on, or fails.
LEMMA PauseOverIInv ==
  ASSUME IInv, PauseOver
  PROVE  IInv'
<1>1. TypeOK /\ Ledger /\ Gone /\ Polls /\ Work(queue, op, status, request)
      /\ OneControl /\ ScopeIsBehind
  BY DEF IInv
<1>2. UNCHANGED <<owner, subscribed, issued, request, op, scope, conn, up, wanted, paused,
                  acquirable>>
  BY DEF PauseOver
<1>3. PICK r \in Requests : status[r] = "pausing" /\ Write(r, request[r])
  BY DEF PauseOver, Oldest
<1>4. r \in 1 .. issued /\ request[r] \in Request /\ request[r].conn = conn
  <2>1. ~(r > issued) /\ request[r].conn = conn
    BY <1>1, <1>3 DEF Ledger, Accepted
  <2>2. issued \in Nat /\ r \in Nat /\ r >= 1
    BY <1>1, InteractionAssumption DEF TypeOK, Requests
  <2>3. r \in 1 .. issued
    BY <2>1, <2>2
  <2>4. request \in Seq(Request) /\ Len(request) = issued
    BY <1>1 DEF TypeOK
  <2> QED
    BY <2>1, <2>3, <2>4
<1>5. PICK x \in {"writing", "preparing", "failed"} : status' = [status EXCEPT ![r] = x]
  BY <1>3 DEF Write
<1>6. /\ status \in [Requests -> Statuses] /\ status' \in [Requests -> Statuses]
      /\ status'[r] = x /\ \A s \in Requests : s # r => status'[s] = status[s]
  BY <1>1, <1>5 DEF TypeOK, Statuses
<1>7. Ledger'
  <2>1. x = "preparing" => request[r].prepares
    BY <1>3, <1>5, <1>6 DEF Write
  <2> QED
    BY <1>1, <1>2, <1>3, <1>5, <1>6, <2>1 DEF Ledger, Accepted
<1>8. OneControl' /\ ScopeIsBehind' /\ (up /\ ControlExecuting => ControlExecuting')
  <2>1. /\ \A s \in 1 .. issued : s \in Requests
        /\ \A s \in 1 .. issued : Executing(s)' => Executing(s)
        /\ \A s \in 1 .. issued : status'[s] = "queued" <=> status[s] = "queued"
        /\ \A s \in 1 .. issued : status'[s] \in Unwritten =>
             status[s] \in Unwritten
    <3>1. \A s \in 1 .. issued : s \in Requests
      BY <1>1, InteractionAssumption DEF TypeOK, Requests
    <3> QED
      BY <1>3, <1>5, <1>6, <3>1 DEF Executing, Unwritten
  <2>2. up => x \in {"writing", "preparing"}
    BY <1>3, <1>5, <1>6 DEF Write
  <2>3. OneControl'
    BY <1>1, <1>2, <2>1 DEF OneControl, IsControl
  <2>4. ScopeIsBehind'
    BY <1>1, <1>2, <2>1 DEF ScopeIsBehind, IsControl
  <2>5. up /\ ControlExecuting => ControlExecuting'
    BY <1>2, <1>6, <2>1, <2>2 DEF ControlExecuting, Executing
  <2> QED
    BY <2>3, <2>4, <2>5
<1>9. CASE up
  <2>0. PICK q \in Seq(Entry) : Work(q, op, status', request) /\ RequestFresh(paused, q)
    <3>1. CASE x = "writing"
      <4> DEFINE s == Schedule(queue, OpOf(r, request[r], "write"))
      <4>1. status'[r] = "writing" /\ RequestFresh(paused, s)
        BY <1>3, <1>9, <1>6, <1>5, <3>1 DEF Write
      <4>2. s \in Seq(Entry) /\ Work(s, op, status', request)
        BY <1>1, <1>3, <1>4, <1>6, <4>1, TypedEntry, WorkSchedule DEF Scheduled
      <4> QED
        BY <4>1, <4>2
    <3>2. CASE x # "writing"
      <4>1. RequestFresh(paused, queue) /\ x = "preparing"
        BY <1>3, <1>9, <1>6, <1>5, <3>2 DEF Write
      <4>2. queue \in Seq(Entry) /\ Work(queue, op, status', request)
        BY <1>1, <1>3, <1>6, <4>1, TypedEntry, WorkFrame DEF Scheduled
      <4> QED
        BY <4>1, <4>2
    <3> QED
      BY <3>1, <3>2
  <2>1. RequestFresh(paused, q)
    BY <2>0
  <2>2. q \in Seq(Entry) /\ Work(q, op, status', request)
    BY <2>0
  <2>3. paused \in BOOLEAN
    BY <1>1 DEF TypeOK
  <2>4. /\ LiveStep(q)
        /\ paused => loop' = loop /\ fresh' = fresh
        /\ wanted /\ ~paused /\ acquirable => loop' # "idle"
        /\ wanted /\ ~paused /\ loop' = "delay" => fresh'
    BY <1>1, <2>1, <2>3, RequestFreshStep
  <2>5. queue' \in Seq(Entry) /\ Work(queue', op', status', request')
    BY <1>2, <2>2, <2>4, LiveStepWork
  <2>6. TypeOK'
    BY <1>1, <1>2, <1>6, <2>4, <2>5 DEF TypeOK, LiveStep, Loops, Entry
  <2>7. Gone' /\ Polls'
    BY <1>1, <1>2, <1>8, <1>9, <2>4 DEF Gone, Polls
  <2> QED
    BY <1>7, <1>8, <2>5, <2>6, <2>7 DEF IInv
<1>10. CASE ~up
  <2>1. x = "failed" /\ UNCHANGED <<queue, loop, left, fresh>>
    BY <1>3, <1>10, <1>6, <1>5 DEF Write
  <2>2. Work(queue', op', status', request')
    BY <1>1, <1>2, <1>3, <1>6, <2>1, WorkFrame DEF Scheduled
  <2>3. TypeOK'
    BY <1>1, <1>2, <1>6, <2>1 DEF TypeOK
  <2>4. Gone' /\ Polls'
    BY <1>1, <1>2, <1>6, <1>10, <2>1 DEF Gone, Polls, Scheduled
  <2> QED
    BY <1>7, <1>8, <2>2, <2>3, <2>4 DEF IInv
<1> QED
  BY <1>9, <1>10

\* The next control begins, or fails.
LEMMA NextControlIInv ==
  ASSUME IInv, NextControl
  PROVE  IInv'
<1>1. TypeOK /\ Ledger /\ Gone /\ Polls /\ Work(queue, op, status, request)
      /\ OneControl /\ ScopeIsBehind
  BY DEF IInv
<1>2. /\ UNCHANGED <<owner, subscribed, issued, request, queue, op, scope, conn, up, wanted,
                     loop, left, acquirable>>
      /\ paused' = (up \/ paused) /\ fresh' = (~up /\ fresh) /\ ~ControlExecuting
  BY DEF NextControl, Pause, CanStartControl
<1>3. PICK r \in Requests : /\ status[r] = "queued"
                            /\ \A s \in Requests : status[s] = "queued" => r <= s
                            /\ status' = [status EXCEPT ![r] = IF up THEN "pausing" ELSE "failed"]
  BY DEF NextControl, Oldest, QueuedControls
<1>4. /\ issued \in Nat /\ issued <= MaxRequests /\ MaxRequests \in Nat
      /\ \A s \in 1 .. issued : s \in Requests /\ s \in Nat
  BY <1>1, InteractionAssumption DEF TypeOK, Requests
<1>5. r \in 1 .. issued /\ IsControl(r) /\ request[r].conn = conn
  <2>1. ~(r > issued) /\ IsControl(r) /\ request[r].conn = conn
    BY <1>1, <1>3 DEF Ledger, Accepted, IsControl
  <2> QED
    BY <1>4, <2>1 DEF Requests
<1>6. /\ status' \in [Requests -> Statuses]
      /\ status'[r] = (IF up THEN "pausing" ELSE "failed")
      /\ \A s \in Requests : s # r => status'[s] = status[s]
  BY <1>1, <1>3 DEF TypeOK, Statuses
<1>7. Ledger'
  BY <1>1, <1>2, <1>3, <1>5, <1>6 DEF Ledger, Accepted, IsControl
<1>8. OneControl'
  <2> SUFFICES ASSUME NEW c \in 1 .. issued, NEW d \in 1 .. issued,
                      IsControl(c), Executing(c)', IsControl(d),
                      Executing(d)' \/ status'[d] = "queued", c # d
               PROVE  status'[d] = "queued" /\ c < d
    BY <1>2 DEF OneControl, IsControl
  <2>1. \A s \in 1 .. issued : IsControl(s) => ~Executing(s)
    BY <1>2 DEF ControlExecuting, IsControl
  <2>2. \A s \in 1 .. issued : s # r => (Executing(s)' <=> Executing(s)) /\ status'[s] = status[s]
    BY <1>4, <1>6 DEF Executing
  <2>3. c = r
    BY <2>1, <2>2
  <2>4. status'[d] = "queued" /\ status[d] = "queued" /\ r <= d /\ d \in Nat /\ r \in Nat
    BY <1>3, <1>4, <1>5, <2>1, <2>2, <2>3
  <2> QED
    BY <2>3, <2>4
<1>9. ScopeIsBehind'
  <2>1. \A s \in 1 .. issued : status'[s] \in Unwritten =>
          status[s] \in Unwritten
    BY <1>3, <1>4, <1>6 DEF Unwritten
  <2> QED
    BY <1>1, <1>2, <2>1 DEF ScopeIsBehind, IsControl
<1>10. Work(queue', op', status', request')
  BY <1>1, <1>2, <1>3, <1>6, WorkFrame DEF Scheduled
<1>11. paused' \in BOOLEAN /\ fresh' \in BOOLEAN
  BY <1>1, <1>2 DEF TypeOK
<1>12. TypeOK'
  BY <1>1, <1>2, <1>6, <1>11 DEF TypeOK
<1>13. up => ControlExecuting'
  BY <1>2, <1>5, <1>6 DEF ControlExecuting, Executing, IsControl
<1>14. Gone'
  BY <1>1, <1>2, <1>6 DEF Gone, Scheduled
<1>15. Polls'
  BY <1>1, <1>2, <1>13 DEF Polls
<1> QED
  BY <1>7, <1>8, <1>9, <1>10, <1>12, <1>14, <1>15 DEF IInv

\* A request of the browser b for the control key.
AsksFor(a, kind, b, key) ==
  a \in Request /\ a.kind = kind /\ a.who = b /\ a.key = key /\ a.conn = conn

\* A request of a browser is taken down, and takes the status x.
TakenDown(kind, b, key, x) ==
  /\ NewRequest(kind, b, key) /\ status' = [status EXCEPT ![issued + 1] = x]
  /\ x = "queued" => kind = "control"
  /\ kind = "control" => x \in {"failed", "queued"}
  /\ x = "preparing" => request'[issued + 1].prepares

LEMMA SentStep ==
  ASSUME IInv, NEW kind \in AllKinds, NEW b \in Browsers, NEW key \in AllKeys,
         NEW x \in {"failed", "queued", "pausing", "preparing", "writing"}, TakenDown(kind, b, key, x)
  PROVE  /\ issued + 1 \in Requests /\ issued' \in 0 .. MaxRequests
         /\ request' \in Seq(Request) /\ Len(request') = issued'
         /\ AsksFor(request'[issued + 1], kind, b, key)
         /\ request'[issued + 1] \in Request
         /\ \A s \in 1 .. issued : request'[s] = request[s]
         /\ status' \in [Requests -> Statuses]
         /\ status[issued + 1] = "unsent" /\ status'[issued + 1] = x
         /\ \A s \in Requests : s # issued + 1 => status'[s] = status[s]
         /\ Ledger' /\ OneControl' /\ ScopeIsBehind'
         /\ ControlExecuting => ControlExecuting'
         /\ Work(queue, op, status, request')
<1>0. PICK r : r = issued + 1
  OBVIOUS
<1> USE DEF TakenDown
<1>1. TypeOK /\ Ledger /\ OneControl /\ ScopeIsBehind /\ Work(queue, op, status, request)
  BY DEF IInv
<1>2. issued < MaxRequests /\ issued' = issued + 1 /\ UNCHANGED <<conn, scope>>
  BY DEF NewRequest
<1>16. PICK p \in BOOLEAN :
        request' = Append(request, [kind |-> kind, who |-> b, key |-> key, conn |-> conn,
                                    prepares |-> p])
  BY DEF NewRequest
<1> DEFINE n == [kind |-> kind, who |-> b, key |-> key, conn |-> conn, prepares |-> p]
<1>3. /\ issued \in Nat /\ MaxRequests \in Nat /\ Requests = 1 .. MaxRequests
      /\ r \in Requests /\ issued' \in 0 .. MaxRequests /\ r \in Nat
      /\ 1 .. issued' = 1 .. issued \cup {r} /\ r \notin 1 .. issued
      /\ 1 .. issued \subseteq Requests
  BY <1>0, <1>1, <1>2, InteractionAssumption DEF TypeOK, Requests
<1>4. /\ n \in Request /\ AsksFor(n, kind, b, key)
      /\ request \in Seq(Request) /\ Len(request) = issued
  BY <1>1 DEF TypeOK, Request, AsksFor
<1> HIDE DEF n
<1>5. /\ request' \in Seq(Request) /\ Len(request') = issued'
      /\ AsksFor(request'[r], kind, b, key)
      /\ \A s \in 1 .. issued : request'[s] = request[s]
  BY <1>0, <1>2, <1>3, <1>4, <1>16 DEF n
<1>6. /\ status \in [Requests -> Statuses] /\ status' \in [Requests -> Statuses]
      /\ status[r] = "unsent" /\ status'[r] = x
      /\ \A s \in Requests : s # r => status'[s] = status[s]
  <2>1. r > issued
    BY <1>0, <1>3
  <2> QED
    BY <1>0, <1>1, <1>3, <2>1 DEF TypeOK, Ledger, Statuses
<1>7. request'[r].kind = kind /\ request'[r].conn = conn
  BY <1>5 DEF AsksFor
<1>8. Ledger'
  <2> SUFFICES ASSUME NEW s \in Requests
               PROVE  /\ s > issued' => status'[s] = "unsent"
                      /\ status'[s] \in Accepted => request'[s].conn = conn'
                      /\ status'[s] = "queued" => request'[s].kind = "control"
                      /\ status'[s] = "preparing" => request'[s].prepares
    BY DEF Ledger
  <2>1. CASE s = r
    <3>1. ~(s > issued')
      BY <1>0, <1>2, <1>3, <2>1
    <3> QED
      BY <1>0, <1>2, <1>6, <1>7, <2>1, <3>1
  <2>2. CASE s # r
    <3>1. s > issued' => s > issued
      BY <1>0, <1>2, <1>3
    <3>2. ~(s > issued) => s \in 1 .. issued
      BY <1>3
    <3>3. s > issued => status[s] \notin Accepted
      BY <1>1 DEF Ledger, Accepted, Scheduled
    <3>4. status'[s] \in Accepted => s \in 1 .. issued
      BY <1>6, <2>2, <3>2, <3>3
    <3> QED
      BY <1>1, <1>2, <1>5, <1>6, <2>2, <3>1, <3>4 DEF Ledger, Accepted
  <2> QED
    BY <2>1, <2>2
<1>9. \A s \in 1 .. issued :
        /\ IsControl(s)' <=> IsControl(s)
        /\ Executing(s)' <=> Executing(s)
        /\ status'[s] = status[s]
  BY <1>3, <1>5, <1>6 DEF IsControl, Executing
<1>10. /\ IsControl(r)' <=> kind = "control"
       /\ Executing(r)' => ~IsControl(r)'
       /\ \A s \in 1 .. issued : s < r /\ s # r
  BY <1>0, <1>3, <1>6, <1>7 DEF IsControl, Executing
<1>11. OneControl'
  <2> SUFFICES ASSUME NEW c \in 1 .. issued', NEW d \in 1 .. issued',
                      IsControl(c)', Executing(c)', IsControl(d)',
                      Executing(d)' \/ status'[d] = "queued", c # d
               PROVE  status'[d] = "queued" /\ c < d
    BY DEF OneControl
  <2>1. c \in 1 .. issued
    BY <1>3, <1>10
  <2>2. CASE d = r
    BY <1>10, <2>1, <2>2
  <2>3. CASE d # r
    <3>1. d \in 1 .. issued
      BY <1>3, <2>3
    <3> QED
      BY <1>1, <1>9, <2>1, <3>1 DEF OneControl
  <2> QED
    BY <2>2, <2>3
<1>12. ScopeIsBehind'
  <2>1. ASSUME NEW k \in Keys, NEW v, v = scope[k]
        PROVE  /\ v <= issued'
               /\ v # 0 /\ IsControl(v)' =>
                    \A s \in 1 .. issued' :
                      IsControl(s)' /\ status'[s] \in Unwritten => v < s
    <3>1. v \in Nat /\ v <= issued
      BY <1>1, <1>3, <2>1 DEF ScopeIsBehind, TypeOK
    <3>2. v <= issued' /\ v < r /\ (v # 0 => v \in 1 .. issued)
      BY <1>0, <1>2, <1>3, <3>1
    <3>3. ASSUME v # 0, IsControl(v)', NEW s \in 1 .. issued', IsControl(s)',
                 status'[s] \in Unwritten
          PROVE  v < s
      <4>1. CASE s = r
        BY <3>2, <4>1
      <4>2. CASE s # r
        <5>1. s \in 1 .. issued
          BY <1>3, <4>2
        <5>2. IsControl(v) /\ IsControl(s) /\ status[s] \in Unwritten
          BY <1>9, <3>2, <3>3, <5>1
        <5> QED
          BY <1>1, <2>1, <3>3, <5>1, <5>2 DEF ScopeIsBehind
      <4> QED
        BY <4>1, <4>2
    <3> QED
      BY <3>2, <3>3
  <2> QED
    BY <1>2, <2>1 DEF ScopeIsBehind, IsControl
<1>13. ControlExecuting => ControlExecuting'
  BY <1>3, <1>9 DEF ControlExecuting, IsControl
<1>14. Work(queue, op, status, request')
  <2>1. \A s \in Requests : status[s] \in Scheduled => request'[s] = request[s]
    <3>1. \A s \in Requests : s > issued => status[s] \notin Scheduled
      BY <1>1 DEF Ledger, Scheduled
    <3>2. \A s \in Requests : ~(s > issued) => s \in 1 .. issued
      BY <1>3
    <3> QED
      BY <1>5, <3>1, <3>2
  <2> QED
    BY <1>1, <2>1, WorkFrame
<1>15. request'[r] \in Request
  BY <1>5 DEF AsksFor
<1> QED
  BY <1>0, <1>3, <1>5, <1>6, <1>8, <1>11, <1>12, <1>13, <1>14, <1>15

\* A request that is refused, or a control that waits for its turn.
LEMMA SentIdly ==
  ASSUME IInv, NEW kind \in AllKinds, NEW b \in Browsers, NEW key \in AllKeys,
         NewRequest(kind, b, key), NEW x \in {"failed", "queued"},
         status' = [status EXCEPT ![issued + 1] = x], x = "queued" => kind = "control",
         UNCHANGED <<owner, queue, paused, fresh, loop, left>>
  PROVE  IInv'
<1>1. TypeOK /\ Gone /\ Polls
  BY DEF IInv
<1>2. UNCHANGED <<subscribed, op, scope, conn, up, wanted, acquirable>>
  BY DEF NewRequest
<1>3. PICK r : r = issued + 1
  OBVIOUS
<1>4. /\ r \in Requests /\ issued' \in 0 .. MaxRequests
      /\ request' \in Seq(Request) /\ Len(request') = issued'
      /\ status' \in [Requests -> Statuses]
      /\ status[r] = "unsent" /\ status'[r] = x
      /\ \A s \in Requests : s # r => status'[s] = status[s]
      /\ Ledger' /\ OneControl' /\ ScopeIsBehind'
      /\ ControlExecuting => ControlExecuting'
      /\ Work(queue, op, status, request')
  <2>1. TakenDown(kind, b, key, x)
    BY DEF TakenDown
  <2> QED
    BY <1>3, <2>1, SentStep
<1>5. Work(queue', op', status', request')
  BY <1>2, <1>4, WorkFrame DEF Scheduled
<1>6. TypeOK'
  BY <1>1, <1>2, <1>4 DEF TypeOK
<1>7. Gone' /\ Polls'
  BY <1>1, <1>2, <1>4 DEF Gone, Polls, Scheduled
<1> QED
  BY <1>4, <1>5, <1>6, <1>7 DEF IInv

LEMMA HorizontalControlIInv ==
  ASSUME IInv, NEW b \in Browsers, HorizontalControl(b)
  PROVE  IInv'
<1>1. NewRequest("control", b, "horizontal") /\ "control" \in AllKinds /\ "horizontal" \in AllKeys
  BY DEF HorizontalControl, AllKinds, AllKeys
<1>2. PICK x \in {"failed", "queued"} :
        /\ status' = [status EXCEPT ![issued + 1] = x]
        /\ UNCHANGED <<owner, queue, paused, fresh, loop, left>>
  BY DEF HorizontalControl, Refuse
<1> QED
  BY <1>1, <1>2, SentIdly

LEMMA InteractionIInv ==
  ASSUME IInv, NEW kind \in {"update", "commit"}, NEW b \in Browsers, NEW key \in AllKeys,
         Interaction(kind, b, key)
  PROVE  IInv'
<1>1. TypeOK /\ Gone /\ Polls
  BY DEF IInv
<1>2. NewRequest(kind, b, key) /\ kind \in AllKinds /\ kind # "control"
  BY DEF Interaction, AllKinds
<1>3. UNCHANGED <<subscribed, op, scope, conn, up, wanted, acquirable>>
  BY <1>2 DEF NewRequest
<1>4. PICK r : r = issued + 1
  OBVIOUS
<1>5. CASE Refuse
  BY <1>2, <1>5, SentIdly DEF Refuse
<1>6. CASE /\ ~Refused(b) /\ owner = b
           /\ status' = [status EXCEPT ![r] = "writing"]
           /\ RequestFresh(paused, Schedule(queue, OpOf(r, request'[r], "write")))
           /\ UNCHANGED <<owner, paused>>
  <2>1. /\ r \in Requests /\ issued' \in 0 .. MaxRequests
        /\ request' \in Seq(Request) /\ Len(request') = issued'
        /\ request'[r] \in Request
        /\ status' \in [Requests -> Statuses]
        /\ status[r] = "unsent" /\ status'[r] = "writing"
        /\ \A s \in Requests : s # r => status'[s] = status[s]
        /\ Ledger' /\ OneControl' /\ ScopeIsBehind'
        /\ ControlExecuting => ControlExecuting'
        /\ Work(queue, op, status, request')
    <3>1. TakenDown(kind, b, key, "writing")
      BY <1>2, <1>4, <1>6 DEF TakenDown
    <3> QED
      BY <1>2, <1>4, <3>1, SentStep
  <2> DEFINE q == Schedule(queue, OpOf(r, request'[r], "write"))
  <2>2. q \in Seq(Entry) /\ Work(q, op, status', request')
    BY <1>1, <2>1, WorkSchedule, TypedEntry DEF Scheduled
  <2>3. RequestFresh(paused, q) /\ up
    BY <1>6 DEF Refused
  <2> HIDE DEF q
  <2>4. paused \in BOOLEAN
    BY <1>1 DEF TypeOK
  <2>5. /\ LiveStep(q)
        /\ paused => loop' = loop /\ fresh' = fresh
        /\ wanted /\ ~paused /\ acquirable => loop' # "idle"
        /\ wanted /\ ~paused /\ loop' = "delay" => fresh'
    BY <1>1, <2>3, <2>4, RequestFreshStep
  <2>6. queue' \in Seq(Entry) /\ Work(queue', op', status', request')
    BY <1>3, <2>2, <2>5, LiveStepWork
  <2>7. TypeOK'
    BY <1>1, <1>3, <1>6, <2>1, <2>5, <2>6 DEF TypeOK, LiveStep, Loops, Entry
  <2>8. Gone' /\ Polls'
    BY <1>1, <1>3, <1>6, <2>1, <2>3, <2>5 DEF Gone, Polls
  <2> QED
    BY <2>1, <2>6, <2>7, <2>8 DEF IInv
<1>8. CASE /\ ~Refused(b) /\ owner = b
           /\ status' = [status EXCEPT ![r] = "preparing"] /\ request'[r].prepares
           /\ RequestFresh(paused, queue)
           /\ UNCHANGED <<owner, paused>>
  <2>1. /\ r \in Requests /\ issued' \in 0 .. MaxRequests
        /\ request' \in Seq(Request) /\ Len(request') = issued'
        /\ status' \in [Requests -> Statuses]
        /\ status[r] = "unsent" /\ status'[r] = "preparing"
        /\ \A s \in Requests : s # r => status'[s] = status[s]
        /\ Ledger' /\ OneControl' /\ ScopeIsBehind'
        /\ ControlExecuting => ControlExecuting'
        /\ Work(queue, op, status, request')
    <3>1. TakenDown(kind, b, key, "preparing")
      BY <1>2, <1>4, <1>8 DEF TakenDown
    <3> QED
      BY <1>2, <1>4, <3>1, SentStep
  <2>2. queue \in Seq(Entry) /\ Work(queue, op, status', request')
    BY <1>1, <2>1, WorkFrame, TypedEntry DEF Scheduled
  <2>3. RequestFresh(paused, queue) /\ up
    BY <1>8 DEF Refused
  <2>4. paused \in BOOLEAN
    BY <1>1 DEF TypeOK
  <2>5. /\ LiveStep(queue)
        /\ paused => loop' = loop /\ fresh' = fresh
        /\ wanted /\ ~paused /\ acquirable => loop' # "idle"
        /\ wanted /\ ~paused /\ loop' = "delay" => fresh'
    BY <1>1, <2>3, <2>4, RequestFreshStep
  <2>6. queue' \in Seq(Entry) /\ Work(queue', op', status', request')
    BY <1>3, <2>2, <2>5, LiveStepWork
  <2>7. TypeOK'
    BY <1>1, <1>3, <1>8, <2>1, <2>5, <2>6 DEF TypeOK, LiveStep, Loops, Entry
  <2>8. Gone' /\ Polls'
    BY <1>1, <1>3, <1>8, <2>1, <2>3, <2>5 DEF Gone, Polls
  <2> QED
    BY <2>1, <2>6, <2>7, <2>8 DEF IInv
<1>7. CASE /\ ~Refused(b) /\ owner = None
           /\ owner' = b
           /\ status' = [status EXCEPT ![r] = "pausing"]
           /\ Pause
           /\ UNCHANGED <<queue, loop, left>>
  <2>1. /\ r \in Requests /\ issued' \in 0 .. MaxRequests
        /\ request' \in Seq(Request) /\ Len(request') = issued'
        /\ status' \in [Requests -> Statuses]
        /\ status[r] = "unsent" /\ status'[r] = "pausing"
        /\ \A s \in Requests : s # r => status'[s] = status[s]
        /\ Ledger' /\ OneControl' /\ ScopeIsBehind'
        /\ Work(queue, op, status, request')
    <3>1. TakenDown(kind, b, key, "pausing")
      BY <1>2, <1>4, <1>7 DEF TakenDown
    <3> QED
      BY <1>2, <1>4, <3>1, SentStep
  <2>2. Work(queue', op', status', request')
    BY <1>3, <1>7, <2>1, WorkFrame DEF Scheduled
  <2>3. up /\ paused' = TRUE /\ fresh' = FALSE /\ b # None
    BY <1>7, InteractionAssumption DEF Refused, Pause
  <2>4. TypeOK'
    BY <1>1, <1>3, <1>7, <2>1, <2>3 DEF TypeOK
  <2>5. Gone' /\ Polls'
    BY <1>1, <1>3, <1>7, <2>3 DEF Gone, Polls
  <2> QED
    BY <2>1, <2>2, <2>4, <2>5 DEF IInv
<1> QED
  BY <1>4, <1>5, <1>6, <1>7, <1>8 DEF Interaction, Write, Refused

-----------------------------------------------------------------------------
(* The connection.                                                         *)

LEMMA DisconnectIInv ==
  ASSUME IInv, Disconnect
  PROVE  IInv'
<1>1. TypeOK /\ Ledger /\ OneControl /\ ScopeIsBehind
  BY DEF IInv
<1>2. /\ up' = FALSE /\ owner' = None /\ wanted' = FALSE /\ fresh' = FALSE
      /\ queue' = <<>> /\ op' = NoOp /\ left' = 0
      /\ loop' = (IF loop = "reading" THEN "idle" ELSE loop)
      /\ UNCHANGED <<subscribed, issued, request, scope, conn, paused, acquirable>>
  BY DEF Disconnect
<1>3. \A r \in Requests : status'[r] = IF status[r] \in Scheduled THEN "failed" ELSE status[r]
  BY DEF Disconnect, Rejected, Scheduled
<1>4. status' \in [Requests -> Statuses]
  BY <1>1 DEF Disconnect, Rejected, TypeOK, Statuses
<1>5. 0 \in 0 .. Sources /\ 1 .. issued \subseteq Requests
  BY <1>1, InteractionAssumption DEF TypeOK, Requests
<1>6. TypeOK'
  <2>1. queue' \in Seq(Operation \cup {LiveRead}) /\ op' \in Operation \cup {LiveRead, NoOp}
    BY <1>2
  <2>2. loop' \in {"idle", "reading", "gap", "delay"}
    BY <1>1, <1>2 DEF TypeOK
  <2>3. {up', wanted', paused', fresh', acquirable'} \subseteq BOOLEAN
    BY <1>1, <1>2 DEF TypeOK
  <2> QED
    BY <1>1, <1>2, <1>4, <1>5, <2>1, <2>2, <2>3 DEF TypeOK
<1>7. Ledger'
  BY <1>1, <1>2, <1>3 DEF Ledger, Accepted, Scheduled
<1>8. \A r \in 1 .. issued :
        /\ Executing(r)' => Executing(r)
        /\ status'[r] = "queued" <=> status[r] = "queued"
        /\ status'[r] \in Unwritten =>
             status[r] \in Unwritten
  BY <1>3, <1>5 DEF Executing, Scheduled, Unwritten
<1>9. OneControl'
  BY <1>1, <1>2, <1>8 DEF OneControl, IsControl
<1>10. ScopeIsBehind'
  BY <1>1, <1>2, <1>8 DEF ScopeIsBehind, IsControl
<1>11. Gone' /\ Polls'
  BY <1>2, <1>3 DEF Gone, Polls, Scheduled
<1>12. Work(queue', op', status', request')
  BY <1>2, OperationFields DEF Work, Fits, None
<1> QED
  BY <1>6, <1>7, <1>9, <1>10, <1>11, <1>12 DEF IInv

\* When the runtime connects again, nothing accepted before is left.
LEMMA ReconnectIInv ==
  ASSUME IInv, Reconnect
  PROVE  IInv'
<1>1. TypeOK /\ Ledger /\ Gone /\ OneControl /\ ScopeIsBehind /\ Work(queue, op, status, request)
  BY DEF IInv
<1>2. /\ Quiet /\ loop = "idle" /\ ~up /\ conn < MaxConnections
      /\ \A r \in Requests : status[r] # "preparing"
      /\ conn' = conn + 1 /\ up' = TRUE /\ wanted' = TRUE /\ paused' = FALSE
      /\ UNCHANGED <<owner, subscribed, issued, request, status, op, scope, fresh, acquirable>>
  BY DEF Reconnect, NewSession
<1>3. /\ loop' = (IF acquirable THEN "reading" ELSE "idle")
      /\ left' = (IF acquirable THEN Sources - 1 ELSE 0)
      /\ queue' = (IF acquirable THEN <<LiveRead>> ELSE <<>>)
  BY DEF Reconnect, NewSession
<1>4. /\ queue = <<>> /\ op = NoOp
      /\ \A r \in Requests : status[r] \notin Scheduled
  BY <1>1, <1>2 DEF Gone
<1>5. 1 .. issued \subseteq Requests /\ conn' \in 1 .. MaxConnections
  BY <1>1, <1>2, InteractionAssumption DEF TypeOK, Requests
<1>6. \A r \in Requests : status[r] \notin {"pausing", "preparing", "writing", "readback"}
  BY <1>2, <1>4 DEF Quiet, CanEndPause, Scheduled
<1>7. ~ControlExecuting
  BY <1>5, <1>6 DEF ControlExecuting, Executing
<1>8. \A r \in Requests : status[r] \notin Accepted
  BY <1>2, <1>6, <1>7 DEF Quiet, CanStartControl, QueuedControls, Accepted, Scheduled
<1>9. Ledger'
  BY <1>1, <1>2, <1>8 DEF Ledger
<1>10. OneControl' /\ ScopeIsBehind'
  BY <1>1, <1>2 DEF OneControl, ScopeIsBehind, IsControl, Executing
<1>11. Sources - 1 \in 0 .. Sources /\ 0 \in 0 .. Sources
  BY InteractionAssumption
<1>12. LiveRead \in Entry
  BY DEF Entry
<1>13. queue' \in Seq(Entry) /\ Work(queue', op', status', request')
  <2>1. CASE acquirable
    <3>1. queue' = Append(<<>>, LiveRead)
      BY <1>3, <1>12, <2>1
    <3>2. <<>> \in Seq(Entry)
      OBVIOUS
    <3> QED
      BY <1>1, <1>2, <1>4, <3>1, <3>2, WorkAppendLive
  <2>2. CASE ~acquirable
    BY <1>1, <1>2, <1>3, <1>4, <2>2
  <2> QED
    BY <2>1, <2>2
<1>14. TypeOK'
  BY <1>1, <1>2, <1>3, <1>5, <1>11, <1>13 DEF TypeOK, Entry
<1>15. Gone' /\ Polls'
  BY <1>2, <1>3 DEF Gone, Polls
<1> QED
  BY <1>9, <1>10, <1>13, <1>14, <1>15 DEF IInv

-----------------------------------------------------------------------------
(* The scope answers.                                                      *)

\* The requests of the operation take another status.
LEMMA AnsweredStep ==
  ASSUME IInv, NEW x \in {"readback", "done", "failed"}, status' = Becoming(op.reqs, x),
         UNCHANGED <<issued, request, conn>>
  PROVE  /\ status' \in [Requests -> Statuses]
         /\ 1 .. issued \subseteq Requests /\ op.reqs \subseteq 1 .. issued
         /\ \A r \in op.reqs : request[r] \in Request
         /\ \A r \in Requests : status'[r] = IF r \in op.reqs THEN x ELSE status[r]
         /\ \A r \in 1 .. issued :
              /\ status'[r] \in Unwritten =>
                   status[r] \in Unwritten /\ r \notin op.reqs
         /\ Ledger' /\ OneControl'
<1>1. TypeOK /\ Ledger /\ OneControl /\ Fits(op, status, request)
  BY DEF IInv, Work
<1>2. issued \in Nat /\ MaxRequests \in Nat /\ 1 .. issued \subseteq Requests
  BY <1>1, InteractionAssumption DEF TypeOK, Requests
<1>3. op.reqs \subseteq Requests /\ \A r \in op.reqs : status[r] \in Scheduled
  BY <1>1, FitsScheduled DEF Fits
<1>4. op.reqs \subseteq 1 .. issued
  <2>1. ASSUME NEW r \in op.reqs PROVE r \in 1 .. issued
    <3>1. r \in Requests /\ ~(r > issued)
      BY <1>1, <1>3 DEF Ledger, Scheduled
    <3> QED
      BY <1>2, <3>1 DEF Requests
  <2> QED
    BY <2>1
<1>5. /\ status \in [Requests -> Statuses] /\ status' \in [Requests -> Statuses]
      /\ \A r \in Requests : status'[r] = IF r \in op.reqs THEN x ELSE status[r]
  BY <1>1 DEF Becoming, TypeOK, Statuses
<1>6. \A r \in op.reqs : request[r] \in Request
  <2>1. request \in Seq(Request) /\ Len(request) = issued
    BY <1>1 DEF TypeOK
  <2> QED
    BY <1>4, <2>1
<1>7. Ledger'
  <2> SUFFICES ASSUME NEW r \in Requests
               PROVE  /\ r > issued => status'[r] = "unsent"
                      /\ status'[r] \in Accepted => request[r].conn = conn
                      /\ status'[r] = "queued" => request[r].kind = "control"
                      /\ status'[r] = "preparing" => request[r].prepares
    BY DEF Ledger
  <2>1. CASE r \in op.reqs
    <3>1. status[r] \in Accepted /\ ~(r > issued)
      BY <1>1, <1>3, <2>1 DEF Ledger, Accepted, Scheduled
    <3> QED
      BY <1>1, <1>5, <2>1, <3>1 DEF Ledger
  <2>2. CASE r \notin op.reqs
    BY <1>1, <1>5, <2>2 DEF Ledger
  <2> QED
    BY <2>1, <2>2
<1>8. \A r \in 1 .. issued :
        /\ Executing(r)' => Executing(r)
        /\ status'[r] = "queued" <=> status[r] = "queued"
        /\ status'[r] \in Unwritten =>
             status[r] \in Unwritten /\ r \notin op.reqs
  BY <1>2, <1>3, <1>5 DEF Executing, Scheduled, Unwritten
<1>9. OneControl'
  BY <1>1, <1>8 DEF OneControl, IsControl
<1> QED
  BY <1>2, <1>4, <1>5, <1>6, <1>7, <1>8, <1>9

\* Nothing is written.
LEMMA ScopeKept ==
  ASSUME IInv, UNCHANGED <<issued, request, scope>>,
         \A r \in 1 .. issued : status'[r] \in Unwritten =>
                                  status[r] \in Unwritten
  PROVE  ScopeIsBehind'
BY DEF IInv, ScopeIsBehind, IsControl

\* The value of the operation is written.
LEMMA ScopeWritten ==
  ASSUME IInv, op.kind = "write", scope' = [scope EXCEPT ![op.key] = op.val],
         UNCHANGED <<issued, request>>,
         op.reqs \subseteq 1 .. issued,
         \A r \in 1 .. issued : status'[r] \in Unwritten =>
           status[r] \in Unwritten /\ r \notin op.reqs
  PROVE  scope' \in [Keys -> 0 .. MaxRequests] /\ ScopeIsBehind'
<1>1. TypeOK /\ OneControl /\ ScopeIsBehind /\ Fits(op, status, request)
  BY DEF IInv, Work
<1>2. op.val \in op.reqs /\ status[op.val] = "writing"
  BY <1>1 DEF Fits
<1>3. /\ op.val \in 1 .. issued /\ op.val \in 0 .. MaxRequests /\ op.val <= issued
      /\ issued \in Nat
  BY <1>1, <1>2, InteractionAssumption DEF TypeOK
<1>4. scope' \in [Keys -> 0 .. MaxRequests]
  BY <1>1, <1>3 DEF TypeOK
<1>5. ASSUME NEW k \in Keys, NEW v, v = scope'[k]
      PROVE  /\ v <= issued
             /\ v # 0 /\ IsControl(v) =>
                  \A s \in 1 .. issued :
                    IsControl(s) /\ status'[s] \in Unwritten => v < s
  <2>1. CASE v = scope[k]
    BY <1>1, <2>1 DEF ScopeIsBehind
  <2>2. CASE v # scope[k]
    <3>1. v = op.val
      BY <1>1, <1>5, <2>2 DEF TypeOK
    <3>2. ASSUME IsControl(v), NEW s \in 1 .. issued, IsControl(s),
                 status'[s] \in Unwritten
          PROVE  v < s
      <4>1. s # v /\ (status[s] = "queued" \/ Executing(s)) /\ Executing(v)
        BY <1>2, <3>1, <3>2 DEF Executing, Unwritten
      <4> QED
        BY <1>1, <1>3, <3>1, <3>2, <4>1 DEF OneControl
    <3> QED
      BY <1>3, <3>1, <3>2
  <2> QED
    BY <2>1, <2>2
<1>6. ScopeIsBehind'
  BY <1>5 DEF ScopeIsBehind, IsControl
<1> QED
  BY <1>4, <1>6

\* The requests R have ended.
LEMMA EndStep ==
  ASSUME TypeOK, Gone, Polls, NEW R, End(R), UNCHANGED <<issued, request>>,
         \A r \in 1 .. issued : r \notin R => status'[r] = status[r]
  PROVE  /\ LiveStep(queue) /\ paused' \in BOOLEAN /\ owner' \in Browsers \cup {None}
         /\ up => /\ paused' => owner' # None \/ ControlExecuting'
                  /\ ~paused' /\ acquirable => loop' # "idle"
                  /\ ~paused' /\ loop' = "delay" => fresh'
         /\ ~up => queue' = queue
<1> DEFINE commits  == {r \in R : request[r].kind = "commit"}
           controls == {r \in R : request[r].kind = "control"}
<1>2. owner \in Browsers \cup {None}
  BY DEF TypeOK
<1>3. CASE Resume(queue) /\ (owner' = None \/ owner' = owner)
  BY <1>2, <1>3, ResumeStep
<1>4. CASE /\ UNCHANGED <<owner, queue, paused, fresh, loop, left>>
           /\ controls = {} \/ owner # None
  <2>1. LiveStep(queue) /\ paused' \in BOOLEAN
    BY <1>4 DEF LiveStep, TypeOK, Loops
  <2>2. CASE owner # None
    BY <1>2, <1>4, <2>1, <2>2 DEF Polls
  <2>3. CASE controls = {}
    <3>1. ControlExecuting => ControlExecuting'
      <4>1. SUFFICES ASSUME NEW c \in 1 .. issued, request[c].kind = "control", Executing(c)
                     PROVE  ControlExecuting'
        BY DEF ControlExecuting
      <4>2. c \notin R
        BY <2>3, <4>1
      <4>3. status'[c] = status[c]
        BY <4>2
      <4> QED
        BY <4>1, <4>3 DEF ControlExecuting, Executing
    <3> QED
      BY <1>2, <1>4, <2>1, <3>1 DEF Polls
  <2> QED
    BY <1>4, <2>2, <2>3
<1>5. \/ Resume(queue) /\ (owner' = None \/ owner' = owner)
      \/ /\ UNCHANGED <<owner, queue, paused, fresh, loop, left>>
         /\ controls = {} \/ owner # None
  BY DEF End
<1> QED
  BY <1>3, <1>4, <1>5

\* The requests of the operation are answered.
LEMMA EndIInv ==
  ASSUME IInv, op.kind \in {"write", "readback"}, NEW x \in {"done", "failed"},
         status' = Becoming(op.reqs, x), End(op.reqs), op' = NoOp,
         UNCHANGED <<subscribed, issued, request, conn, up, wanted, acquirable>>,
         scope' = scope \/ (op.kind = "write" /\ scope' = [scope EXCEPT ![op.key] = op.val])
  PROVE  IInv'
<1>1. TypeOK /\ Gone /\ Polls /\ Work(queue, op, status, request)
  BY DEF IInv
<1>2. /\ status' \in [Requests -> Statuses] /\ op.reqs \subseteq 1 .. issued
      /\ \A r \in Requests : status'[r] = IF r \in op.reqs THEN x ELSE status[r]
      /\ \A r \in 1 .. issued :
           status'[r] \in Unwritten =>
             status[r] \in Unwritten /\ r \notin op.reqs
      /\ Ledger' /\ OneControl'
  BY AnsweredStep
<1>3. scope' \in [Keys -> 0 .. MaxRequests] /\ ScopeIsBehind'
  <2>1. CASE scope' = scope
    BY <1>1, <1>2, <2>1, ScopeKept DEF TypeOK
  <2>2. CASE op.kind = "write" /\ scope' = [scope EXCEPT ![op.key] = op.val]
    BY <1>2, <2>2, ScopeWritten
  <2> QED
    BY <2>1, <2>2
<1>4. /\ LiveStep(queue) /\ paused' \in BOOLEAN /\ owner' \in Browsers \cup {None} /\ up
      /\ paused' => owner' # None \/ ControlExecuting'
      /\ ~paused' /\ acquirable => loop' # "idle"
      /\ ~paused' /\ loop' = "delay" => fresh'
  <2>1. up
    BY <1>1, OperationFields DEF Gone, None
  <2>2. \A r \in 1 .. issued : r \notin op.reqs => status'[r] = status[r]
    BY <1>1, <1>2, InteractionAssumption DEF TypeOK, Requests
  <2> QED
    BY <1>1, <2>1, <2>2, EndStep
<1>5. Work(queue, NoOp, status', request)
  BY <1>1, <1>2, WorkEnd
<1>6. queue' \in Seq(Entry) /\ Work(queue', op', status', request')
  BY <1>1, <1>4, <1>5, LiveStepWork, TypedEntry
<1>7. TypeOK'
  BY <1>1, <1>2, <1>3, <1>4, <1>6 DEF TypeOK, LiveStep, Loops, Entry
<1>8. Gone' /\ Polls'
  BY <1>1, <1>4 DEF Gone, Polls
<1> QED
  BY <1>2, <1>3, <1>6, <1>7, <1>8 DEF IInv

\* A horizontal value is written, and everyone who waited reads it back.
LEMMA HorizontalWrittenIInv ==
  ASSUME IInv, op.kind = "write", scope' = [scope EXCEPT ![op.key] = op.val],
         status' = Becoming(op.reqs, "readback"),
         NEW s \in InOrder(op.reqs), queue' = queue \o ReadBacks(s), op' = NoOp,
         UNCHANGED <<subscribed, issued, request, conn, up, wanted, acquirable>>,
         UNCHANGED <<owner, paused, fresh, loop, left>>
  PROVE  IInv'
<1>1. TypeOK /\ Gone /\ Polls /\ Work(queue, op, status, request)
  BY DEF IInv
<1>2. /\ status' \in [Requests -> Statuses] /\ op.reqs \subseteq 1 .. issued
      /\ \A r \in op.reqs : request[r] \in Request
      /\ \A r \in Requests : status'[r] = IF r \in op.reqs THEN "readback" ELSE status[r]
      /\ 1 .. issued \subseteq Requests
      /\ \A r \in 1 .. issued :
           status'[r] \in Unwritten =>
             status[r] \in Unwritten /\ r \notin op.reqs
      /\ Ledger' /\ OneControl'
  BY AnsweredStep
<1>3. scope' \in [Keys -> 0 .. MaxRequests] /\ ScopeIsBehind'
  BY <1>2, ScopeWritten
<1>4. op \in Operation /\ up
  BY <1>1, OperationFields DEF TypeOK, Gone, None
<1>5. queue' \in Seq(Entry) /\ Work(queue', op', status', request')
  <2>1. \A r \in op.reqs : request[r] \in Request /\ status'[r] = "readback"
    BY <1>2
  <2>2. \A r \in Requests \ op.reqs : status'[r] = status[r]
    BY <1>2
  <2>3. queue \in Seq(Entry)
    BY <1>1, TypedEntry
  <2>4. PICK q, o, st, st2 :
          /\ q \in Seq(Entry) /\ o \in Operation
          /\ q = queue /\ o = op /\ st = status /\ st2 = status'
    BY <1>4, <2>3
  <2>5. Work(q, o, st, request) /\ s \in InOrder(o.reqs)
    BY <1>1, <2>4
  <2>6. WaitsForReadBack(o, st, st2)
    BY <2>1, <2>2, <2>4 DEF WaitsForReadBack
  <2>7. q \o ReadBacks(s) \in Seq(Entry) /\ Work(q \o ReadBacks(s), NoOp, st2, request)
    BY <2>4, <2>5, <2>6, WorkReadBacks
  <2> QED
    BY <2>4, <2>7
<1>6. TypeOK'
  BY <1>1, <1>2, <1>3, <1>5 DEF TypeOK, Entry
<1>7. ControlExecuting => ControlExecuting'
  BY <1>2 DEF ControlExecuting, Executing
<1>8. Gone' /\ Polls'
  BY <1>1, <1>4, <1>7 DEF Gone, Polls
<1> QED
  BY <1>2, <1>3, <1>5, <1>6, <1>8 DEF IInv

\* A live read has ended.
LEMMA ReadEndIInv ==
  ASSUME IInv, op.kind = "live", ReadDone \/ ReadFailed, op' = NoOp,
         UNCHANGED <<subscribed, issued, request, conn, up, wanted, acquirable>>
  PROVE  IInv'
<1>1. TypeOK /\ Ledger /\ Gone /\ Polls /\ Work(queue, op, status, request)
      /\ OneControl /\ ScopeIsBehind
  BY DEF IInv
<1>2. UNCHANGED <<owner, status, scope, paused>>
  BY DEF ReadDone, ReadFailed
<1>3. up
  BY <1>1, OperationFields DEF Gone, None
<1>4. /\ LiveStep(queue)
      /\ ~paused /\ acquirable => loop' # "idle"
      /\ ~paused /\ loop' = "delay" => fresh'
  <2>1. /\ loop \in Loops /\ left \in 0 .. Sources /\ fresh \in BOOLEAN
        /\ 0 \in 0 .. Sources /\ TRUE \in BOOLEAN
    BY <1>1, InteractionAssumption DEF TypeOK, Loops
  <2>2. CASE paused
    <3>1. Becomes(LoopTop(wanted, paused, fresh, queue))
      BY <2>2 DEF ReadDone, ReadFailed
    <3>2. LiveStep(queue)
      BY <1>1, <2>1, <3>1, LoopTopStep
    <3> QED
      BY <2>2, <3>2
  <2>3. CASE ~paused /\ ReadDone
    <3>1. loop' = "gap" /\ UNCHANGED <<left, fresh, queue>>
      BY <2>3 DEF ReadDone
    <3> QED
      BY <2>1, <3>1 DEF LiveStep, Loops
  <2>4. CASE ~paused /\ ReadFailed
    <3>1. loop' = "delay" /\ left' = 0 /\ fresh' = TRUE /\ queue' = queue
      BY <2>4 DEF ReadFailed, Becomes
    <3> QED
      BY <2>1, <3>1 DEF LiveStep, Loops
  <2> QED
    BY <2>2, <2>3, <2>4
<1>5. Work(queue, NoOp, status, request)
  BY <1>1, WorkEnd
<1>6. queue' \in Seq(Entry) /\ Work(queue', op', status', request')
  BY <1>1, <1>2, <1>4, <1>5, LiveStepWork, TypedEntry
<1>7. TypeOK'
  BY <1>1, <1>2, <1>4, <1>6 DEF TypeOK, LiveStep, Loops, Entry
<1>8. Ledger' /\ OneControl' /\ ScopeIsBehind' /\ ControlExecuting' = ControlExecuting
  BY <1>1, <1>2, RequestsKept
<1>9. Gone' /\ Polls'
  BY <1>1, <1>2, <1>3, <1>4, <1>8 DEF Gone, Polls
<1> QED
  BY <1>6, <1>7, <1>8, <1>9 DEF IInv

\* A request has prepared the scope for its write.
LEMMA PreparedIInv ==
  ASSUME IInv, NEW r \in Requests, Prepared(r)
  PROVE  IInv'
<1>1. TypeOK /\ Ledger /\ Gone /\ Polls /\ Work(queue, op, status, request)
      /\ OneControl /\ ScopeIsBehind
  BY DEF IInv
<1>2. /\ UNCHANGED <<subscribed, issued, request, op, scope, conn, up, wanted, acquirable>>
      /\ status[r] = "preparing"
  BY DEF Prepared
<1>3. /\ 1 .. issued \subseteq Requests /\ r \in 1 .. issued
      /\ request[r] \in Request /\ request[r].conn = conn
  <2>1. ~(r > issued) /\ request[r].conn = conn
    BY <1>1, <1>2 DEF Ledger, Accepted
  <2>2. issued \in Nat /\ r \in Nat /\ r >= 1 /\ 1 .. issued \subseteq Requests
    BY <1>1, InteractionAssumption DEF TypeOK, Requests
  <2>3. r \in 1 .. issued
    BY <2>1, <2>2
  <2>4. request \in Seq(Request) /\ Len(request) = issued
    BY <1>1 DEF TypeOK
  <2> QED
    BY <2>1, <2>2, <2>3, <2>4
<1>4. PICK x \in {"writing", "failed"} :
        /\ status' = [status EXCEPT ![r] = x]
        /\ x = "writing" => /\ up /\ UNCHANGED <<owner, paused, fresh, loop, left>>
                            /\ queue' = Schedule(queue, OpOf(r, request[r], "write"))
        /\ x = "failed" => End({r})
  BY DEF Prepared
<1>5. /\ status \in [Requests -> Statuses] /\ status' \in [Requests -> Statuses]
      /\ status'[r] = x /\ \A s \in Requests : s # r => status'[s] = status[s]
  BY <1>1, <1>4 DEF TypeOK, Statuses
<1>6. Ledger'
  BY <1>1, <1>2, <1>4, <1>5 DEF Ledger, Accepted
<1>7. OneControl' /\ ScopeIsBehind'
  <2>1. /\ \A s \in 1 .. issued : Executing(s)' => Executing(s)
        /\ \A s \in 1 .. issued : status'[s] = "queued" <=> status[s] = "queued"
        /\ \A s \in 1 .. issued : status'[s] \in Unwritten => status[s] \in Unwritten
    BY <1>2, <1>3, <1>4, <1>5 DEF Executing, Unwritten
  <2>2. OneControl'
    BY <1>1, <1>2, <2>1 DEF OneControl, IsControl
  <2>3. ScopeIsBehind'
    BY <1>1, <1>2, <2>1 DEF ScopeIsBehind, IsControl
  <2> QED
    BY <2>2, <2>3
<1>8. CASE x = "writing"
  <2>1. queue' \in Seq(Entry) /\ Work(queue', op', status', request')
    <3> DEFINE q == Schedule(queue, OpOf(r, request[r], "write"))
    <3>1. q \in Seq(Entry) /\ Work(q, op, status', request)
      BY <1>1, <1>2, <1>3, <1>5, <1>8, TypedEntry, WorkSchedule DEF Scheduled
    <3> QED
      BY <1>2, <1>4, <1>8, <3>1
  <2>2. TypeOK'
    BY <1>1, <1>2, <1>4, <1>5, <1>8, <2>1 DEF TypeOK, Entry
  <2>3. ControlExecuting => ControlExecuting'
    BY <1>2, <1>3, <1>5, <1>8 DEF ControlExecuting, Executing
  <2>4. Gone' /\ Polls'
    BY <1>1, <1>2, <1>4, <1>8, <2>3 DEF Gone, Polls
  <2> QED
    BY <1>6, <1>7, <2>1, <2>2, <2>4 DEF IInv
<1>9. CASE x = "failed"
  <2>1. /\ LiveStep(queue) /\ paused' \in BOOLEAN /\ owner' \in Browsers \cup {None}
        /\ up => /\ paused' => owner' # None \/ ControlExecuting'
                 /\ ~paused' /\ acquirable => loop' # "idle"
                 /\ ~paused' /\ loop' = "delay" => fresh'
        /\ ~up => queue' = queue
    <3>1. \A s \in 1 .. issued : s \notin {r} => status'[s] = status[s]
      BY <1>3, <1>5
    <3> QED
      BY <1>1, <1>2, <1>4, <1>9, <3>1, EndStep
  <2>2. Work(queue, op, status', request)
    BY <1>1, <1>2, <1>5, <1>9, WorkFrame DEF Scheduled
  <2>3. queue' \in Seq(Entry) /\ Work(queue', op', status', request')
    BY <1>1, <1>2, <2>1, <2>2, LiveStepWork, TypedEntry
  <2>4. TypeOK'
    BY <1>1, <1>2, <1>5, <2>1, <2>3 DEF TypeOK, LiveStep, Loops, Entry
  <2>5. Gone' /\ Polls'
    BY <1>1, <1>2, <1>5, <1>9, <2>1 DEF Gone, Polls, Scheduled
  <2> QED
    BY <1>6, <1>7, <2>3, <2>4, <2>5 DEF IInv
<1> QED
  BY <1>8, <1>9

LEMMA OpDoneIInv ==
  ASSUME IInv, OpDone
  PROVE  IInv'
<1>1. op' = NoOp /\ UNCHANGED <<subscribed, issued, request, conn, up, wanted, acquirable>>
  BY DEF OpDone
<1>2. CASE Written
  <2>1. op.kind = "write" /\ scope' = [scope EXCEPT ![op.key] = op.val]
    BY <1>2 DEF Written
  <2>2. CASE op.key = "horizontal"
    <3>1. PICK s \in InOrder(op.reqs) : queue' = queue \o ReadBacks(s)
      BY <1>2, <2>2 DEF Written
    <3>2. status' = Becoming(op.reqs, "readback") /\ UNCHANGED <<owner, paused, fresh, loop, left>>
      BY <1>2, <2>2 DEF Written
    <3> QED
      BY <1>1, <2>1, <3>1, <3>2, HorizontalWrittenIInv
  <2>3. CASE op.key # "horizontal"
    <3>1. status' = Becoming(op.reqs, "done") /\ End(op.reqs)
      BY <1>2, <2>3 DEF Written
    <3> QED
      BY <1>1, <2>1, <3>1, EndIInv
  <2> QED
    BY <2>2, <2>3
<1>3. CASE ReadBack
  <2>1. op.kind = "readback" /\ status' = Becoming(op.reqs, "done") /\ End(op.reqs) /\ scope' = scope
    BY <1>3 DEF ReadBack
  <2> QED
    BY <1>1, <2>1, EndIInv
<1>4. CASE Failed
  <2>1. /\ op.kind \in {"write", "readback"} /\ status' = Becoming(op.reqs, "failed")
        /\ End(op.reqs) /\ scope' = scope
    BY <1>4 DEF Failed
  <2> QED
    BY <1>1, <2>1, EndIInv
<1>5. CASE ReadDone \/ ReadFailed
  BY <1>1, <1>5, ReadEndIInv DEF ReadDone, ReadFailed
<1> QED
  BY <1>2, <1>3, <1>4, <1>5 DEF OpDone

-----------------------------------------------------------------------------
(* The inductive invariant holds.                                          *)

LEMMA InitIInv == Init => IInv
<1> SUFFICES ASSUME Init PROVE IInv
  OBVIOUS
<1>1. /\ owner = None /\ subscribed = Browsers /\ issued = 0 /\ request = <<>>
      /\ status = [r \in Requests |-> "unsent"] /\ op = NoOp
      /\ scope = [k \in Keys |-> 0] /\ conn = 1 /\ up = TRUE /\ wanted = TRUE
      /\ paused = FALSE /\ fresh = FALSE /\ acquirable \in BOOLEAN
      /\ loop = (IF acquirable THEN "reading" ELSE "idle")
      /\ left = (IF acquirable THEN Sources - 1 ELSE 0)
      /\ queue = (IF acquirable THEN <<LiveRead>> ELSE <<>>)
  BY InteractionAssumption DEF Init
<1>2. /\ Sources - 1 \in 0 .. Sources /\ 0 \in 0 .. Sources /\ 0 \in 0 .. MaxRequests
      /\ 1 \in 1 .. MaxConnections /\ \A r \in Requests : r > 0
  BY InteractionAssumption DEF Requests
<1>3. Work(<<>>, op, status, request)
  BY <1>1, OperationFields DEF Work, Fits, None
<1>4. queue \in Seq(Entry) /\ Work(queue, op, status, request)
  <2>1. <<>> \in Seq(Entry) /\ LiveRead \in Entry
    BY DEF Entry
  <2>2. queue = Append(<<>>, LiveRead) \/ queue = <<>>
    BY <1>1, <2>1
  <2> QED
    BY <1>3, <2>1, <2>2, WorkAppendLive
<1>5. TypeOK
  <2>1. request \in Seq(Request) /\ Len(request) = issued
    BY <1>1
  <2>2. status \in [Requests -> Statuses]
    BY <1>1 DEF Statuses
  <2> QED
    BY <1>1, <1>2, <1>4, <2>1, <2>2 DEF TypeOK, Entry
<1>6. Ledger
  BY <1>1, <1>2 DEF Ledger, Accepted, Scheduled
<1>7. Gone /\ Polls
  BY <1>1 DEF Gone, Polls
<1>8. OneControl /\ ScopeIsBehind
  BY <1>1 DEF OneControl, ScopeIsBehind
<1> QED
  BY <1>4, <1>5, <1>6, <1>7, <1>8 DEF IInv

LEMMA NextIInv == IInv /\ [Next]_vars => IInv'
<1> SUFFICES ASSUME IInv, [Next]_vars PROVE IInv'
  OBVIOUS
<1>1. CASE PauseOver \/ StartOp \/ NextControl
  BY <1>1, PauseOverIInv, StartOpIInv, NextControlIInv
<1>2. CASE \E b \in Browsers, kind \in Kinds \ {"control"}, key \in Keys :
             Interaction(kind, b, key)
  <2>1. Kinds \ {"control"} \subseteq {"update", "commit"} /\ Keys \subseteq AllKeys
    BY InteractionAssumption DEF AllKinds
  <2> QED
    BY <1>2, <2>1, InteractionIInv
<1>3. CASE \E b \in Browsers : HorizontalControl(b) \/ Unsubscribe(b)
  BY <1>3, HorizontalControlIInv, UnsubscribeIInv
<1>4. CASE OpDone
  BY <1>4, OpDoneIInv
<1>5. CASE GapOver \/ DelayOver \/ StateChanged
  BY <1>5, TimersIInv
<1>6. CASE Disconnect \/ Reconnect
  BY <1>6, DisconnectIInv, ReconnectIInv
<1>8. CASE \E r \in Requests : Prepared(r)
  BY <1>8, PreparedIInv
<1>7. CASE UNCHANGED vars
  BY <1>7 DEF vars, live, IInv, TypeOK, Ledger, Gone, Polls, ControlExecuting, Executing,
              OneControl, ScopeIsBehind, IsControl
<1> QED
  BY <1>1, <1>2, <1>3, <1>4, <1>5, <1>6, <1>7, <1>8 DEF Next

LEMMA Invariance == Spec => []IInv
<1>1. Init => IInv
  BY InitIInv
<1>2. IInv /\ [Next]_vars => IInv'
  BY NextIInv
<1> QED
  BY <1>1, <1>2, PTL DEF Spec

-----------------------------------------------------------------------------
(* The theorems.                                                           *)

\* Every variable keeps its kind.
THEOREM TypeCorrect == Spec => []TypeOK
<1>1. IInv => TypeOK
  BY DEF IInv
<1> QED
  BY <1>1, Invariance, PTL

\* The live display never freezes for good: a pause has somebody who ends it,
\* and while nobody pauses the polling loop of an acquiring scope is alive
\* (pauseLiveWaveform, resumeLiveWaveform, LiveWaveformService.runLoop).
THEOREM LiveAlwaysPolls == Spec => []LiveKeepsPolling
<1>1. IInv => LiveKeepsPolling
  BY DEF IInv, Polls, LiveKeepsPolling
<1> QED
  BY <1>1, Invariance, PTL

\* Work accepted on one connection never reaches the scope on the next
\* (ScpiScheduler.stop, ScopeRuntime.disposeSession, waitForIdle).
THEOREM NeverReplayed == Spec => []NoReplay
<1>1. ASSUME IInv, NEW o, o = op \/ (\E i \in DOMAIN queue : o = queue[i]), NEW r \in o.reqs
      PROVE  request[r].conn = conn
  <2>1. Ledger /\ Fits(o, status, request)
    BY <1>1 DEF IInv, Work
  <2>2. r \in Requests /\ status[r] \in Scheduled
    BY <1>1, <2>1, FitsScheduled
  <2> QED
    BY <2>1, <2>2 DEF Ledger, Accepted
<1>2. IInv => NoReplay
  BY <1>1 DEF NoReplay, ToSet
<1> QED
  BY <1>2, Invariance, PTL

\* The horizontal controls of all browsers reach the scope in the order sent
\* (ScopeWebSocketAdapter.enqueueHorizontalControl).
THEOREM ControlsReachInOrder == Spec => ControlsInOrder
<1> DEFINE InOrderStep ==
      \A k \in Keys :
        /\ scope'[k] # scope[k] /\ scope[k] # 0
        /\ request[scope[k]].kind = "control"
        /\ request[scope'[k]].kind = "control"
        => scope[k] < scope'[k]
<1>1. ASSUME IInv, [Next]_vars PROVE scope' = scope \/ Written
  BY <1>1 DEF Next, vars, PauseOver, StartOp, NextControl, Interaction, HorizontalControl,
              NewRequest, Unsubscribe, OpDone, ReadBack, Failed, ReadDone, ReadFailed, GapOver,
              DelayOver, StateChanged, Disconnect, Reconnect, NewSession, Prepared
<1>2. ASSUME IInv, Written, NEW k \in Keys, scope'[k] # scope[k], scope[k] # 0,
             request[scope[k]].kind = "control", request[scope'[k]].kind = "control"
      PROVE  scope[k] < scope'[k]
  <2>1. TypeOK /\ Ledger /\ ScopeIsBehind /\ Fits(op, status, request)
    BY <1>2 DEF IInv, Work
  <2>2. op.kind = "write" /\ scope' = [scope EXCEPT ![op.key] = op.val]
    BY <1>2 DEF Written
  <2>3. scope'[k] = op.val
    BY <1>2, <2>1, <2>2 DEF TypeOK
  <2>4. op.val \in Requests /\ status[op.val] = "writing"
    BY <2>1, <2>2 DEF Fits
  <2>5. op.val \in 1 .. issued
    <3>1. ~(op.val > issued) /\ issued \in Nat
      BY <2>1, <2>4, InteractionAssumption DEF Ledger, TypeOK
    <3> QED
      BY <2>4, <3>1, InteractionAssumption DEF Requests
  <2> QED
    BY <1>2, <2>1, <2>3, <2>4, <2>5 DEF ScopeIsBehind, IsControl, Unwritten
<1>3. IInv /\ [Next]_vars => [InOrderStep]_vars
  BY <1>1, <1>2
<1> QED
  BY <1>3, Invariance, PTL DEF Spec, ControlsInOrder

-----------------------------------------------------------------------------
(* A scope that does not acquire.                                          *)

\* There is nothing to read; a pause is over at once.
Still ==
  /\ loop = "idle" /\ op.kind # "live"
  /\ \A i \in DOMAIN queue : queue[i].kind # "live"
  /\ \A r \in 1 .. issued : status[r] = "pausing" => IsControl(r) \/ r = issued

KeysKnown == \A r \in 1 .. issued : request[r].key \in Keys

\* The value of u would undo the commit c.
Undoes(u, c, rq) ==
  rq[u].kind = "update" /\ rq[u].who = rq[c].who /\ ~rq[u].prepares /\ u < c

\* A movement of the control key that would undo the commit c.
StaleMovement(o, c, rq) ==
  IsMovement(o) /\ o.key = rq[c].key /\ Undoes(o.val, c, rq)

Commits(S) == {c \in 1 .. issued : request[c].kind = "commit" /\ status[c] \in S}

\* Once a commit is scheduled no movement it completes is left in the queue;
\* once it is written none runs, and none has the control.
Overtaken ==
  \A c \in Commits({"writing", "readback", "done"}) :
    \A i \in DOMAIN queue : ~StaleMovement(queue[i], c, request)

Settled ==
  \A c \in Commits({"readback", "done"}) :
    /\ ~StaleMovement(op, c, request)
    /\ scope[request[c].key] # 0
    /\ ~Undoes(scope[request[c].key], c, request)

StoppedInv == Still /\ KeysKnown /\ Overtaken /\ Settled

Apart(q) == \A i, j \in DOMAIN q : i # j => Separate(q[i], q[j])

\* An operation of the queue after the write of r was scheduled in the queue q.
Held(o, q, r, rq) ==
  \/ o.kind = "write" /\ o.val = r /\ o.prio = rq[r].kind
  \/ \E j \in DOMAIN q :
       /\ o = q[j]
       /\ rq[r].kind = "commit" => ~(IsMovement(q[j]) /\ q[j].key = rq[r].key)

\* What the queue holds once the write of a request is scheduled.
LEMMA ScheduleContents ==
  ASSUME NEW q \in Seq(Entry), NEW r \in Requests, NEW rq, rq[r] \in Request,
         Apart(q), NEW p, p = Schedule(q, OpOf(r, rq[r], "write")), NEW k \in DOMAIN p
  PROVE  Held(p[k], q, r, rq)
<1> USE DEF Held
<1> DEFINE e == OpOf(r, rq[r], "write")
           same == Movement(q, e.key)
           i == CHOOSE j \in same : TRUE
           all == [e EXCEPT !.reqs = @ \cup q[i].reqs]
<1>1. /\ e \in Operation /\ e.kind = "write" /\ e.prio = rq[r].kind /\ e.key = rq[r].key
      /\ e.val = r /\ e.reqs = {r}
  BY DEF OpOf, Operation, Request
<1>2. p = IF e.kind # "write" \/ e.prio = "control" \/ same = {} THEN Append(q, e)
          ELSE IF e.prio = "update" THEN [q EXCEPT ![i] = all]
          ELSE Append(RemoveAt(q, i), all)
  BY DEF Schedule
<1>3. same = {j \in DOMAIN q : IsMovement(q[j]) /\ q[j].key = e.key}
  BY DEF Movement, IsMovement
<1>4. same # {} => i \in same
  OBVIOUS
<1> HIDE DEF e, same, i, all
<1>5. CASE e.prio = "control" \/ same = {}
  <2>1. p = Append(q, e) /\ e \in Entry
    BY <1>1, <1>2, <1>5 DEF Entry
  <2>2. p[k] = e \/ \E j \in DOMAIN q : p[k] = q[j]
    BY <2>1, AppendIs
  <2> QED
    BY <1>1, <1>3, <1>5, <2>2
<1>6. CASE e.prio # "control" /\ same # {}
  <2>1. i \in DOMAIN q /\ IsMovement(q[i]) /\ q[i].key = e.key /\ q[i] \in Entry
    BY <1>3, <1>4, <1>6, LenProperties
  <2>2. q[i] \in Operation
    BY <2>1, OperationFields DEF Entry, IsMovement
  <2>3. all \in Operation /\ all.kind = "write" /\ all.prio = e.prio /\ all.val = r
    <3>1. q[i].reqs \in SUBSET Requests
      BY <2>2, OperationFields
    <3>2. all \in Operation /\ all.kind = e.kind /\ all.prio = e.prio /\ all.val = e.val
      BY <1>1, <3>1, MergeRequests, Zenon DEF all
    <3> QED
      BY <1>1, <3>2
  <2>4. all \in Entry
    BY <2>3 DEF Entry
  <2>5. CASE e.prio = "update"
    <3>1. p = [q EXCEPT ![i] = all]
      BY <1>1, <1>2, <1>6, <2>5
    <3>2. p[k] = all \/ \E j \in DOMAIN q : p[k] = q[j]
      BY <2>1, <2>4, <3>1
    <3> QED
      BY <1>1, <2>3, <2>5, <3>2
  <2>6. CASE e.prio # "update"
    <3>1. p = Append(RemoveAt(q, i), all)
      BY <1>1, <1>2, <1>6, <2>6
    <3>2. /\ RemoveAt(q, i) \in Seq(Entry)
          /\ DOMAIN q = 1 .. Len(q) /\ Len(q) \in Nat
          /\ DOMAIN RemoveAt(q, i) = 1 .. Len(q) - 1
          /\ \A j \in 1 .. Len(q) - 1 : RemoveAt(q, i)[j] = IF j < i THEN q[j] ELSE q[j + 1]
      BY <2>1, RemoveAtIs
    <3>3. p[k] = all \/ \E j \in DOMAIN RemoveAt(q, i) : p[k] = RemoveAt(q, i)[j]
      BY <2>4, <3>1, <3>2, AppendIs
    <3>4. p[k] = all \/ \E j \in DOMAIN q \ {i} : p[k] = q[j]
      <4>1. ASSUME NEW j \in DOMAIN RemoveAt(q, i)
            PROVE  \E l \in DOMAIN q \ {i} : RemoveAt(q, i)[j] = q[l]
        <5>1. CASE j < i
          BY <2>1, <3>2, <5>1
        <5>2. CASE ~(j < i)
          <6>1. j + 1 \in DOMAIN q \ {i} /\ RemoveAt(q, i)[j] = q[j + 1]
            BY <2>1, <3>2, <5>2
          <6> QED
            BY <6>1
        <5> QED
          BY <5>1, <5>2
      <4> QED
        BY <3>3, <4>1
    <3>5. \A j \in DOMAIN q \ {i} : ~(IsMovement(q[j]) /\ q[j].key = e.key)
      BY <2>1 DEF Apart, Separate
    <3> QED
      BY <1>1, <2>3, <3>4, <3>5
  <2> QED
    BY <2>5, <2>6
<1> QED
  BY <1>5, <1>6

\* A scope that does not acquire has no use for a fresh waveform.
LEMMA StillFresh ==
  ASSUME loop = "idle", ~acquirable, NEW p, NEW q, RequestFresh(p, q)
  PROVE  loop' = "idle" /\ queue' = q
BY DEF RequestFresh, Becomes, LoopTop

LEMMA StillResume ==
  ASSUME loop = "idle", ~acquirable, NEW q, Resume(q)
  PROVE  loop' = "idle" /\ queue' = q
<1>1. RequestFresh(paused', q)
  BY DEF Resume
<1>2. PICK p : p = paused'
  OBVIOUS
<1>3. RequestFresh(p, q)
  BY <1>1, <1>2
<1> QED
  BY <1>3, StillFresh

\* The requests the scheduler's work belongs to have been sent.
LEMMA MovementIsSent ==
  ASSUME IInv, NEW o, o = op \/ (\E i \in DOMAIN queue : o = queue[i]), IsMovement(o)
  PROVE  o.val \in 1 .. issued
<1>1. TypeOK /\ Ledger /\ Fits(o, status, request)
  BY DEF IInv, Work
<1>2. o.val \in Requests /\ status[o.val] \in Scheduled
  BY <1>1 DEF Fits, IsMovement, Scheduled
<1>3. ~(o.val > issued) /\ issued \in Nat
  BY <1>1, <1>2, InteractionAssumption DEF Ledger, Scheduled, TypeOK
<1> QED
  BY <1>2, <1>3, InteractionAssumption DEF Requests

\* A step that schedules no write.
LEMMA OvertakenKept ==
  ASSUME IInv, Overtaken,
         \A r \in 1 .. issued : request'[r] = request[r],
         \A c \in 1 .. issued' : status'[c] \in {"writing", "readback", "done"} =>
           c \in 1 .. issued /\ status[c] \in {"writing", "readback", "done"},
         \A i \in DOMAIN queue' : IsMovement(queue'[i]) =>
           \E j \in DOMAIN queue : queue'[i] = queue[j]
  PROVE  Overtaken'
<1> SUFFICES ASSUME NEW c \in 1 .. issued', request'[c].kind = "commit",
                    status'[c] \in {"writing", "readback", "done"},
                    NEW i \in DOMAIN queue', StaleMovement(queue'[i], c, request')
             PROVE  FALSE
  BY DEF Overtaken, Commits
<1>1. c \in Commits({"writing", "readback", "done"}) /\ request'[c] = request[c]
  BY DEF Commits
<1>2. PICK o : o = queue'[i]
  OBVIOUS
<1>3. IsMovement(o) /\ \E j \in DOMAIN queue : o = queue[j]
  BY <1>2 DEF StaleMovement
<1>4. request'[o.val] = request[o.val]
  BY <1>3, MovementIsSent
<1>5. StaleMovement(o, c, request)
  BY <1>1, <1>2, <1>4 DEF StaleMovement, Undoes
<1> QED
  BY <1>1, <1>3, <1>5 DEF Overtaken

\* A step that schedules the write of r.
LEMMA OvertakenScheduled ==
  ASSUME IInv, Overtaken, NEW r \in Requests, 1 .. issued' = 1 .. issued \cup {r},
         issued' \in Nat, request'[r] \in Request,
         \A s \in 1 .. issued : request'[s] = request[s],
         \A c \in Requests \ {r} : status'[c] = status[c],
         1 .. issued' \subseteq Requests,
         request'[r].kind = "update" /\ ~request'[r].prepares => r = issued',
         queue' = Schedule(queue, OpOf(r, request'[r], "write"))
  PROVE  Overtaken'
<1> SUFFICES ASSUME NEW c \in 1 .. issued', request'[c].kind = "commit",
                    status'[c] \in {"writing", "readback", "done"},
                    NEW i \in DOMAIN queue', StaleMovement(queue'[i], c, request')
             PROVE  FALSE
  BY DEF Overtaken, Commits
<1>1. queue \in Seq(Entry) /\ Apart(queue)
  BY TypedEntry DEF IInv, Work, Apart
<1>2. PICK o : o = queue'[i]
  OBVIOUS
<1>3. Held(o, queue, r, request')
  <2>1. PICK q, rq, p : q = queue /\ rq = request' /\ p = queue'
    OBVIOUS
  <2>2. /\ q \in Seq(Entry) /\ Apart(q)
        /\ rq[r] \in Request /\ p = Schedule(q, OpOf(r, rq[r], "write")) /\ i \in DOMAIN p
    BY <1>1, <2>1
  <2>3. Held(p[i], q, r, rq)
    BY <2>2, ScheduleContents
  <2> QED
    BY <1>2, <2>1, <2>3
<1>4. IsMovement(o) /\ o.key = request'[c].key /\ Undoes(o.val, c, request')
  BY <1>2 DEF StaleMovement
<1>5. CASE o.val = r /\ o.prio = request'[r].kind
  <2>1. r = issued' /\ c <= issued' /\ o.val < c /\ c \in Nat
    BY <1>4, <1>5 DEF IsMovement, Undoes
  <2> QED
    BY <1>5, <2>1
<1>6. CASE \E j \in DOMAIN queue :
             /\ o = queue[j]
             /\ request'[r].kind = "commit" =>
                  ~(IsMovement(queue[j]) /\ queue[j].key = request'[r].key)
  <2>1. c # r
    BY <1>4, <1>6
  <2>2. c \in Commits({"writing", "readback", "done"}) /\ request'[c] = request[c]
    BY <2>1 DEF Commits
  <2>3. request'[o.val] = request[o.val]
    BY <1>4, <1>6, MovementIsSent
  <2>4. StaleMovement(o, c, request)
    BY <1>4, <2>2, <2>3 DEF StaleMovement, Undoes
  <2> QED
    BY <1>6, <2>2, <2>4 DEF Overtaken
<1> QED
  BY <1>3, <1>5, <1>6 DEF Held

\* A step that writes nothing.
LEMMA SettledKept ==
  ASSUME IInv, Settled, KeysKnown, scope' = scope, op' = op \/ ~IsMovement(op'),
         \A r \in 1 .. issued : request'[r] = request[r],
         \A c \in 1 .. issued' : status'[c] \in {"readback", "done"} =>
           c \in 1 .. issued /\ status[c] \in {"readback", "done"}
  PROVE  Settled'
<1> SUFFICES ASSUME NEW c \in 1 .. issued', request'[c].kind = "commit",
                    status'[c] \in {"readback", "done"}
             PROVE  /\ ~StaleMovement(op', c, request')
                    /\ scope'[request'[c].key] # 0
                    /\ ~Undoes(scope'[request'[c].key], c, request')
  BY DEF Settled, Commits
<1>1. c \in Commits({"readback", "done"}) /\ request'[c] = request[c] /\ request[c].key \in Keys
  BY DEF Commits, KeysKnown
<1>2. ~StaleMovement(op', c, request')
  <2>1. SUFFICES ASSUME StaleMovement(op', c, request') PROVE FALSE
    OBVIOUS
  <2>2. op' = op /\ IsMovement(op)
    BY <2>1 DEF StaleMovement
  <2>3. request'[op.val] = request[op.val]
    BY <2>2, MovementIsSent
  <2>4. StaleMovement(op, c, request)
    BY <1>1, <2>1, <2>2, <2>3 DEF StaleMovement, Undoes
  <2> QED
    BY <1>1, <2>4 DEF Settled
<1>3. PICK v : v = scope[request[c].key]
  OBVIOUS
<1>4. v # 0 /\ ~Undoes(v, c, request)
  BY <1>1, <1>3 DEF Settled
<1>5. v \in 1 .. issued
  BY <1>1, <1>3, <1>4, InteractionAssumption DEF IInv, TypeOK, ScopeIsBehind
<1>6. ~Undoes(v, c, request')
  BY <1>1, <1>4, <1>5 DEF Undoes
<1> QED
  BY <1>1, <1>2, <1>3, <1>4, <1>6

\* The queue, the running operation and the requests, after a step that sends,
\* schedules and writes nothing.
LEMMA StoppedKept ==
  ASSUME IInv, StoppedInv, loop' = "idle", UNCHANGED <<issued, request, scope>>,
         op' = op \/ op' = NoOp,
         \A i \in DOMAIN queue' : \E j \in DOMAIN queue : queue'[i] = queue[j],
         \A r \in 1 .. issued :
           /\ status'[r] = "pausing" => status[r] = "pausing" \/ IsControl(r)
           /\ status'[r] \in {"writing", "readback", "done"} =>
                status[r] \in {"writing", "readback", "done"}
           /\ status'[r] \in {"readback", "done"} => status[r] \in {"readback", "done"}
  PROVE  StoppedInv'
<1>1. Still /\ KeysKnown /\ Overtaken /\ Settled
  BY DEF StoppedInv
<1>2. op' = op \/ (op'.kind # "live" /\ ~IsMovement(op'))
  BY OperationFields DEF IsMovement, None
<1>3. Still'
  BY <1>1, <1>2 DEF Still, IsControl
<1>4. KeysKnown'
  BY <1>1 DEF KeysKnown
<1>5. Overtaken'
  BY <1>1, OvertakenKept
<1>6. Settled'
  BY <1>1, <1>2, SettledKept
<1> QED
  BY <1>3, <1>4, <1>5, <1>6 DEF StoppedInv

LEMMA PauseOverStopped ==
  ASSUME IInv, StoppedInv, ~acquirable, PauseOver
  PROVE  StoppedInv'
<1>1. Still /\ KeysKnown /\ Overtaken /\ Settled /\ TypeOK /\ Ledger
  BY DEF StoppedInv, IInv
<1>2. UNCHANGED <<owner, subscribed, issued, request, op, scope, conn, up, wanted, paused,
                  acquirable>>
  BY DEF PauseOver
<1>3. PICK r \in Requests : status[r] = "pausing" /\ Write(r, request[r])
  BY DEF PauseOver, Oldest
<1>4. /\ issued \in Nat /\ 1 .. issued \subseteq Requests /\ r \in 1 .. issued
      /\ request[r] \in Request
  <2>1. ~(r > issued)
    BY <1>1, <1>3 DEF Ledger
  <2>2. /\ issued \in Nat /\ r \in Nat /\ r >= 1 /\ 1 .. issued \subseteq Requests
        /\ request \in Seq(Request) /\ Len(request) = issued
    BY <1>1, InteractionAssumption DEF TypeOK, Requests
  <2>3. r \in 1 .. issued
    BY <2>1, <2>2
  <2> QED
    BY <2>2, <2>3
<1>5. PICK x \in {"writing", "preparing", "failed"} : status' = [status EXCEPT ![r] = x]
  BY <1>3 DEF Write
<1>6. status'[r] = x /\ \A s \in Requests \ {r} : status'[s] = status[s]
  BY <1>1, <1>5 DEF TypeOK
<1>7. loop = "idle"
  BY <1>1 DEF Still
<1>8. CASE ~up
  <2>1. x = "failed" /\ UNCHANGED <<queue, loop>>
    BY <1>3, <1>5, <1>6, <1>8 DEF Write
  <2> QED
    BY <1>2, <1>4, <1>6, <1>7, <2>1, StoppedKept
<1>10. CASE up /\ x # "writing"
  <2>1. x = "preparing" /\ RequestFresh(paused, queue)
    BY <1>3, <1>5, <1>6, <1>10 DEF Write
  <2>2. loop' = "idle" /\ queue' = queue
    BY <1>7, <2>1, StillFresh
  <2> QED
    BY <1>2, <1>4, <1>6, <2>1, <2>2, StoppedKept
<1>9. CASE up /\ x = "writing"
  <2> DEFINE q == Schedule(queue, OpOf(r, request[r], "write"))
  <2>1. status'[r] = "writing" /\ RequestFresh(paused, q)
    BY <1>3, <1>5, <1>6, <1>9 DEF Write
  <2>2. loop' = "idle" /\ queue' = q
    <3> HIDE DEF q
    <3> QED
      BY <1>7, <2>1, StillFresh
  <2>3. \A i \in DOMAIN queue' : queue'[i].kind # "live"
    <3>1. ASSUME NEW i \in DOMAIN queue' PROVE queue'[i].kind # "live"
      <4>1. PICK k, rq, p : k = queue /\ rq = request /\ p = queue'
        OBVIOUS
      <4>2. /\ k \in Seq(Entry) /\ Apart(k) /\ rq[r] \in Request
            /\ p = Schedule(k, OpOf(r, rq[r], "write")) /\ i \in DOMAIN p
        BY <1>4, <2>2, <4>1, TypedEntry DEF IInv, Work, Apart
      <4>3. Held(p[i], k, r, rq)
        BY <4>2, ScheduleContents
      <4> QED
        BY <1>1, <4>1, <4>3 DEF Held, Still
    <3> QED
      BY <3>1
  <2>4. Still'
    BY <1>1, <1>2, <1>4, <1>6, <2>1, <2>2, <2>3 DEF Still, IsControl
  <2>5. KeysKnown'
    BY <1>1, <1>2 DEF KeysKnown
  <2>6. Overtaken'
    <3>1. request[r].kind = "update" => r = issued
      BY <1>1, <1>3, <1>4 DEF Still, IsControl
    <3> QED
      BY <1>1, <1>2, <1>4, <1>6, <2>2, <3>1, OvertakenScheduled
  <2>7. Settled'
    BY <1>1, <1>2, <1>4, <1>6, <2>1, SettledKept
  <2> QED
    BY <2>4, <2>5, <2>6, <2>7 DEF StoppedInv
<1> QED
  BY <1>8, <1>9, <1>10

\* A movement that was prepared is exempt: it may be scheduled late.
LEMMA PreparedStopped ==
  ASSUME IInv, StoppedInv, ~acquirable, NEW r \in Requests, Prepared(r)
  PROVE  StoppedInv'
<1>1. Still /\ KeysKnown /\ Overtaken /\ Settled /\ TypeOK /\ Ledger
  BY DEF StoppedInv, IInv
<1>2. /\ UNCHANGED <<subscribed, issued, request, op, scope, conn, up, wanted, acquirable>>
      /\ status[r] = "preparing"
  BY DEF Prepared
<1>3. /\ issued \in Nat /\ 1 .. issued \subseteq Requests /\ r \in 1 .. issued
      /\ request[r] \in Request
  <2>1. ~(r > issued)
    BY <1>1, <1>2 DEF Ledger
  <2>2. /\ issued \in Nat /\ r \in Nat /\ r >= 1 /\ 1 .. issued \subseteq Requests
        /\ request \in Seq(Request) /\ Len(request) = issued
    BY <1>1, InteractionAssumption DEF TypeOK, Requests
  <2>3. r \in 1 .. issued
    BY <2>1, <2>2
  <2> QED
    BY <2>2, <2>3
<1>4. PICK x \in {"writing", "failed"} :
        /\ status' = [status EXCEPT ![r] = x]
        /\ x = "writing" => /\ UNCHANGED <<owner, paused, fresh, loop, left>>
                            /\ queue' = Schedule(queue, OpOf(r, request[r], "write"))
        /\ x = "failed" => End({r})
  BY DEF Prepared
<1>5. status'[r] = x /\ \A s \in Requests \ {r} : status'[s] = status[s]
  BY <1>1, <1>4 DEF TypeOK
<1>6. loop = "idle"
  BY <1>1 DEF Still
<1>7. CASE x = "failed"
  <2>1. Resume(queue) \/ UNCHANGED <<queue, loop>>
    BY <1>4, <1>7 DEF End
  <2>2. loop' = "idle" /\ queue' = queue
    BY <1>6, <2>1, StillResume
  <2> QED
    BY <1>2, <1>3, <1>5, <1>7, <2>2, StoppedKept
<1>8. CASE x = "writing"
  <2>1. loop' = "idle" /\ queue' = Schedule(queue, OpOf(r, request[r], "write"))
    BY <1>4, <1>6, <1>8
  <2>2. \A i \in DOMAIN queue' : queue'[i].kind # "live"
    <3>1. ASSUME NEW i \in DOMAIN queue' PROVE queue'[i].kind # "live"
      <4>1. PICK k, rq, p : k = queue /\ rq = request /\ p = queue'
        OBVIOUS
      <4>2. /\ k \in Seq(Entry) /\ Apart(k) /\ rq[r] \in Request
            /\ p = Schedule(k, OpOf(r, rq[r], "write")) /\ i \in DOMAIN p
        BY <1>3, <2>1, <4>1, TypedEntry DEF IInv, Work, Apart
      <4>3. Held(p[i], k, r, rq)
        BY <4>2, ScheduleContents
      <4> QED
        BY <1>1, <4>1, <4>3 DEF Held, Still
    <3> QED
      BY <3>1
  <2>3. Still'
    BY <1>1, <1>2, <1>3, <1>5, <1>8, <2>1, <2>2 DEF Still, IsControl
  <2>4. KeysKnown'
    BY <1>1, <1>2 DEF KeysKnown
  <2>5. Overtaken'
    BY <1>1, <1>2, <1>3, <1>5, <2>1, OvertakenScheduled DEF Ledger
  <2>6. Settled'
    BY <1>1, <1>2, <1>3, <1>5, <1>8, <2>1, SettledKept
  <2> QED
    BY <2>3, <2>4, <2>5, <2>6 DEF StoppedInv
<1> QED
  BY <1>7, <1>8

LEMMA StartOpStopped ==
  ASSUME IInv, StoppedInv, StartOp
  PROVE  StoppedInv'
<1>1. Still /\ KeysKnown /\ Overtaken /\ Settled
  BY DEF StoppedInv
<1>2. UNCHANGED <<issued, request, status, scope, loop>>
  BY DEF StartOp, live
<1>3. PICK k \in DOMAIN queue : op' = queue[k] /\ queue' = RemoveAt(queue, k)
  BY DEF StartOp, Selectable
<1>4. \A i \in DOMAIN queue' : \E j \in DOMAIN queue : queue'[i] = queue[j]
  <2>1. PICK q : q = queue
    OBVIOUS
  <2>2. q \in Seq(Entry) /\ k \in DOMAIN q /\ Work(q, op, status, request)
    BY <2>1, TypedEntry DEF IInv
  <2>3. \A i \in DOMAIN RemoveAt(q, k) : \E j \in DOMAIN q : RemoveAt(q, k)[i] = q[j]
    BY <2>2, WorkRemove
  <2> QED
    BY <1>3, <2>1, <2>3
<1>5. Still'
  BY <1>1, <1>2, <1>3, <1>4 DEF Still, IsControl
<1>6. KeysKnown'
  BY <1>1, <1>2 DEF KeysKnown
<1>7. Overtaken'
  BY <1>1, <1>2, <1>4, OvertakenKept
<1>8. Settled'
  <2>1. ASSUME NEW c \in Commits({"readback", "done"}) PROVE ~StaleMovement(queue[k], c, request)
    BY <1>1 DEF Overtaken, Commits
  <2> QED
    BY <1>1, <1>2, <1>3, <2>1 DEF Settled, Commits
<1> QED
  BY <1>5, <1>6, <1>7, <1>8 DEF StoppedInv

LEMMA NextControlStopped ==
  ASSUME IInv, StoppedInv, NextControl
  PROVE  StoppedInv'
<1>1. UNCHANGED <<issued, request, queue, op, scope, loop>>
  BY DEF NextControl
<1>2. PICK r \in Requests : /\ status[r] = "queued"
                            /\ status' = [status EXCEPT ![r] = IF up THEN "pausing" ELSE "failed"]
  BY DEF NextControl, Oldest, QueuedControls
<1>3. IsControl(r) /\ status \in [Requests -> Statuses] /\ 1 .. issued \subseteq Requests
  BY <1>2, InteractionAssumption DEF IInv, Ledger, IsControl, TypeOK, Requests
<1>4. /\ status'[r] \in {"pausing", "failed"}
      /\ \A s \in Requests : s # r => status'[s] = status[s]
  BY <1>2, <1>3
<1>5. loop' = "idle"
  BY <1>1 DEF StoppedInv, Still
<1> QED
  BY <1>1, <1>3, <1>4, <1>5, StoppedKept

LEMMA UnsubscribeStopped ==
  ASSUME IInv, StoppedInv, ~acquirable, NEW b \in Browsers, Unsubscribe(b)
  PROVE  StoppedInv'
<1>1. UNCHANGED <<issued, request, status, op, scope>>
  BY DEF Unsubscribe
<1>2. loop = "idle"
  BY DEF StoppedInv, Still
<1>3. loop' = "idle" /\ queue' = queue
  BY <1>2, StillResume DEF Unsubscribe
<1> QED
  BY <1>1, <1>3, StoppedKept

LEMMA ConnectionStopped ==
  ASSUME IInv, StoppedInv, ~acquirable, Disconnect \/ Reconnect
  PROVE  StoppedInv'
<1>1. UNCHANGED <<issued, request, scope>>
  BY DEF Disconnect, Reconnect, NewSession
<1>2. loop' = "idle" /\ queue' = <<>>
  BY DEF StoppedInv, Still, Disconnect, Reconnect, NewSession
<1>3. op' = op \/ op' = NoOp
  BY DEF Disconnect, Reconnect, NewSession
<1>4. 1 .. issued \subseteq Requests
  BY InteractionAssumption DEF IInv, TypeOK, Requests
<1>5. \A r \in Requests : status'[r] = status[r] \/ status'[r] = "failed"
  BY DEF Disconnect, Reconnect, NewSession, Rejected
<1> QED
  BY <1>1, <1>2, <1>3, <1>4, <1>5, StoppedKept

\* A request is taken down; nobody waited for a pause.
LEMMA SentStopped ==
  ASSUME IInv, StoppedInv, NEW kind \in AllKinds, NEW b \in Browsers, NEW key \in AllKeys,
         key \in Keys, NewRequest(kind, b, key), NEW x \in {"failed", "queued", "pausing", "preparing", "writing"},
         status' = [status EXCEPT ![issued + 1] = x],
         x = "queued" => kind = "control",
         kind = "control" => x \in {"failed", "queued"},
         x = "preparing" => request'[issued + 1].prepares, loop' = "idle",
         \/ x # "writing" /\ queue' = queue
         \/ queue' = Schedule(queue, OpOf(issued + 1, request'[issued + 1], "write"))
  PROVE  StoppedInv'
<1>1. Still /\ KeysKnown /\ Overtaken /\ Settled
  BY DEF StoppedInv
<1>2. Quiet /\ issued' = issued + 1 /\ UNCHANGED <<op, scope>>
  BY DEF NewRequest
<1>3. PICK r : r = issued + 1
  OBVIOUS
<1>4. /\ issued + 1 \in Requests /\ issued' \in 0 .. MaxRequests
      /\ AsksFor(request'[issued + 1], kind, b, key)
      /\ request'[issued + 1] \in Request
      /\ \A s \in 1 .. issued : request'[s] = request[s]
      /\ status[issued + 1] = "unsent" /\ status'[issued + 1] = x
      /\ \A s \in Requests : s # issued + 1 => status'[s] = status[s]
  <2>1. TakenDown(kind, b, key, x)
    BY DEF TakenDown
  <2> QED
    BY <2>1, SentStep
<1>5. /\ r \in Requests /\ issued' \in 0 .. MaxRequests
      /\ AsksFor(request'[r], kind, b, key)
      /\ request'[r] \in Request
      /\ \A s \in 1 .. issued : request'[s] = request[s]
      /\ status[r] = "unsent" /\ status'[r] = x
      /\ \A s \in Requests : s # r => status'[s] = status[s]
  BY <1>3, <1>4
<1>6. /\ issued' \in Nat /\ r = issued' /\ 1 .. issued' = 1 .. issued \cup {r}
      /\ 1 .. issued' \subseteq Requests /\ r \notin 1 .. issued
  BY <1>2, <1>3, <1>5, InteractionAssumption DEF IInv, TypeOK, Requests
<1>7. \A s \in Requests : status[s] # "pausing"
  BY <1>1, <1>2 DEF Quiet, CanEndPause, Still
<1>8. \A i \in DOMAIN queue' : queue'[i].kind # "live"
  <2>1. CASE queue' = queue
    BY <1>1, <2>1 DEF Still
  <2>2. CASE queue' = Schedule(queue, OpOf(r, request'[r], "write"))
    <3>1. ASSUME NEW i \in DOMAIN queue' PROVE queue'[i].kind # "live"
      <4>1. PICK k, rq, p : k = queue /\ rq = request' /\ p = queue'
        OBVIOUS
      <4>2. /\ k \in Seq(Entry) /\ Apart(k) /\ rq[r] \in Request
            /\ p = Schedule(k, OpOf(r, rq[r], "write")) /\ i \in DOMAIN p
        BY <1>5, <2>2, <4>1, TypedEntry DEF IInv, Work, Apart
      <4>3. Held(p[i], k, r, rq)
        BY <1>5, <4>2, ScheduleContents
      <4> QED
        BY <1>1, <4>1, <4>3 DEF Held, Still
    <3> QED
      BY <3>1
  <2> QED
    BY <1>3, <2>1, <2>2
<1>9. Still'
  BY <1>1, <1>2, <1>5, <1>6, <1>7, <1>8 DEF Still, IsControl, AsksFor
<1>10. KeysKnown'
  BY <1>1, <1>5, <1>6 DEF KeysKnown, AsksFor
<1>11. Overtaken'
  <2>1. CASE x # "writing" /\ queue' = queue
    <3>1. \A c \in 1 .. issued' : status'[c] \in {"writing", "readback", "done"} =>
            c \in 1 .. issued /\ status[c] \in {"writing", "readback", "done"}
      BY <1>5, <1>6, <2>1
    <3> QED
      BY <1>1, <1>5, <2>1, <3>1, OvertakenKept
  <2>2. CASE queue' = Schedule(queue, OpOf(r, request'[r], "write"))
    BY <1>1, <1>5, <1>6, <2>2, OvertakenScheduled
  <2> QED
    BY <1>3, <2>1, <2>2
<1>12. Settled'
  <2>1. \A c \in 1 .. issued' : status'[c] \in {"readback", "done"} =>
          c \in 1 .. issued /\ status[c] \in {"readback", "done"}
    BY <1>5, <1>6
  <2> QED
    BY <1>1, <1>2, <1>5, <2>1, SettledKept
<1> QED
  BY <1>9, <1>10, <1>11, <1>12 DEF StoppedInv

LEMMA InteractionStopped ==
  ASSUME IInv, StoppedInv, ~acquirable, NEW kind \in {"update", "commit"}, NEW b \in Browsers,
         NEW key \in Keys, Interaction(kind, b, key)
  PROVE  StoppedInv'
<1>1. NewRequest(kind, b, key) /\ kind \in AllKinds /\ kind # "control"
  BY DEF Interaction, AllKinds
<1>2. loop = "idle"
  BY DEF StoppedInv, Still
<1>3. PICK x \in {"failed", "pausing", "preparing", "writing"} :
        /\ status' = [status EXCEPT ![issued + 1] = x] /\ loop' = "idle"
        /\ x = "preparing" => request'[issued + 1].prepares
        /\ \/ x # "writing" /\ queue' = queue
           \/ queue' = Schedule(queue, OpOf(issued + 1, request'[issued + 1], "write"))
  <2> DEFINE q == Schedule(queue, OpOf(issued + 1, request'[issued + 1], "write"))
  <2>1. \/ status' = [status EXCEPT ![issued + 1] = "failed"] /\ UNCHANGED <<queue, loop>>
        \/ status' = [status EXCEPT ![issued + 1] = "pausing"] /\ UNCHANGED <<queue, loop>>
        \/ status' = [status EXCEPT ![issued + 1] = "writing"] /\ RequestFresh(paused, q)
        \/ /\ status' = [status EXCEPT ![issued + 1] = "preparing"]
           /\ request'[issued + 1].prepares /\ RequestFresh(paused, queue)
    BY DEF Interaction, Refuse, Write, Refused
  <2>2. RequestFresh(paused, q) => loop' = "idle" /\ queue' = q
    <3> HIDE DEF q
    <3> QED
      BY <1>2, StillFresh
  <2>3. RequestFresh(paused, queue) => loop' = "idle" /\ queue' = queue
    BY <1>2, StillFresh
  <2> QED
    BY <1>2, <2>1, <2>2, <2>3
<1> QED
  BY <1>1, <1>3, InteractionAssumption, SentStopped

LEMMA HorizontalControlStopped ==
  ASSUME IInv, StoppedInv, NEW b \in Browsers, "horizontal" \in Keys, HorizontalControl(b)
  PROVE  StoppedInv'
<1>1. NewRequest("control", b, "horizontal") /\ "control" \in AllKinds
  BY DEF HorizontalControl, AllKinds
<1>2. loop = "idle"
  BY DEF StoppedInv, Still
<1>3. PICK x \in {"failed", "queued"} :
        status' = [status EXCEPT ![issued + 1] = x] /\ UNCHANGED <<queue, loop>>
  BY DEF HorizontalControl, Refuse
<1> QED
  BY <1>1, <1>2, <1>3, InteractionAssumption, SentStopped

\* The scope answers.
LEMMA OpDoneStopped ==
  ASSUME IInv, StoppedInv, ~acquirable, OpDone
  PROVE  StoppedInv'
<1>1. Still /\ KeysKnown /\ Overtaken /\ Settled /\ TypeOK /\ Fits(op, status, request)
  BY DEF StoppedInv, IInv, Work
<1>2. op' = NoOp /\ UNCHANGED <<issued, request, conn>>
  BY DEF OpDone
<1>3. /\ 1 .. issued \subseteq Requests /\ issued \in Nat
      /\ \A R : End(R) => loop' = "idle" /\ queue' = queue
  <2>1. \A R : End(R) => Resume(queue) \/ UNCHANGED <<queue, loop>>
    BY DEF End
  <2>2. Resume(queue) => loop' = "idle" /\ queue' = queue
    BY <1>1, StillResume DEF Still
  <2> QED
    BY <1>1, <2>1, <2>2, InteractionAssumption DEF Still, TypeOK, Requests
<1>4. CASE ReadBack \/ Failed
  <2>1. PICK x \in {"done", "failed"} :
          /\ status' = Becoming(op.reqs, x) /\ End(op.reqs) /\ scope' = scope
          /\ x = "done" => op.kind = "readback"
    BY <1>4 DEF ReadBack, Failed
  <2>2. \A r \in Requests : status'[r] = IF r \in op.reqs THEN x ELSE status[r]
    BY <2>1 DEF Becoming
  <2>3. x = "done" => \A r \in op.reqs : status[r] = "readback"
    BY <1>1, <2>1 DEF Fits
  <2> QED
    BY <1>2, <1>3, <2>1, <2>2, <2>3, StoppedKept
<1>5. CASE Written
  <2>1. op.kind = "write" /\ scope' = [scope EXCEPT ![op.key] = op.val]
    BY <1>5 DEF Written
  <2>2. PICK x \in {"readback", "done"} :
          /\ status' = Becoming(op.reqs, x)
          /\ x = "readback" => /\ loop' = loop
                               /\ \E s \in InOrder(op.reqs) : queue' = queue \o ReadBacks(s)
          /\ x = "done" => End(op.reqs)
    BY <1>5 DEF Written
  <2>3. /\ op.reqs \subseteq 1 .. issued
        /\ \A r \in op.reqs : request[r] \in Request
        /\ \A r \in Requests : status'[r] = IF r \in op.reqs THEN x ELSE status[r]
    BY <1>2, <2>2, AnsweredStep
  <2>4. loop' = "idle"
    BY <1>1, <1>3, <2>2 DEF Still
  <2>5. \A i \in DOMAIN queue' : (\E j \in DOMAIN queue : queue'[i] = queue[j])
                                 \/ queue'[i].kind = "readback"
    <3>1. CASE x = "done"
      BY <1>3, <2>2, <3>1
    <3>2. CASE x = "readback"
      <4>1. PICK s \in InOrder(op.reqs) : queue' = queue \o ReadBacks(s)
        BY <2>2, <3>2
      <4>2. op \in Operation
        BY <1>1, <2>1, OperationFields DEF TypeOK, None
      <4>3. PICK q, o, st, st2 :
              /\ q \in Seq(Entry) /\ o \in Operation
              /\ q = queue /\ o = op /\ st = status /\ st2 = status'
        BY <1>1, <4>2, TypedEntry
      <4>4. Work(q, o, st, request) /\ s \in InOrder(o.reqs)
        BY <4>3 DEF IInv
      <4>5. WaitsForReadBack(o, st, st2)
        BY <1>3, <2>3, <3>2, <4>3 DEF WaitsForReadBack
      <4>6. AddsReadBacks(q \o ReadBacks(s), q)
        BY <4>3, <4>4, <4>5, WorkReadBacks
      <4> QED
        BY <4>1, <4>3, <4>6 DEF AddsReadBacks
    <3> QED
      BY <3>1, <3>2
  <2>6. Still'
    BY <1>1, <1>2, <1>3, <2>3, <2>4, <2>5, OperationFields DEF Still, IsControl, None
  <2>7. KeysKnown'
    BY <1>1, <1>2 DEF KeysKnown
  <2>8. Overtaken'
    <3>1. \A c \in 1 .. issued : status'[c] \in {"writing", "readback", "done"} =>
            status[c] \in {"writing", "readback", "done"}
      BY <1>1, <1>3, <2>1, <2>3 DEF Fits
    <3> QED
      BY <1>1, <1>2, <2>5, <3>1, OvertakenKept DEF IsMovement
  <2>9. Settled'
    <3> SUFFICES ASSUME NEW c \in 1 .. issued, request[c].kind = "commit",
                        status'[c] \in {"readback", "done"}
                 PROVE  /\ ~StaleMovement(op', c, request)
                        /\ scope'[request[c].key] # 0
                        /\ ~Undoes(scope'[request[c].key], c, request)
      BY <1>2 DEF Settled, Commits
    <3>1. ~StaleMovement(op', c, request)
      BY <1>2, OperationFields DEF StaleMovement, IsMovement, None
    <3>2. request[c].key \in Keys /\ c \in Requests
      BY <1>1, <1>3 DEF KeysKnown
    <3>3. scope'[request[c].key] = IF op.key = request[c].key THEN op.val
                                   ELSE scope[request[c].key]
      BY <1>1, <2>1, <3>2 DEF TypeOK
    <3>4. op.val \in op.reqs /\ op.val # 0 /\ request[op.val].kind = op.prio
      BY <1>1, <2>1, InteractionAssumption DEF Fits, Requests
    <3>5. CASE c \in op.reqs
      <4>1. c = op.val /\ request[c].key = op.key
        BY <1>1, <2>1, <3>5 DEF Fits
      <4> QED
        BY <3>1, <3>3, <3>4, <4>1 DEF Undoes
    <3>6. CASE c \notin op.reqs
      <4>1. c \in Commits({"readback", "done"})
        BY <2>3, <3>2, <3>6 DEF Commits
      <4>2. op.key = request[c].key => ~Undoes(op.val, c, request)
        <5>1. op.key = request[c].key /\ Undoes(op.val, c, request) =>
                StaleMovement(op, c, request)
          BY <2>1, <3>4 DEF Undoes, StaleMovement, IsMovement
        <5> QED
          BY <1>1, <4>1, <5>1 DEF Settled
      <4> QED
        BY <1>1, <3>1, <3>3, <3>4, <4>1, <4>2 DEF Settled
    <3> QED
      BY <3>5, <3>6
  <2> QED
    BY <2>6, <2>7, <2>8, <2>9 DEF StoppedInv
<1>6. ~ReadDone /\ ~ReadFailed
  BY <1>1 DEF ReadDone, ReadFailed, Still
<1> QED
  BY <1>4, <1>5, <1>6 DEF OpDone

LEMMA StoppedInit == Init /\ ~acquirable => StoppedInv
<1> SUFFICES ASSUME Init, ~acquirable PROVE StoppedInv
  OBVIOUS
<1>1. issued = 0 /\ loop = "idle" /\ queue = <<>> /\ op.kind # "live"
  BY OperationFields DEF Init, None
<1> QED
  BY <1>1 DEF StoppedInv, Still, KeysKnown, Overtaken, Settled, Commits

LEMMA StoppedNext ==
  IInv /\ StoppedInv /\ ~acquirable /\ ~acquirable' /\ [Next]_vars => StoppedInv'
<1> SUFFICES ASSUME IInv, StoppedInv, ~acquirable, ~acquirable', [Next]_vars
             PROVE  StoppedInv'
  OBVIOUS
<1>1. CASE PauseOver \/ StartOp \/ NextControl
  BY <1>1, PauseOverStopped, StartOpStopped, NextControlStopped
<1>2. CASE \E b \in Browsers, kind \in Kinds \ {"control"}, key \in Keys :
             Interaction(kind, b, key)
  <2>1. Kinds \ {"control"} \subseteq {"update", "commit"}
    BY InteractionAssumption DEF AllKinds
  <2> QED
    BY <1>2, <2>1, InteractionStopped
<1>3. CASE \E b \in Browsers : ("horizontal" \in Keys /\ HorizontalControl(b)) \/ Unsubscribe(b)
  BY <1>3, HorizontalControlStopped, UnsubscribeStopped
<1>4. CASE OpDone
  BY <1>4, OpDoneStopped
<1>5. ~GapOver /\ ~DelayOver
  BY DEF StoppedInv, Still, GapOver, DelayOver
<1>6. ~StateChanged
  <2>1. acquirable \in BOOLEAN /\ Acquirable \subseteq BOOLEAN
    BY InteractionAssumption DEF IInv, TypeOK
  <2> QED
    BY <2>1 DEF StateChanged
<1>7. CASE Disconnect \/ Reconnect
  BY <1>7, ConnectionStopped
<1>9. CASE \E r \in Requests : Prepared(r)
  BY <1>9, PreparedStopped
<1>8. CASE UNCHANGED vars
  BY <1>8 DEF vars, live, StoppedInv, Still, KeysKnown, Overtaken, Settled, Commits, IsControl
<1> QED
  BY <1>1, <1>2, <1>3, <1>4, <1>5, <1>6, <1>7, <1>8, <1>9 DEF Next

LEMMA FinalValueFollows == IInv /\ StoppedInv => FinalValueKept
<1> SUFFICES ASSUME IInv, StoppedInv, NEW c \in 1 .. issued, request[c].kind = "commit",
                    status[c] = "done", NEW v, v = scope[request[c].key],
                    request[v].who = request[c].who, request[v].kind = "update",
                    ~request[v].prepares
             PROVE  c < v
  BY DEF FinalValueKept
<1>1. c \in Commits({"readback", "done"})
  BY DEF Commits
<1>2. v # 0 /\ ~Undoes(v, c, request) /\ request[c].key \in Keys
  BY <1>1 DEF StoppedInv, Settled, KeysKnown
<1>3. v \in Nat /\ c \in Nat /\ v # c
  BY <1>2, InteractionAssumption DEF IInv, TypeOK
<1> QED
  BY <1>2, <1>3 DEF Undoes

\* While the scope does not acquire, a commit that is done keeps its value over
\* the movements it completes (ScpiScheduler.removePendingInteractive,
\* acquireInteraction); and controls reach the scope in the order sent.
THEOREM LastAskedAlwaysWins == Spec => LastAskedWins
<1>1. Spec /\ [](~acquirable) => []StoppedInv
  <2>1. Init /\ ~acquirable => StoppedInv
    BY StoppedInit
  <2>2. IInv /\ StoppedInv /\ ~acquirable /\ ~acquirable' /\ [Next]_vars => StoppedInv'
    BY StoppedNext
  <2> QED
    BY <2>1, <2>2, Invariance, PTL DEF Spec
<1>2. IInv /\ StoppedInv => FinalValueKept
  BY FinalValueFollows
<1>3. Spec => FinalValueKeptStopped
  BY <1>1, <1>2, Invariance, PTL DEF FinalValueKeptStopped
<1> QED
  BY <1>3, ControlsReachInOrder DEF LastAskedWins
===============================================================================
