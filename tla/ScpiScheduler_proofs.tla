------------------------- MODULE ScpiScheduler_proofs -------------------------
(***************************************************************************)
(* Safety of the scheduler for every number of requests and every set of   *)
(* keys.  The inductive invariant IInv adds to the checked properties what *)
(* an entry must look like (EntrySound) and that requests not yet made     *)
(* have left no trace (UnsentUntouched).  KeyInv adds, for NewestRuns, in  *)
(* what order the work of a key waits.                                     *)
(***************************************************************************)
EXTENDS ScpiScheduler, TLAPS

EntrySound(e) ==
  /\ e.op <= sent
  /\ e.op \in e.waiters
  /\ \A r \in e.waiters :
       /\ r <= e.op
       /\ r = e.op \/ (key[r] # NoKey /\ key[e.op] = key[r])
  /\ e.coalesceKey # NoKey => key[e.op] = e.coalesceKey
  /\ e.latestKey # NoKey => key[e.op] = e.latestKey

EntriesSound == \A e \in Entries : EntrySound(e)

OneAtATime ==
  /\ \A e, f \in running : e = f
  /\ pending \cap running = {}

UnsentUntouched ==
  \A r \in Requests : r > sent => status[r] = "unsent"

AnswersSent ==
  \A r \in Requests : status[r] = "resolved" => answer[r] <= sent

WaitersDisjoint ==
  \A e, f \in Entries : e # f => e.waiters \cap f.waiters = {}

WaitingIsHeld ==
  \A r \in Requests :
    status[r] = "waiting" <=> \E e \in Entries : r \in e.waiters

(* The burst counter remembers that the waiting waveform was overtaken.    *)
OvertakenCounted == overtaken = 1 => burst > 0

IInv ==
  /\ TypeOK
  /\ EntriesSound
  /\ OneAtATime
  /\ UnsentUntouched
  /\ AnswersSent
  /\ WaitersDisjoint
  /\ WaitingIsHeld
  /\ FreshAnswer
  /\ StoppedIsDrained
  /\ WorkHasPump
  /\ WaveformOvertakenOnce
  /\ OvertakenCounted

-----------------------------------------------------------------------------

LEMMA InitIInv == Init => IInv
<1> SUFFICES ASSUME Init PROVE IInv
  OBVIOUS
<1> USE DEF Init, Entries
<1>1. TypeOK
  <2>1. sent \in 0 .. MaxRequests /\ burst \in Nat /\ pumps \in Nat /\ overtaken \in Nat
    BY SchedulerAssumption
  <2>2. 0 \in 0 .. MaxRequests
    BY SchedulerAssumption
  <2> QED
    BY <2>1, <2>2 DEF TypeOK, Statuses
<1>2. /\ EntriesSound /\ OneAtATime /\ UnsentUntouched /\ AnswersSent
      /\ WaitersDisjoint /\ WaitingIsHeld
  BY DEF EntriesSound, OneAtATime, UnsentUntouched, AnswersSent,
         WaitersDisjoint, WaitingIsHeld
<1>3. FreshAnswer /\ StoppedIsDrained /\ WorkHasPump
  BY DEF FreshAnswer, StoppedIsDrained, WorkHasPump
<1>4. WaveformOvertakenOnce /\ OvertakenCounted
  BY DEF WaveformOvertakenOnce, OvertakenCounted
<1> QED
  BY <1>1, <1>2, <1>3, <1>4 DEF IInv

(* enqueue keeps the invariant, whatever it replaces, as long as what it   *)
(* replaces belongs to the key of the new request.                         *)
LEMMA EnqueueIInv ==
  ASSUME IInv,
         NEW p \in Priorities, NEW k \in Keys \cup {NoKey},
         NEW ck \in ControlKeys \cup {NoKey}, NEW lk \in StreamKeys \cup {NoKey},
         NEW stale \in SUBSET pending,
         ck # NoKey => ck = k,
         lk # NoKey => lk = k,
         \A e \in stale : k # NoKey /\ key[e.op] = k,
         Enqueue(p, k, ck, lk, stale)
  PROVE  IInv'
<1>r. PICK r : r = sent + 1
  OBVIOUS
<1>m. PICK merged : merged = stale \cup Superseded(p, ck, lk)
  OBVIOUS
<1>1. /\ sent < MaxRequests /\ sent' = r
      /\ key' = [key EXCEPT ![r] = k]
      /\ UNCHANGED <<running, stopped, burst, usable, answer, lastRun, overtaken>>
  BY <1>r DEF Enqueue
<1>2. TypeOK /\ r \in Requests /\ r \in Nat /\ sent \in Nat
  BY <1>r, <1>1, SchedulerAssumption DEF IInv, TypeOK, Requests
<1>3. merged \subseteq pending
  BY <1>m DEF Superseded, Queue
<1>4. \A e \in merged : k # NoKey /\ key[e.op] = k
  BY <1>m, <1>3 DEF IInv, EntriesSound, EntrySound, Entries, Superseded, Queue
<1>5. \A e \in Entries : /\ e \in Entry
                         /\ e.op \in Requests /\ e.op <= sent /\ e.op # r
                         /\ \A s \in e.waiters : s \in Requests /\ s <= sent /\ s # r
  BY <1>r, <1>2 DEF IInv, TypeOK, EntriesSound, EntrySound, Entries, Entry, Requests
<1>6. \A s \in Requests : s # r => key'[s] = key[s]
  BY <1>1, <1>2 DEF TypeOK
<1>7. key'[r] = k
  BY <1>1, <1>2 DEF TypeOK
<1>8. key' \in [Requests -> Keys \cup {NoKey}] /\ sent' \in 0 .. MaxRequests
  BY <1>1, <1>2, SchedulerAssumption DEF TypeOK, Requests
<1>9. status[r] = "unsent"
  BY <1>r, <1>1, <1>2 DEF IInv, UnsentUntouched
<1>12. ASSUME NEW e \in Entries PROVE EntrySound(e)'
  <2>1. EntrySound(e)
    BY DEF IInv, EntriesSound
  <2>2. key'[e.op] = key[e.op] /\ \A s \in e.waiters : key'[s] = key[s]
    BY <1>5, <1>6
  <2>3. e.op <= sent'
    BY <1>r, <1>1, <1>2, <1>5, <2>1 DEF Requests, EntrySound
  <2> QED
    BY <2>1, <2>2, <2>3 DEF EntrySound
<1>10. CASE stopped
  <2>1. pending = {} /\ stale = {} /\ pending' = {}
    BY <1>10, <1>1 DEF IInv, StoppedIsDrained, Enqueue
  <2>2. status' = [status EXCEPT ![r] = "rejected"] /\ pumps' = pumps
    BY <1>10, <1>r DEF Enqueue
  <2>3. Entries' = Entries /\ running' = running /\ pending' = pending
    BY <1>1, <2>1 DEF Entries
  <2>4. TypeOK'
    BY <1>1, <1>2, <1>8, <2>1, <2>2, SchedulerAssumption
    DEF TypeOK, Statuses, Requests
  <2>5. EntriesSound'
    BY <1>12, <2>3 DEF EntriesSound
  <2>6. OneAtATime'
    BY <2>3 DEF IInv, OneAtATime
  <2>7. UnsentUntouched' /\ AnswersSent'
    BY <1>r, <1>1, <1>2, <2>2
    DEF IInv, UnsentUntouched, AnswersSent, TypeOK, Statuses, Requests
  <2>8. WaitersDisjoint'
    BY <2>3 DEF IInv, WaitersDisjoint
  <2>9. WaitingIsHeld'
    BY <1>2, <1>5, <1>9, <2>2, <2>3 DEF IInv, WaitingIsHeld, TypeOK
  <2>10. FreshAnswer'
    BY <1>r, <1>1, <1>2, <1>6, <2>2
    DEF IInv, FreshAnswer, AnswersSent, TypeOK, Requests
  <2>11. StoppedIsDrained' /\ WorkHasPump'
    BY <2>1 DEF StoppedIsDrained, WorkHasPump
  <2>12. WaveformOvertakenOnce' /\ OvertakenCounted'
    BY <1>1 DEF IInv, WaveformOvertakenOnce, OvertakenCounted
  <2> QED
    BY <2>4, <2>5, <2>6, <2>7, <2>8, <2>9, <2>10, <2>11, <2>12 DEF IInv
<1>11. CASE ~stopped
  <2>1. PICK seat \in IF Superseded(p, ck, lk) = {} THEN {r}
                      ELSE {e.seat : e \in Superseded(p, ck, lk)} :
          pending' = (pending \ merged) \cup
                       {NewEntry(p, r, seat, ck, lk, merged)}
    BY <1>r, <1>m, <1>11 DEF Enqueue
  <2>n. PICK new : new = NewEntry(p, r, seat, ck, lk, merged)
    OBVIOUS
  <2>2. status' = [status EXCEPT ![r] = "waiting"] /\ pumps' = pumps + 1
    BY <1>r, <1>11 DEF Enqueue
  <2>3. /\ new.op = r /\ new.coalesceKey = ck /\ new.latestKey = lk
        /\ new.waiters = {r} \cup WaitersOf(merged)
    BY <2>n DEF NewEntry
  <2>4. seat \in Requests
    BY <1>m, <1>2, <1>3, <1>5, <2>1 DEF Entries, Entry
  <2>5. WaitersOf(merged) \subseteq Requests
    BY <1>3, <1>5 DEF WaitersOf, Entries
  <2>6. new \in Entry
    BY <2>n, <1>2, <2>4, <2>5 DEF NewEntry, Entry
  <2>7. new \notin Entries
    BY <1>5, <2>3
  <2>8. Entries' = (Entries \ merged) \cup {new}
    BY <2>n, <1>1, <1>3, <2>1 DEF Entries, IInv, OneAtATime
  <2>9. \A s \in WaitersOf(merged) :
          /\ s \in Requests /\ s <= sent /\ s # r
          /\ key[s] = k /\ k # NoKey
    BY <1>3, <1>4, <1>5 DEF WaitersOf, IInv, EntriesSound, EntrySound, Entries
  <2>10. TypeOK'
    BY <2>n, <1>1, <1>2, <1>8, <2>1, <2>2, <2>6, SchedulerAssumption
    DEF TypeOK, Statuses
  <2>11. EntriesSound'
    <3>1. /\ new.op = r /\ r <= sent' /\ r \in new.waiters
      BY <1>1, <1>2, <2>3
    <3>2. \A s \in new.waiters :
            s <= r /\ (s = r \/ (key'[s] # NoKey /\ key'[r] = key'[s]))
      BY <1>r, <1>2, <1>6, <1>7, <2>3, <2>9 DEF Requests
    <3>3. /\ new.coalesceKey # NoKey => key'[r] = new.coalesceKey
          /\ new.latestKey # NoKey => key'[r] = new.latestKey
      BY <1>7, <2>3
    <3>4. EntrySound(new)'
      BY <3>1, <3>2, <3>3 DEF EntrySound
    <3> QED
      BY <3>4, <1>12, <2>8 DEF EntriesSound
  <2>12. OneAtATime'
    BY <2>n, <1>1, <2>1, <2>7 DEF IInv, OneAtATime, Entries
  <2>13. UnsentUntouched' /\ AnswersSent'
    <3>1. \A s \in Requests : s # r => status'[s] = status[s]
      BY <1>2, <2>2 DEF TypeOK
    <3>2. status'[r] = "waiting"
      BY <1>2, <2>2 DEF TypeOK
    <3> QED
      BY <1>r, <1>1, <1>2, <3>1, <3>2
      DEF IInv, UnsentUntouched, AnswersSent, TypeOK, Requests
  <2>14. WaitersDisjoint'
    <3>1. \A e \in Entries \ merged : e.waiters \cap new.waiters = {}
      <4> SUFFICES ASSUME NEW e \in Entries, e \notin merged,
                          NEW s \in e.waiters, s \in new.waiters
                   PROVE FALSE
        OBVIOUS
      <4>1. s # r
        BY <1>5
      <4>2. PICK f \in merged : s \in f.waiters
        BY <4>1, <2>3 DEF WaitersOf
      <4> QED
        BY <4>2, <1>3 DEF IInv, WaitersDisjoint, Entries
    <3> QED
      BY <3>1, <2>8 DEF IInv, WaitersDisjoint
  <2>15. WaitingIsHeld'
    <3> SUFFICES ASSUME NEW s \in Requests
                 PROVE  status'[s] = "waiting"
                          <=> \E e \in Entries' : s \in e.waiters
      BY DEF WaitingIsHeld
    <3>1. CASE s = r
      BY <3>1, <1>2, <2>2, <2>3, <2>8 DEF TypeOK
    <3>2. CASE s # r
      <4>1. status'[s] = status[s]
        BY <3>2, <1>2, <2>2 DEF TypeOK
      <4>2. (\E e \in Entries : s \in e.waiters)
              <=> \E e \in Entries' : s \in e.waiters
        <5>1. s \in new.waiters <=> \E e \in merged : s \in e.waiters
          BY <3>2, <2>3 DEF WaitersOf
        <5> QED
          BY <5>1, <2>8, <1>3 DEF Entries
      <4> QED
        BY <4>1, <4>2 DEF IInv, WaitingIsHeld
    <3> QED
      BY <3>1, <3>2
  <2>16. FreshAnswer'
    BY <1>r, <1>1, <1>2, <1>6, <2>2
    DEF IInv, FreshAnswer, AnswersSent, TypeOK, Requests
  <2>17. StoppedIsDrained' /\ WorkHasPump'
    BY <1>1, <1>2, <1>11, <2>2 DEF StoppedIsDrained, WorkHasPump, TypeOK
  <2>18. WaveformOvertakenOnce' /\ OvertakenCounted'
    BY <1>1 DEF IInv, WaveformOvertakenOnce, OvertakenCounted
  <2> QED
    BY <2>10, <2>11, <2>12, <2>13, <2>14, <2>15, <2>16, <2>17, <2>18 DEF IInv
<1> QED
  BY <1>10, <1>11

(* Taking the next operation: the entry only moves from the queues to the  *)
(* transport.                                                              *)
LEMMA StartIInv == IInv /\ Start => IInv'
<1> SUFFICES ASSUME IInv, Start PROVE IInv'
  OBVIOUS
<1>1. /\ pumps > 0 /\ running = {} /\ ~stopped /\ pumps' = pumps - 1
      /\ UNCHANGED <<stopped, usable, sent, key, status, answer>>
  BY DEF Start
<1>2. PICK p \in Priorities :
        /\ Selectable(p)
        /\ \E e \in FrontOf(p) :
             /\ running' = {e}
             /\ pending' = pending \ {e}
             /\ lastRun' = IF key[e.op] = NoKey THEN lastRun
                           ELSE [lastRun EXCEPT ![key[e.op]] = e.op]
        /\ burst' = CASE p = Interactive -> burst + 1
                      [] p = Waveform    -> 0
                      [] OTHER           -> burst
        /\ overtaken' = CASE p = Waveform -> 0
                          [] p = Interactive /\ Queue(Waveform) # {}
                               -> overtaken + 1
                          [] OTHER -> overtaken
  BY DEF Start
<1>3. PICK e \in FrontOf(p) :
             /\ running' = {e}
             /\ pending' = pending \ {e}
             /\ lastRun' = IF key[e.op] = NoKey THEN lastRun
                           ELSE [lastRun EXCEPT ![key[e.op]] = e.op]
  BY <1>2
<1>4. e \in pending /\ e.priority = p
  BY DEF FrontOf, Queue
<1>5. Entries' = Entries
  BY <1>1, <1>3, <1>4 DEF Entries
<1>6. TypeOK /\ e \in Entry
  BY <1>4 DEF IInv, TypeOK
<1>7. e.op \in Requests /\ e.op \in 0 .. MaxRequests
  BY <1>6, SchedulerAssumption DEF Entry, Requests
<1>8. TypeOK'
  <2>1. lastRun' \in [Keys -> 0 .. MaxRequests]
    BY <1>3, <1>6, <1>7 DEF TypeOK
  <2>2. burst' \in Nat /\ overtaken' \in Nat /\ pumps' \in Nat
    BY <1>1, <1>2, <1>6 DEF TypeOK
  <2> QED
    BY <1>1, <1>3, <1>6, <2>1, <2>2 DEF TypeOK
<1>9. EntriesSound' /\ WaitersDisjoint' /\ WaitingIsHeld'
  BY <1>1, <1>5
  DEF IInv, EntriesSound, EntrySound, WaitersDisjoint, WaitingIsHeld
<1>10. OneAtATime'
  BY <1>3 DEF OneAtATime
<1>11. UnsentUntouched' /\ AnswersSent' /\ FreshAnswer'
  BY <1>1 DEF IInv, UnsentUntouched, AnswersSent, FreshAnswer
<1>12. StoppedIsDrained' /\ WorkHasPump'
  BY <1>1, <1>3 DEF StoppedIsDrained, WorkHasPump
<1>13. WaveformOvertakenOnce' /\ OvertakenCounted'
  <2>1. CASE p = Waveform
    BY <1>2, <2>1
    DEF WaveformOvertakenOnce, OvertakenCounted, Interactive, Waveform
  <2>2. CASE p = Interactive /\ Queue(Waveform) # {}
    (* An interactive operation only passes a waiting waveform while the    *)
    (* burst counter is zero, so nothing overtook the waveform yet.         *)
    <3>1. Queue(Interactive) # {} /\ Queue(Immediate) = {}
      BY <1>2, <2>2, <1>3
      DEF Selectable, FrontOf, Priorities, Immediate, Interactive, Waveform,
          Background
    <3>2. ~WaveformTurn
      BY <1>2, <2>2 DEF Selectable, Interactive, Waveform
    <3>3. burst = 0 /\ overtaken = 0
      BY <1>6, <2>2, <3>1, <3>2
      DEF WaveformTurn, IInv, TypeOK, WaveformOvertakenOnce, OvertakenCounted
    <3>4. burst' = 1 /\ overtaken' = 1
      BY <1>2, <2>2, <3>3 DEF Interactive, Waveform
    <3> QED
      BY <3>4 DEF WaveformOvertakenOnce, OvertakenCounted
  <2>3. CASE p # Waveform /\ ~(p = Interactive /\ Queue(Waveform) # {})
    <3>1. overtaken' = overtaken /\ burst' >= burst
      BY <1>2, <1>6, <2>3 DEF TypeOK
    <3> QED
      BY <1>2, <1>6, <2>3, <3>1
      DEF IInv, WaveformOvertakenOnce, OvertakenCounted, TypeOK
  <2> QED
    BY <2>1, <2>2, <2>3
<1> QED
  BY <1>8, <1>9, <1>10, <1>11, <1>12, <1>13 DEF IInv

(* Settling whole entries keeps the accounting: the settled waiters are    *)
(* exactly those whose entries leave.                                      *)
LEMMA SettleKeepsWaiters ==
  ASSUME IInv,
         NEW gone \in SUBSET Entries,
         Entries' = Entries \ gone,
         UNCHANGED <<sent, key>>,
         \A r \in Requests :
           IF r \in WaitersOf(gone) THEN status'[r] \in {"resolved", "rejected"}
           ELSE status'[r] = status[r]
  PROVE  /\ EntriesSound' /\ WaitersDisjoint' /\ WaitingIsHeld'
         /\ UnsentUntouched'
<1>1. EntriesSound' /\ WaitersDisjoint'
  BY DEF IInv, EntriesSound, EntrySound, WaitersDisjoint
<1>2. \A e \in Entries : e.waiters \subseteq Requests
  BY DEF IInv, TypeOK, Entries, Entry
<1>3. WaitingIsHeld'
  <2> SUFFICES ASSUME NEW r \in Requests
               PROVE  status'[r] = "waiting"
                        <=> \E e \in Entries' : r \in e.waiters
    BY DEF WaitingIsHeld
  <2>1. CASE r \in WaitersOf(gone)
    <3>1. PICK g \in gone : r \in g.waiters
      BY <2>1 DEF WaitersOf
    <3>2. \A e \in Entries \ gone : r \notin e.waiters
      BY <3>1 DEF IInv, WaitersDisjoint
    <3> QED
      BY <2>1, <3>2
  <2>2. CASE r \notin WaitersOf(gone)
    BY <2>2 DEF IInv, WaitingIsHeld, WaitersOf
  <2> QED
    BY <2>1, <2>2
<1>4. UnsentUntouched'
  <2> SUFFICES ASSUME NEW r \in Requests, r > sent
               PROVE  status'[r] = "unsent"
    BY DEF UnsentUntouched
  <2>1. r \notin WaitersOf(gone)
    <3> SUFFICES ASSUME NEW g \in gone, r \in g.waiters PROVE FALSE
      BY DEF WaitersOf
    <3>1. g.op <= sent /\ r <= g.op /\ g.op \in Requests
      BY DEF IInv, TypeOK, EntriesSound, EntrySound, Entries, Entry
    <3> QED
      BY <3>1 DEF IInv, TypeOK, Requests
  <2> QED
    BY <2>1 DEF IInv, UnsentUntouched
<1> QED
  BY <1>1, <1>3, <1>4

LEMMA SucceedIInv == IInv /\ Succeed => IInv'
<1> SUFFICES ASSUME IInv, Succeed PROVE IInv'
  OBVIOUS
<1>1. PICK e \in running :
        /\ status' = [r \in Requests |->
                        IF r \in e.waiters THEN "resolved" ELSE status[r]]
        /\ answer' = [r \in Requests |->
                        IF r \in e.waiters THEN e.op ELSE answer[r]]
  BY DEF Succeed
<1>2. /\ running' = {} /\ running = {e}
      /\ pumps' = IF stopped THEN pumps ELSE pumps + 1
      /\ UNCHANGED <<pending, stopped, burst, usable, sent, key, lastRun,
                     overtaken>>
  BY DEF Succeed, Release, IInv, OneAtATime
<1>3. TypeOK /\ EntrySound(e) /\ e \in Entry
  BY DEF IInv, TypeOK, EntriesSound, Entries
<1>4. e.op \in Requests /\ e.op \in 0 .. MaxRequests
  BY <1>3, SchedulerAssumption DEF Entry, Requests
<1>5. Entries' = Entries \ {e} /\ {e} \in SUBSET Entries
  BY <1>2 DEF Entries, IInv, OneAtATime
<1>6. WaitersOf({e}) = e.waiters
  BY DEF WaitersOf
<1>7. TypeOK'
  <2>1. status' \in [Requests -> Statuses]
    BY <1>1, <1>3 DEF TypeOK, Statuses
  <2>2. answer' \in [Requests -> 0 .. MaxRequests]
    BY <1>1, <1>3, <1>4 DEF TypeOK
  <2> QED
    BY <1>2, <1>3, <2>1, <2>2 DEF TypeOK
<1>8. /\ EntriesSound' /\ WaitersDisjoint' /\ WaitingIsHeld'
      /\ UnsentUntouched'
  BY <1>1, <1>2, <1>5, <1>6, SettleKeepsWaiters
<1>9. OneAtATime'
  BY <1>2 DEF OneAtATime
<1>10. FreshAnswer' /\ AnswersSent'
  BY <1>1, <1>2, <1>3, <1>4
  DEF IInv, FreshAnswer, AnswersSent, EntrySound
<1>11. StoppedIsDrained' /\ WorkHasPump'
  BY <1>2, <1>3 DEF IInv, StoppedIsDrained, WorkHasPump, TypeOK
<1>12. WaveformOvertakenOnce' /\ OvertakenCounted'
  BY <1>2 DEF IInv, WaveformOvertakenOnce, OvertakenCounted
<1> QED
  BY <1>7, <1>8, <1>9, <1>10, <1>11, <1>12 DEF IInv

(* Rejecting the waiters of the entries that leave, which may be the       *)
(* running one, the pending ones or both.                                  *)
LEMMA RejectIInv ==
  ASSUME IInv,
         NEW gone \in SUBSET Entries,
         Reject(WaitersOf(gone)),
         pending' = pending \ gone, running' = running \ gone,
         stopped' \in BOOLEAN, usable' \in BOOLEAN, pumps' \in Nat,
         StoppedIsDrained', WorkHasPump',
         UNCHANGED <<burst, sent, key, answer, lastRun, overtaken>>
  PROVE  IInv'
<1>1. status' = [r \in Requests |->
                   IF r \in WaitersOf(gone) THEN "rejected" ELSE status[r]]
  BY DEF Reject
<1>2. Entries' = Entries \ gone
  BY DEF Entries
<1>3. TypeOK'
  <2>1. status' \in [Requests -> Statuses]
    BY <1>1 DEF IInv, TypeOK, Statuses
  <2> QED
    BY <2>1 DEF IInv, TypeOK
<1>4. /\ EntriesSound' /\ WaitersDisjoint' /\ WaitingIsHeld'
      /\ UnsentUntouched'
  BY <1>1, <1>2, SettleKeepsWaiters
<1>5. OneAtATime'
  BY DEF IInv, OneAtATime
<1>6. FreshAnswer' /\ AnswersSent'
  BY <1>1 DEF IInv, FreshAnswer, AnswersSent
<1>7. WaveformOvertakenOnce' /\ OvertakenCounted'
  BY DEF IInv, WaveformOvertakenOnce, OvertakenCounted
<1> QED
  BY <1>3, <1>4, <1>5, <1>6, <1>7 DEF IInv

LEMMA FailIInv == IInv /\ Fail => IInv'
<1> SUFFICES ASSUME IInv, Fail PROVE IInv'
  OBVIOUS
<1>1. PICK e \in running, u \in {usable, FALSE} :
        /\ usable' = u
        /\ Reject(e.waiters \cup IF u THEN {} ELSE WaitersOf(pending))
        /\ pending' = IF u THEN pending ELSE {}
  BY DEF Fail
<1>2. /\ running = {e} /\ running' = {} /\ e \notin pending
      /\ pumps' = IF stopped THEN pumps ELSE pumps + 1
      /\ UNCHANGED <<stopped, burst, sent, key, answer, lastRun, overtaken>>
  BY DEF Fail, Release, IInv, OneAtATime
<1>3. PICK gone : gone = {e} \cup IF u THEN {} ELSE pending
  OBVIOUS
<1>4. gone \in SUBSET Entries
  BY <1>3 DEF Entries
<1>5. WaitersOf(gone) = e.waiters \cup IF u THEN {} ELSE WaitersOf(pending)
  BY <1>3 DEF WaitersOf
<1>6. pending' = pending \ gone /\ running' = running \ gone
  BY <1>1, <1>2, <1>3
<1>7. TypeOK
  BY DEF IInv
<1>8. stopped' \in BOOLEAN /\ usable' \in BOOLEAN /\ pumps' \in Nat
  <2>1. stopped' \in BOOLEAN /\ usable' \in BOOLEAN
    BY <1>1, <1>2, <1>7, Zenon DEF TypeOK
  <2>2. pumps' \in Nat
    BY <1>2, <1>7 DEF TypeOK
  <2> QED
    BY <2>1, <2>2
<1>9. StoppedIsDrained' /\ WorkHasPump'
  BY <1>1, <1>2, <1>7 DEF IInv, StoppedIsDrained, WorkHasPump, TypeOK
<1> QED
  BY <1>1, <1>2, <1>4, <1>5, <1>6, <1>8, <1>9, RejectIInv

LEMMA StopIInv == IInv /\ Stop => IInv'
<1> SUFFICES ASSUME IInv, Stop PROVE IInv'
  OBVIOUS
<1>1. /\ stopped' = TRUE /\ pending' = {} /\ Reject(WaitersOf(pending))
      /\ UNCHANGED <<running, burst, pumps, usable, sent, key, answer,
                     lastRun, overtaken>>
  BY DEF Stop
<1>2. running' = running \ pending /\ pending' = pending \ pending
  BY <1>1 DEF IInv, OneAtATime
<1>3. stopped' \in BOOLEAN /\ usable' \in BOOLEAN /\ pumps' \in Nat
  BY <1>1 DEF IInv, TypeOK
<1>4. StoppedIsDrained' /\ WorkHasPump'
  BY <1>1 DEF StoppedIsDrained, WorkHasPump
<1>5. pending \in SUBSET Entries
  BY DEF Entries
<1> QED
  BY <1>1, <1>2, <1>3, <1>4, <1>5, RejectIInv

LEMMA PumpReturnsIInv == IInv /\ PumpReturns => IInv'
<1> SUFFICES ASSUME IInv, PumpReturns PROVE IInv'
  OBVIOUS
<1>1. /\ pumps > 0 /\ pumps' = pumps - 1
      /\ running # {} \/ stopped \/ pending = {}
      /\ UNCHANGED <<pending, running, stopped, burst, usable, sent, key,
                     status, answer, lastRun, overtaken>>
  BY DEF PumpReturns
<1>2. TypeOK'
  BY <1>1 DEF IInv, TypeOK
<1>3. WorkHasPump' /\ StoppedIsDrained'
  BY <1>1 DEF IInv, WorkHasPump, StoppedIsDrained
<1> QED
  BY <1>1, <1>2, <1>3
  DEF IInv, EntriesSound, EntrySound, OneAtATime, UnsentUntouched, AnswersSent,
      WaitersDisjoint, WaitingIsHeld, FreshAnswer, WaveformOvertakenOnce,
      OvertakenCounted, Entries

LEMMA UsableIrrelevant ==
  ASSUME IInv, usable' \in BOOLEAN,
         UNCHANGED <<pending, running, stopped, burst, pumps, sent, key, status,
                     answer, lastRun, overtaken>>
  PROVE  IInv'
<1>1. TypeOK'
  BY DEF IInv, TypeOK
<1> QED
  BY <1>1
  DEF IInv, EntriesSound, EntrySound, OneAtATime, UnsentUntouched, AnswersSent,
      WaitersDisjoint, WaitingIsHeld, FreshAnswer, WaveformOvertakenOnce,
      OvertakenCounted, Entries, StoppedIsDrained, WorkHasPump

-----------------------------------------------------------------------------

LEMMA NextIInv == IInv /\ [Next]_vars => IInv'
<1> SUFFICES ASSUME IInv, [Next]_vars PROVE IInv'
  OBVIOUS
<1> USE DEF Immediate, Interactive, Normal, Waveform, Background
<1>1. ASSUME NEW p \in {Interactive, Normal, Background}, Schedule(p)
      PROVE  IInv'
  <2>1. p \in Priorities
    BY DEF Priorities
  <2> QED
    BY <1>1, <2>1, EnqueueIInv DEF Schedule
<1>2. ASSUME NEW k \in ControlKeys, ScheduleInteractive(k) PROVE IInv'
  <2>1. Interactive \in Priorities /\ k \in Keys
    BY DEF Priorities, Keys
  <2> QED
    BY <1>2, <2>1, EnqueueIInv DEF ScheduleInteractive
<1>3. ASSUME NEW k \in ControlKeys \cup {NoKey}, ScheduleImmediate(k)
      PROVE  IInv'
  <2>1. Immediate \in Priorities /\ k \in Keys \cup {NoKey}
    BY DEF Priorities, Keys
  <2>2. PICK stale : stale = StaleInteractive(k)
    OBVIOUS
  <2>3. stale \in SUBSET pending
    BY <2>2 DEF StaleInteractive, Queue
  <2>4. \A e \in stale : k # NoKey /\ key[e.op] = k
    BY <2>2 DEF StaleInteractive, Queue, IInv, EntriesSound, EntrySound, Entries
  <2>5. Enqueue(Immediate, k, NoKey, NoKey, stale)
    BY <1>3, <2>2 DEF ScheduleImmediate
  <2> QED
    BY <2>1, <2>3, <2>4, <2>5, EnqueueIInv
<1>4. ASSUME NEW k \in StreamKeys, ScheduleLatest(k) PROVE IInv'
  <2>1. Waveform \in Priorities /\ k \in Keys
    BY DEF Priorities, Keys
  <2> QED
    BY <1>4, <2>1, EnqueueIInv DEF ScheduleLatest
<1>5. CASE TransportLost
  BY <1>5, UsableIrrelevant DEF TransportLost
<1>6. CASE UNCHANGED vars
  <2>1. usable' \in BOOLEAN
    BY <1>6 DEF vars, IInv, TypeOK
  <2> QED
    BY <1>6, <2>1, UsableIrrelevant DEF vars
<1> QED
  BY <1>1, <1>2, <1>3, <1>4, <1>5, <1>6, StartIInv, PumpReturnsIInv,
     SucceedIInv, FailIInv, StopIInv
  DEF Next

LEMMA SpecIInv == Spec => []IInv
  BY InitIInv, NextIInv, PTL DEF Spec

(* Type correctness of the scheduler.                                      *)
THEOREM TypeCorrect == Spec => []TypeOK
<1>1. IInv => TypeOK
  BY DEF IInv
<1> QED
  BY <1>1, SpecIInv, PTL

(* Every promise handed out is held by exactly one entry until it is       *)
(* settled, through replacement in place, commits, failures and stop       *)
(* (scpi-scheduler.ts enqueue, removePendingInteractive, rejectPending).   *)
THEOREM WaiterAccounting == Spec => []WaiterInOnePlace
<1>1. IInv => WaiterInOnePlace
  BY DEF IInv, WaitersDisjoint, WaitingIsHeld, WaiterInOnePlace
<1> QED
  BY <1>1, SpecIInv, PTL

(* Nobody is answered with work older than the request or of another key   *)
(* (scpi-scheduler.ts enqueue and pump).                                   *)
THEOREM AnswersAreFresh == Spec => []FreshAnswer
<1>1. IInv => FreshAnswer
  BY DEF IInv
<1> QED
  BY <1>1, SpecIInv, PTL

(* The scheduler never sleeps on work (scpi-scheduler.ts requestPump).     *)
THEOREM NoLostWakeUp == Spec => []WorkHasPump
<1>1. IInv => WorkHasPump
  BY DEF IInv
<1> QED
  BY <1>1, SpecIInv, PTL

(* stop leaves nothing behind that no pump would ever take.                *)
THEOREM StopDrains == Spec => []StoppedIsDrained
<1>1. IInv => StoppedIsDrained
  BY DEF IInv
<1> QED
  BY <1>1, SpecIInv, PTL

(* A waiting waveform read is overtaken by at most one interactive         *)
(* operation in a row (scpi-scheduler.ts takeNext).                        *)
THEOREM WaveformNotStarved == Spec => []WaveformOvertakenOnce
<1>1. IInv => WaveformOvertakenOnce
  BY DEF IInv
<1> QED
  BY <1>1, SpecIInv, PTL

-----------------------------------------------------------------------------
(* The newest value of a key.                                              *)

HasKey(e, k) == k # NoKey /\ key[e.op] = k

(* Nothing older than what was last run of its key waits.                  *)
NewerThanRun ==
  /\ \A k \in Keys : lastRun[k] <= sent
  /\ \A e \in pending : \A k \in Keys : HasKey(e, k) => lastRun[k] < e.op

(* Where the work of a key waits: a commit in its own seat, a movement or  *)
(* a waveform read under the key it is replaced by.                        *)
KeyedQueues ==
  \A e \in pending : \A k \in Keys : HasKey(e, k) =>
    \/ e.priority = Immediate /\ k \in ControlKeys /\ e.seat = e.op
    \/ e.priority = Interactive /\ k \in ControlKeys /\ e.coalesceKey = k
    \/ e.priority = Waveform /\ k \in StreamKeys /\ e.latestKey = k

(* Of a key at most one movement waits, younger than the commits that do,  *)
(* and at most one waveform read.                                          *)
OneOfKey ==
  \A e, f \in pending : \A k \in Keys : e # f /\ HasKey(e, k) /\ HasKey(f, k) =>
    /\ e.priority = Interactive => f.priority = Immediate /\ f.op < e.op
    /\ e.priority # Waveform

Newest(r) ==
  /\ r <= sent /\ key[r] # NoKey
  /\ \A s \in Requests : s <= sent /\ key[s] = key[r] => s <= r

(* The newest request of a key waits, unless it was run or rejected.       *)
NewestIsKept ==
  \A r \in Requests : Newest(r) =>
    \/ status[r] = "rejected"
    \/ lastRun[key[r]] = r
    \/ \E e \in pending : e.op = r

KeyInv == NewerThanRun /\ KeyedQueues /\ OneOfKey /\ NewestIsKept

LEMMA EnqueueKeyInv ==
  ASSUME IInv, KeyInv, NEW p \in Priorities, NEW k \in Keys \cup {NoKey},
         NEW ck \in ControlKeys \cup {NoKey}, NEW lk \in StreamKeys \cup {NoKey},
         NEW stale \in SUBSET pending,
         \A e \in stale : HasKey(e, k),
         ck # NoKey => ck = k, lk # NoKey => lk = k,
         \/ k = NoKey
         \/ p = Interactive /\ ck = k
         \/ p = Waveform /\ lk = k
         \/ /\ p = Immediate /\ k \in ControlKeys /\ ck = NoKey /\ lk = NoKey
            /\ stale = StaleInteractive(k),
         Enqueue(p, k, ck, lk, stale)
  PROVE  KeyInv'
<1>r. PICK r : r = sent + 1
  OBVIOUS
<1>m. PICK old : old = Superseded(p, ck, lk)
  OBVIOUS
<1>1. /\ sent < MaxRequests /\ sent' = r /\ key' = [key EXCEPT ![r] = k]
      /\ UNCHANGED lastRun
  BY <1>r DEF Enqueue
<1>2. /\ TypeOK /\ r \in Requests /\ r \in Nat /\ sent \in Nat /\ Requests \subseteq Nat
  BY <1>r, <1>1, SchedulerAssumption DEF IInv, TypeOK, Requests
<1>3. key'[r] = k /\ \A s \in Requests : s # r => key'[s] = key[s]
  BY <1>1, <1>2 DEF TypeOK
<1>4. \A e \in pending : e \in Entry /\ e.op \in Requests /\ e.op <= sent /\ e.op # r
  BY <1>r, <1>2 DEF IInv, TypeOK, EntriesSound, EntrySound, Entries, Entry
<1>5. \A e \in pending : \A j : HasKey(e, j)' <=> HasKey(e, j)
  BY <1>3, <1>4 DEF HasKey
<1>6. old \subseteq pending /\ \A e \in old : HasKey(e, k)
  BY <1>m DEF Superseded, Queue, HasKey, IInv, EntriesSound, EntrySound, Entries
<1>7. \A j \in Keys : lastRun'[j] <= sent' /\ lastRun'[j] < r
  BY <1>r, <1>1, <1>2 DEF KeyInv, NewerThanRun, TypeOK
<1>8. ASSUME NEW s \in Requests, Newest(s)', s # r
      PROVE  Newest(s) /\ key'[s] = key[s] /\ key[s] # k
  <2>1. key'[s] = key[s] /\ key[s] # k
    BY <1>1, <1>2, <1>3, <1>8 DEF Newest
  <2>2. s <= sent
    BY <1>r, <1>1, <1>2, <1>8 DEF Newest
  <2>3. \A t \in Requests : t <= sent => t # r /\ t <= sent'
    BY <1>r, <1>1, <1>2
  <2> QED
    BY <1>3, <1>8, <2>1, <2>2, <2>3 DEF Newest
<1>9. CASE stopped
  <2>1. pending = {} /\ pending' = {} /\ status' = [status EXCEPT ![r] = "rejected"]
    BY <1>9, <1>r DEF IInv, StoppedIsDrained, Enqueue
  <2>2. NewestIsKept'
    BY <1>1, <1>2, <1>8, <2>1 DEF KeyInv, NewestIsKept, TypeOK
  <2> QED
    BY <1>7, <2>1, <2>2 DEF KeyInv, NewerThanRun, KeyedQueues, OneOfKey
<1>10. CASE ~stopped
  <2>1. PICK seat \in IF old = {} THEN {r} ELSE {e.seat : e \in old} :
          pending' = (pending \ (stale \cup old)) \cup
                       {NewEntry(p, r, seat, ck, lk, stale \cup old)}
    BY <1>r, <1>m, <1>10 DEF Enqueue
  <2>2. PICK new : new = NewEntry(p, r, seat, ck, lk, stale \cup old)
    OBVIOUS
  <2>3. /\ new.op = r /\ new.priority = p /\ new.seat = seat
        /\ new.coalesceKey = ck /\ new.latestKey = lk
    BY <2>2 DEF NewEntry
  <2>4. \A e \in pending' : e = new \/ (e \in pending /\ e \notin stale \cup old)
    BY <2>1, <2>2
  <2>5. \A j : HasKey(new, j)' <=> j # NoKey /\ j = k
    BY <1>3, <2>3 DEF HasKey
  <2>6. NewerThanRun'
    BY <1>1, <1>5, <1>7, <2>3, <2>4, <2>5 DEF KeyInv, NewerThanRun
  <2>7. p = Immediate /\ k \in ControlKeys /\ k # NoKey => ck = NoKey /\ lk = NoKey
    BY SchedulerAssumption DEF Immediate, Interactive, Waveform
  <2>8. KeyedQueues'
    <3>1. k # NoKey =>
            \/ p = Immediate /\ k \in ControlKeys /\ seat = r
            \/ p = Interactive /\ k \in ControlKeys /\ ck = k
            \/ p = Waveform /\ k \in StreamKeys /\ lk = k
      <4>1. p = Immediate /\ ck = NoKey /\ lk = NoKey => seat = r
        BY <1>m, <2>1 DEF Superseded
      <4> QED
        BY <4>1
    <3> QED
      BY <1>5, <2>3, <2>4, <2>5, <3>1 DEF KeyInv, KeyedQueues
  <2>9. OneOfKey'
    <3>1. ASSUME NEW f \in pending, f \notin stale \cup old, NEW j \in Keys, j = k, HasKey(f, j)
          PROVE  /\ p \in {Immediate, Interactive}
                 /\ f.priority = Immediate /\ f.op < r
      <4>1. k # NoKey /\ k \in Keys
        BY <3>1 DEF HasKey
      <4>a. f.op \in Nat /\ f.op <= sent
        BY <1>2, <1>4
      <4>b. f.op < r
        BY <1>r, <1>2, <4>a
      <4>2. \/ f.priority = Immediate /\ k \in ControlKeys
            \/ f.priority = Interactive /\ k \in ControlKeys /\ f.coalesceKey = k
            \/ f.priority = Waveform /\ k \in StreamKeys /\ f.latestKey = k
        BY <3>1 DEF KeyInv, KeyedQueues
      <4>3. f \notin Superseded(p, ck, lk)
        BY <1>m, <3>1
      <4>4. CASE p = Interactive /\ ck = k
        BY <4>1, <4>b, <4>2, <4>3, <4>4, SchedulerAssumption DEF Superseded, Queue
      <4>5. CASE p = Waveform /\ lk = k
        BY <4>1, <4>b, <4>2, <4>3, <4>5, SchedulerAssumption DEF Superseded, Queue
      <4>6. CASE p = Immediate /\ k \in ControlKeys /\ stale = StaleInteractive(k)
        BY <3>1, <4>1, <4>b, <4>2, <4>6, SchedulerAssumption DEF StaleInteractive, Queue
      <4> QED
        BY <4>1, <4>b, <4>4, <4>5, <4>6
    <3>2. ASSUME NEW e \in pending', NEW f \in pending', NEW j \in Keys,
                 e # f, HasKey(e, j)', HasKey(f, j)'
          PROVE  /\ e.priority = Interactive => f.priority = Immediate /\ f.op < e.op
                 /\ e.priority # Waveform
      <4>1. CASE e = new
        BY <1>5, <2>3, <2>4, <2>5, <3>1, <3>2, <4>1 DEF Immediate, Interactive, Waveform
      <4>2. CASE f = new
        BY <1>5, <2>3, <2>4, <2>5, <3>1, <3>2, <4>2 DEF Immediate, Interactive, Waveform
      <4>3. CASE e # new /\ f # new
        BY <1>5, <2>4, <3>2, <4>3 DEF KeyInv, OneOfKey
      <4> QED
        BY <4>1, <4>2, <4>3
    <3> QED
      BY <3>2 DEF OneOfKey
  <2>10. NewestIsKept'
    <3>1. ASSUME NEW s \in Requests, Newest(s)'
          PROVE  \/ status'[s] = "rejected"
                 \/ lastRun'[key'[s]] = s
                 \/ \E e \in pending' : e.op = s
      <4>1. CASE s = r
        BY <2>1, <2>2, <2>3, <4>1
      <4>2. CASE s # r
        <5>1. Newest(s) /\ key'[s] = key[s] /\ key[s] # k
          BY <1>8, <3>1, <4>2
        <5>2. status'[s] = status[s]
          BY <1>r, <1>2, <1>10, <4>2 DEF Enqueue, TypeOK
        <5>3. ASSUME NEW e \in pending, e.op = s PROVE e \in pending'
          BY <1>6, <2>1, <5>1, <5>3 DEF HasKey
        <5> QED
          BY <1>1, <5>1, <5>2, <5>3 DEF KeyInv, NewestIsKept
      <4> QED
        BY <4>1, <4>2
    <3> QED
      BY <3>1 DEF NewestIsKept
  <2> QED
    BY <2>6, <2>8, <2>9, <2>10 DEF KeyInv
<1> QED
  BY <1>9, <1>10

(* The work that is taken is the oldest of its key, and newer than what    *)
(* was run of it.                                                          *)
LEMMA StartKeyInv ==
  ASSUME IInv, KeyInv, Start
  PROVE  KeyInv' /\ \A k \in Keys : lastRun'[k] >= lastRun[k]
<1>1. PICK p \in Priorities, e \in pending :
        /\ Selectable(p) /\ e \in FrontOf(p) /\ pending' = pending \ {e}
        /\ lastRun' = IF key[e.op] = NoKey THEN lastRun
                      ELSE [lastRun EXCEPT ![key[e.op]] = e.op]
  BY DEF Start, FrontOf, Queue
<1>2. UNCHANGED <<sent, key, status>>
  BY DEF Start
<1>3. TypeOK /\ e \in pending /\ e.priority = p /\ \A f \in Queue(p) : e.seat <= f.seat
  BY <1>1 DEF IInv, FrontOf, Queue
<1>4. \A f \in pending : f \in Entry /\ f.op \in Nat /\ f.op \in Requests /\ f.op <= sent
  BY <1>3, SchedulerAssumption
     DEF TypeOK, Entry, Requests, IInv, EntriesSound, EntrySound, Entries
<1>5. \A f \in pending : f # e => f.op # e.op
  BY <1>3 DEF IInv, EntriesSound, EntrySound, WaitersDisjoint, Entries
<1>6. /\ \A k \in Keys : lastRun'[k] = IF HasKey(e, k) THEN e.op ELSE lastRun[k]
      /\ \A k \in Keys : lastRun[k] \in Nat
      /\ sent \in Nat
  BY <1>1, <1>3, <1>4, SchedulerAssumption DEF TypeOK, HasKey, Keys
<1>7. \A k \in Keys : lastRun'[k] <= sent' /\ lastRun'[k] >= lastRun[k]
  BY <1>2, <1>3, <1>4, <1>6 DEF KeyInv, NewerThanRun
<1>8. ASSUME NEW f \in pending, f # e, NEW k \in Keys, HasKey(e, k), HasKey(f, k)
      PROVE  e.op < f.op
  <2>1. \/ e.priority = Immediate /\ k \in ControlKeys /\ e.seat = e.op
        \/ e.priority = Interactive /\ k \in ControlKeys /\ e.coalesceKey = k
    BY <1>3, <1>8 DEF KeyInv, KeyedQueues, OneOfKey
  <2>2. \/ f.priority = Immediate /\ k \in ControlKeys /\ f.seat = f.op
        \/ f.priority = Interactive /\ k \in ControlKeys /\ f.coalesceKey = k
    BY <1>3, <1>8 DEF KeyInv, KeyedQueues, OneOfKey
  <2>3. CASE e.priority = Immediate /\ f.priority = Immediate
    BY <1>3, <1>4, <1>5, <1>8, <2>1, <2>2, <2>3 DEF Queue, Immediate, Interactive
  <2>4. CASE f.priority = Interactive
    BY <1>3, <1>8, <2>4 DEF KeyInv, OneOfKey
  <2>5. CASE e.priority = Interactive /\ f.priority = Immediate
    BY <1>1, <1>3, <2>5
       DEF Selectable, Queue, Priorities, Immediate, Interactive, Waveform, Background
  <2> QED
    BY <2>1, <2>2, <2>3, <2>4, <2>5
<1>9. NewerThanRun'
  <2>1. \A f \in pending' : \A k \in Keys : HasKey(f, k)' => lastRun'[k] < f.op
    BY <1>1, <1>2, <1>6, <1>8 DEF KeyInv, NewerThanRun, HasKey
  <2> QED
    BY <1>7, <2>1 DEF NewerThanRun
<1>10. KeyedQueues' /\ OneOfKey'
  BY <1>1, <1>2 DEF KeyInv, KeyedQueues, OneOfKey, HasKey
<1>11. NewestIsKept'
  <2>1. ASSUME NEW r \in Requests, Newest(r)
        PROVE  \/ status[r] = "rejected"
               \/ lastRun'[key[r]] = r
               \/ \E f \in pending' : f.op = r
    <3>1. key[r] \in Keys /\ key[r] # NoKey
      BY <1>3, <2>1 DEF TypeOK, Newest
    <3>2. CASE lastRun[key[r]] = r
      <4>1. HasKey(e, key[r]) => r < e.op /\ e.op <= r
        BY <1>3, <1>4, <2>1, <3>1, <3>2 DEF KeyInv, NewerThanRun, HasKey, Newest
      <4>2. ~HasKey(e, key[r])
        BY <1>3, <1>4, <4>1, SchedulerAssumption DEF Requests
      <4> QED
        BY <1>6, <3>1, <3>2, <4>2
    <3>3. CASE e.op = r
      BY <1>6, <3>1, <3>3 DEF HasKey
    <3> QED
      BY <1>1, <2>1, <3>2, <3>3 DEF KeyInv, NewestIsKept
  <2> QED
    BY <1>2, <2>1 DEF NewestIsKept, Newest
<1> QED
  BY <1>7, <1>9, <1>10, <1>11 DEF KeyInv

(* Settling requests keeps what waits, or rejects it.                      *)
LEMMA SettleKeyInv ==
  ASSUME KeyInv, UNCHANGED <<sent, key, lastRun>>, pending' \subseteq pending,
         \A r \in Requests : status[r] = "rejected" => status'[r] = "rejected",
         \A e \in pending \ pending' : status'[e.op] = "rejected"
  PROVE  KeyInv'
<1>1. NewerThanRun' /\ KeyedQueues' /\ OneOfKey'
  BY DEF KeyInv, NewerThanRun, KeyedQueues, OneOfKey, HasKey
<1>2. NewestIsKept'
  BY DEF KeyInv, NewestIsKept, Newest
<1> QED
  BY <1>1, <1>2 DEF KeyInv

(* An execution that ends settles nobody who was rejected before.          *)
LEMMA EndKeyInv ==
  ASSUME IInv, KeyInv, Succeed \/ Fail \/ Stop
  PROVE  KeyInv' /\ UNCHANGED lastRun
<1>1. \A e \in pending : e.op \in Requests /\ e.op \in e.waiters
  BY DEF IInv, TypeOK, Entry, EntriesSound, EntrySound, Entries
<1>2. \A e \in running : \A r \in e.waiters : r \in Requests => status[r] = "waiting"
  BY DEF IInv, WaitingIsHeld, Entries
<1>3. CASE Succeed
  <2>1. /\ UNCHANGED <<sent, key, lastRun, pending>>
        /\ \A r \in Requests : status[r] = "rejected" => status'[r] = "rejected"
    BY <1>2, <1>3 DEF Succeed
  <2> QED
    BY <2>1, SettleKeyInv
<1>4. CASE Fail
  <2>1. /\ UNCHANGED <<sent, key, lastRun>> /\ pending' \subseteq pending
        /\ \A r \in Requests : status[r] = "rejected" => status'[r] = "rejected"
        /\ \A e \in pending \ pending' : status'[e.op] = "rejected"
    BY <1>1, <1>4 DEF Fail, Reject, WaitersOf
  <2> QED
    BY <2>1, SettleKeyInv
<1>5. CASE Stop
  <2>1. /\ UNCHANGED <<sent, key, lastRun>> /\ pending' \subseteq pending
        /\ \A r \in Requests : status[r] = "rejected" => status'[r] = "rejected"
        /\ \A e \in pending \ pending' : status'[e.op] = "rejected"
    BY <1>1, <1>5 DEF Stop, Reject, WaitersOf
  <2> QED
    BY <2>1, SettleKeyInv
<1> QED
  BY <1>3, <1>4, <1>5 DEF Succeed, Fail, Stop

(* One step keeps the order of every key.                                  *)
LEMMA NextKeyInv ==
  ASSUME IInv, KeyInv, [Next]_vars
  PROVE  KeyInv' /\ \A k \in Keys : lastRun'[k] >= lastRun[k]
<1> USE DEF Immediate, Interactive, Normal, Waveform, Background
<1>1. \A k \in Keys : lastRun[k] \in Nat
  BY SchedulerAssumption DEF IInv, TypeOK
<1>2. ASSUME UNCHANGED lastRun PROVE \A k \in Keys : lastRun'[k] >= lastRun[k]
  BY <1>1, <1>2
<1>3. ASSUME NEW p \in {Interactive, Normal, Background}, Schedule(p)
      PROVE  KeyInv' /\ UNCHANGED lastRun
  <2>1. p \in Priorities /\ Enqueue(p, NoKey, NoKey, NoKey, {})
    BY <1>3 DEF Priorities, Schedule
  <2>2. KeyInv'
    BY <2>1, EnqueueKeyInv
  <2> QED
    BY <2>1, <2>2 DEF Enqueue
<1>4. ASSUME NEW k \in ControlKeys, ScheduleInteractive(k)
      PROVE  KeyInv' /\ UNCHANGED lastRun
  <2>1. Interactive \in Priorities /\ k \in Keys /\ Enqueue(Interactive, k, k, NoKey, {})
    BY <1>4 DEF Priorities, Keys, ScheduleInteractive
  <2>2. KeyInv'
    BY <2>1, EnqueueKeyInv
  <2> QED
    BY <2>1, <2>2 DEF Enqueue
<1>5. ASSUME NEW k \in ControlKeys \cup {NoKey}, ScheduleImmediate(k)
      PROVE  KeyInv' /\ UNCHANGED lastRun
  <2>1. Immediate \in Priorities /\ k \in Keys \cup {NoKey}
    BY DEF Priorities, Keys
  <2>2. PICK stale : stale = StaleInteractive(k)
    OBVIOUS
  <2>3. stale \in SUBSET pending
    BY <2>2 DEF StaleInteractive, Queue
  <2>4. \A e \in stale : HasKey(e, k)
    BY <2>2 DEF StaleInteractive, Queue, IInv, EntriesSound, EntrySound, Entries, HasKey
  <2>5. Enqueue(Immediate, k, NoKey, NoKey, stale)
    BY <1>5, <2>2 DEF ScheduleImmediate
  <2>6. KeyInv'
    BY <2>1, <2>2, <2>3, <2>4, <2>5, EnqueueKeyInv
  <2> QED
    BY <2>5, <2>6 DEF Enqueue
<1>6. ASSUME NEW k \in StreamKeys, ScheduleLatest(k)
      PROVE  KeyInv' /\ UNCHANGED lastRun
  <2>1. Waveform \in Priorities /\ k \in Keys /\ Enqueue(Waveform, k, NoKey, k, {})
    BY <1>6 DEF Priorities, Keys, ScheduleLatest
  <2>2. KeyInv'
    BY <2>1, EnqueueKeyInv
  <2> QED
    BY <2>1, <2>2 DEF Enqueue
<1>7. CASE PumpReturns \/ TransportLost \/ UNCHANGED vars
  <2>1. UNCHANGED <<pending, sent, key, lastRun, status>>
    BY <1>7 DEF PumpReturns, TransportLost, vars
  <2>2. /\ pending' \subseteq pending /\ pending \ pending' = {}
        /\ \A r \in Requests : status[r] = "rejected" => status'[r] = "rejected"
    BY <2>1
  <2>3. KeyInv'
    BY <2>1, <2>2, SettleKeyInv
  <2> QED
    BY <1>2, <2>1, <2>3
<1> QED
  BY <1>2, <1>3, <1>4, <1>5, <1>6, <1>7, StartKeyInv, EndKeyInv DEF Next

(* Of each key values are run in the order asked, and when the scheduler is *)
(* idle the newest has been run, unless stop or a broken transport rejected *)
(* it (scpi-scheduler.ts enqueue, removePendingInteractive, takeNext).      *)
THEOREM NewestAlwaysRuns == Spec => NewestRuns
<1>1. Init => KeyInv
  BY SchedulerAssumption
     DEF Init, KeyInv, NewerThanRun, KeyedQueues, OneOfKey, NewestIsKept, Newest, Requests
<1>2. IInv /\ KeyInv /\ [Next]_vars => KeyInv'
  BY NextKeyInv
<1>3. IInv /\ KeyInv /\ [Next]_vars => [\A k \in Keys : lastRun'[k] >= lastRun[k]]_vars
  BY NextKeyInv
<1>4. KeyInv => FinalValueRuns
  BY DEF KeyInv, NewestIsKept, Newest, FinalValueRuns, Entries
<1> QED
  BY <1>1, <1>2, <1>3, <1>4, SpecIInv, PTL DEF Spec, NewestRuns, KeyNeverGoesBack
=============================================================================
